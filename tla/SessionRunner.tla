---------------------------- MODULE SessionRunner ----------------------------
(***************************************************************************)
(* The plan/verify runner of packages/session-fabric/src/runner.ts: POST   *)
(* /sessions/:id/drive runs runPlanVerify, POST /sessions/:id/approve runs *)
(* resumeRun, and both end in driveFrom.  Several such requests, of the    *)
(* same runner or of different ones, work on one session at once, and      *)
(* POST /sessions/:id/supervise may take the lease away under them.        *)
(*                                                                         *)
(* SessionLease shows that the event log is a sequence written by requests *)
(* that passed the gate (SingleWriterLog), and that is how it is used      *)
(* here: an append is a gate step and a write step.  Time only matters     *)
(* through the end of a lease's term, which comes at any moment.           *)
(***************************************************************************)
EXTENDS Naturals, Sequences, FiniteSets

CONSTANTS Drives,      \* POST /drive requests
          Approves,    \* POST /approve requests
          Runners,     \* runner ids they are made with
          Plans,       \* what the planning model may return
          PolicyRules, \* the policy document, in its order
          SessionTier, \* the session's policyTier
          BodyTiers,   \* tiers a /drive may ask for in its body
          Free,        \* no row in `leases`
          Attempts     \* STEP_DISPATCH_ATTEMPTS (2 in the code)

Requests == Drives \cup Approves
Decisions == {"allow", "gate", "deny"}
TierRank == [observe |-> 0, steer |-> 1, drive |-> 2]
Tiers == DOMAIN TierRank

IsSequence(s) == s \in Seq({s[i] : i \in DOMAIN s})

\* A rule without a `tier` asks for "observe", which everybody has.  "none"
\* stands for the approved step of a drive, which has none.
ASSUME RunnerAssumption ==
    /\ Drives \cap Approves = {}
    /\ Attempts \in Nat \ {0}
    /\ BodyTiers \cup {SessionTier} \subseteq Tiers
    /\ IsSequence(PolicyRules)
    /\ \A i \in DOMAIN PolicyRules :
          PolicyRules[i].decision \in Decisions /\ PolicyRules[i].tier \in Tiers
    /\ \A s \in Plans : IsSequence(s) /\ \A i \in DOMAIN s : s[i].id # "none"

VARIABLES lease,     \* Free, or the holder and whether its term still runs
          log,       \* the session's events, oldest first
          pc,        \* where a request stands
          runner,    \* its runnerId (Free until it arrives)
          tier,      \* the tier its steps are judged under
          plan,      \* the steps it works on
          idx,       \* its loop index i
          approved,  \* the step id whose gate it skips, or "none"
          admitted,  \* it passed the gate of the append it is about to write
          attempt,   \* dispatches of the current step so far
          ran        \* history: the steps (by index) it dispatched

vars == <<lease, log, pc, runner, tier, plan, idx, approved, admitted, attempt, ran>>

\* Each of these pc values is the append of one event.
EventOf == [appendPlan |-> "plan", appendStatus |-> "status",
            appendRequest |-> "approval_request", appendCall |-> "tool_call",
            appendResult |-> "tool_result", appendOutcome |-> "outcome",
            appendApprove |-> "approve", appendDeny |-> "deny"]
Appends == DOMAIN EventOf

\* "cut": the request ended early and left the lease as it was, because it
\* lost a claim, an append failed, the decision was a repeat, or it crashed.
Ends == {"completed", "denied", "paused", "failed", "cut"}

Working == {"planning", "reclaimPlan", "resumeClaim", "dispatch", "verifying",
            "reclaimVerify", "release", "releaseDenied", "releaseFailed"}

Init ==
    /\ lease = Free
    /\ log = <<>>
    /\ pc = [p \in Requests |-> "new"]
    /\ runner = [p \in Requests |-> Free]
    /\ tier = [p \in Requests |-> SessionTier]
    /\ plan = [p \in Requests |-> <<>>]
    /\ idx = [p \in Requests |-> 1]
    /\ approved = [p \in Requests |-> "none"]
    /\ admitted = [p \in Requests |-> FALSE]
    /\ attempt = [p \in Requests |-> 0]
    /\ ran = [p \in Requests |-> {}]

-----------------------------------------------------------------------------
(* claimLease, releaseLease and appendEvent, as their callers see them. *)

Go(p, where) == pc' = [pc EXCEPT ![p] = where]

Live(p) == pc[p] \notin Ends \cup {"new"}

ClaimWins(r) == lease # Free => ~lease.live \/ lease.holder = r

\* Claim, and go on as `where`; a runner that loses returns NO_LEASE.
ClaimFor(p, r, where) ==
    IF ClaimWins(r)
    THEN lease' = [holder |-> r, live |-> TRUE] /\ Go(p, where)
    ELSE lease' = lease /\ Go(p, "cut")

Claim(p, where) == ClaimFor(p, runner[p], where)

ReleaseLease(r) ==
    lease' = IF lease # Free /\ lease.holder = r THEN Free ELSE lease

HoldsLease(p) == lease # Free /\ lease.live /\ lease.holder = runner[p]

\* assertHoldsLease: without the lease the append fails, and every caller
\* returns at once, its lease (if it still has a row) left as it is.
AppendGate(p) ==
    /\ pc[p] \in Appends
    /\ ~admitted[p]
    /\ IF HoldsLease(p)
       THEN admitted' = [admitted EXCEPT ![p] = TRUE] /\ pc' = pc
       ELSE Go(p, "cut") /\ admitted' = admitted
    /\ UNCHANGED <<lease, log, runner, tier, plan, idx, approved, attempt, ran>>

\* SEQ_CONFLICT after the last retry, or a database error.
AppendFails(p) ==
    /\ pc[p] \in Appends
    /\ admitted[p]
    /\ admitted' = [admitted EXCEPT ![p] = FALSE]
    /\ Go(p, "cut")
    /\ UNCHANGED <<lease, log, runner, tier, plan, idx, approved, attempt, ran>>

\* A decision names the step it was made for, any other event the step at i.
StepId(p) == IF pc[p] \in {"appendApprove", "appendDeny"} THEN approved[p]
             ELSE IF idx[p] \in DOMAIN plan[p] THEN plan[p][idx[p]].id
             ELSE "none"

Write(p) ==
    /\ pc[p] \in Appends
    /\ admitted[p]
    /\ log' = Append(log, [kind |-> EventOf[pc[p]], step |-> StepId(p), by |-> p,
                           at |-> idx[p],
                           steps |-> IF pc[p] = "appendPlan" THEN plan[p] ELSE <<>>])
    /\ admitted' = [admitted EXCEPT ![p] = FALSE]

-----------------------------------------------------------------------------
(* driveFrom: what the loop does next is decided without waiting. *)

TierAtLeast(have, required) == TierRank[have] >= TierRank[required]

Matching(step) == {i \in DOMAIN PolicyRules : step.tool \in PolicyRules[i].tools}

\* The first rule that matches decides; an `allow` the tier does not reach is a
\* gate, and so is a step too long for the patterns to be run on it.
EvaluatePolicy(step, have) ==
    LET first == CHOOSE i \in Matching(step) : \A j \in Matching(step) : i <= j
        rule  == PolicyRules[first]
    IN  IF step.long THEN "gate"
        ELSE IF Matching(step) = {} THEN "allow"
        ELSE IF rule.decision = "allow" /\ ~TierAtLeast(have, rule.tier) THEN "gate"
        ELSE rule.decision

AppendFor == [allow |-> "appendCall", gate |-> "appendRequest", deny |-> "appendStatus"]

\* Mutant: an approval lets every later step pass its gate.
LoopAtApproved(steps, i, skip, have) ==
    IF i > Len(steps) THEN "verifying"
    ELSE IF skip # "none" THEN "appendCall"
    ELSE AppendFor[EvaluatePolicy(steps[i], have)]

\* Where the loop stands at index i: it ends, or the step's gate is skipped,
\* or evaluatePolicy decides.
LoopAt(steps, i, skip, have) ==
    IF i > Len(steps) THEN "verifying"
    ELSE IF steps[i].id = skip THEN "appendCall"
    ELSE AppendFor[EvaluatePolicy(steps[i], have)]

\* One executeStep; a throw is dispatched once more, a second one becomes a
\* failed result.
Dispatched(p) == ran' = [ran EXCEPT ![p] = @ \cup {idx[p]}]

ExecuteReturns(p) ==
    /\ pc[p] = "dispatch"
    /\ Dispatched(p)
    /\ attempt' = [attempt EXCEPT ![p] = 0]
    /\ Go(p, "appendResult")
    /\ UNCHANGED <<lease, log, runner, tier, plan, idx, approved, admitted>>

\* Mutant: the bound of the retry is one too high.
ExecuteThrowsOnceMore(p) ==
    /\ pc[p] = "dispatch"
    /\ Dispatched(p)
    /\ IF attempt[p] < Attempts
       THEN attempt' = [attempt EXCEPT ![p] = @ + 1] /\ pc' = pc
       ELSE attempt' = [attempt EXCEPT ![p] = 0] /\ Go(p, "appendResult")
    /\ UNCHANGED <<lease, log, runner, tier, plan, idx, approved, admitted>>

\* Mutant: a retry starts over with its tool_call.
ExecuteThrowsRelogs(p) ==
    /\ pc[p] = "dispatch"
    /\ Dispatched(p)
    /\ IF attempt[p] + 1 < Attempts
       THEN attempt' = [attempt EXCEPT ![p] = @ + 1] /\ Go(p, "appendCall")
       ELSE attempt' = [attempt EXCEPT ![p] = 0] /\ Go(p, "appendResult")
    /\ UNCHANGED <<lease, log, runner, tier, plan, idx, approved, admitted>>

\* Mutant: when the attempts are used up they start over.
ExecuteThrowsForever(p) ==
    /\ pc[p] = "dispatch"
    /\ Dispatched(p)
    /\ attempt' = [attempt EXCEPT ![p] = (@ + 1) % Attempts]
    /\ UNCHANGED <<lease, log, pc, runner, tier, plan, idx, approved, admitted>>

ExecuteThrows(p) ==
    /\ pc[p] = "dispatch"
    /\ Dispatched(p)
    /\ IF attempt[p] + 1 < Attempts
       THEN attempt' = [attempt EXCEPT ![p] = @ + 1] /\ pc' = pc
       ELSE attempt' = [attempt EXCEPT ![p] = 0] /\ Go(p, "appendResult")
    /\ UNCHANGED <<lease, log, runner, tier, plan, idx, approved, admitted>>

CallWritten(p) ==
    /\ pc[p] = "appendCall"
    /\ Write(p)
    /\ Go(p, "dispatch")
    /\ UNCHANGED <<lease, runner, tier, plan, idx, approved, attempt, ran>>

ResultWritten(p) ==
    /\ pc[p] = "appendResult"
    /\ Write(p)
    /\ idx' = [idx EXCEPT ![p] = @ + 1]
    /\ Go(p, LoopAt(plan[p], idx[p] + 1, approved[p], tier[p]))
    /\ UNCHANGED <<lease, runner, tier, plan, approved, attempt, ran>>

\* A gated step: the run ends here, the lease is kept.
RequestWritten(p) ==
    /\ pc[p] = "appendRequest"
    /\ Write(p)
    /\ Go(p, "paused")
    /\ UNCHANGED <<lease, runner, tier, plan, idx, approved, attempt, ran>>

DenialWritten(p) ==
    /\ pc[p] = "appendStatus"
    /\ Write(p)
    /\ Go(p, "releaseDenied")
    /\ UNCHANGED <<lease, runner, tier, plan, idx, approved, attempt, ran>>

VerifyReturns(p) ==
    /\ pc[p] = "verifying"
    /\ Go(p, "reclaimVerify")
    /\ UNCHANGED <<lease, log, runner, tier, plan, idx, approved, admitted, attempt, ran>>

VerifyThrows(p) ==
    /\ pc[p] = "verifying"
    /\ Go(p, "releaseFailed")
    /\ UNCHANGED <<lease, log, runner, tier, plan, idx, approved, admitted, attempt, ran>>

VerifyReclaims(p) ==
    /\ pc[p] = "reclaimVerify"
    /\ Claim(p, "appendOutcome")
    /\ UNCHANGED <<log, runner, tier, plan, idx, approved, admitted, attempt, ran>>

OutcomeWritten(p) ==
    /\ pc[p] = "appendOutcome"
    /\ Write(p)
    /\ Go(p, "release")
    /\ UNCHANGED <<lease, runner, tier, plan, idx, approved, attempt, ran>>

EndOf == [release |-> "completed", releaseDenied |-> "denied", releaseFailed |-> "failed"]

Released(p) ==
    /\ pc[p] \in DOMAIN EndOf
    /\ ReleaseLease(runner[p])
    /\ Go(p, EndOf[pc[p]])
    /\ UNCHANGED <<log, runner, tier, plan, idx, approved, admitted, attempt, ran>>

-----------------------------------------------------------------------------
(* runPlanVerify *)

\* The body names the runner and may name a tier; the session's is the default.
DriveClaims(p) ==
    /\ p \in Drives
    /\ pc[p] = "new"
    /\ \E r \in Runners :
          /\ runner' = [runner EXCEPT ![p] = r]
          /\ ClaimFor(p, r, "planning")
    /\ \E t \in BodyTiers \cup {SessionTier} : tier' = [tier EXCEPT ![p] = t]
    /\ UNCHANGED <<log, plan, idx, approved, admitted, attempt, ran>>

PlanReturns(p) ==
    /\ pc[p] = "planning"
    /\ \E steps \in Plans : plan' = [plan EXCEPT ![p] = steps]
    /\ Go(p, "reclaimPlan")
    /\ UNCHANGED <<lease, log, runner, tier, idx, approved, admitted, attempt, ran>>

\* Mutant: the throw escapes with the lease held.
PlanThrowEscapes(p) ==
    /\ pc[p] = "planning"
    /\ Go(p, "failed")
    /\ UNCHANGED <<lease, log, runner, tier, plan, idx, approved, admitted, attempt, ran>>

PlanThrows(p) ==
    /\ pc[p] = "planning"
    /\ Go(p, "releaseFailed")
    /\ UNCHANGED <<lease, log, runner, tier, plan, idx, approved, admitted, attempt, ran>>

PlanReclaims(p) ==
    /\ pc[p] = "reclaimPlan"
    /\ Claim(p, "appendPlan")
    /\ UNCHANGED <<log, runner, tier, plan, idx, approved, admitted, attempt, ran>>

PlanWritten(p) ==
    /\ pc[p] = "appendPlan"
    /\ Write(p)
    /\ Go(p, LoopAt(plan[p], 1, "none", tier[p]))
    /\ UNCHANGED <<lease, runner, tier, plan, idx, approved, attempt, ran>>

-----------------------------------------------------------------------------
(* resumeRun *)

Events(kind) == {i \in DOMAIN log : log[i].kind = kind}
EventsFor(kind, id) == {i \in Events(kind) : log[i].step = id}

\* Mutant: the first of several plans is good enough.
MayResumeAmbiguous(id) ==
    /\ EventsFor("approve", id) \cup EventsFor("deny", id) = {}
    /\ \E i \in EventsFor("approval_request", id) :
          \A j \in Events("approval_request") : j <= i

\* Exactly one plan, no decision for the step yet, and the last request for
\* an approval is for this step.
MayResume(id) ==
    /\ Cardinality(Events("plan")) = 1
    /\ EventsFor("approve", id) \cup EventsFor("deny", id) = {}
    /\ \E i \in EventsFor("approval_request", id) :
          \A j \in Events("approval_request") : j <= i

\* Mutant: resume behind the step that was approved.
IndexBehind(steps, id) ==
    1 + CHOOSE i \in DOMAIN steps :
            steps[i].id = id /\ \A j \in DOMAIN steps : steps[j].id = id => i <= j

FirstIndex(steps, id) ==
    CHOOSE i \in DOMAIN steps :
        steps[i].id = id /\ \A j \in DOMAIN steps : steps[j].id = id => i <= j

\* Replay the log and decide what to do, before any await.  The tier is the
\* session's, whatever the drive that paused asked for.
ApproveReadsLog(p) ==
    /\ p \in Approves
    /\ pc[p] = "new"
    /\ \E r \in Runners : runner' = [runner EXCEPT ![p] = r]
    /\ \E i \in Events("plan") : \E id \in {log[i].steps[k].id : k \in DOMAIN log[i].steps} :
          IF MayResume(id)
          THEN /\ plan' = [plan EXCEPT ![p] = log[i].steps]
               /\ idx' = [idx EXCEPT ![p] = FirstIndex(log[i].steps, id)]
               /\ approved' = [approved EXCEPT ![p] = id]
               /\ Go(p, "resumeClaim")
          ELSE Go(p, "cut") /\ UNCHANGED <<plan, idx, approved>>
    /\ UNCHANGED <<lease, log, tier, admitted, attempt, ran>>

ResumeClaims(p) ==
    /\ pc[p] = "resumeClaim"
    /\ \E decision \in {"appendApprove", "appendDeny"} : Claim(p, decision)
    /\ UNCHANGED <<log, runner, tier, plan, idx, approved, admitted, attempt, ran>>

ApprovalWritten(p) ==
    /\ pc[p] = "appendApprove"
    /\ Write(p)
    /\ Go(p, LoopAt(plan[p], idx[p], approved[p], tier[p]))
    /\ UNCHANGED <<lease, runner, tier, plan, idx, approved, attempt, ran>>

DenyWritten(p) ==
    /\ pc[p] = "appendDeny"
    /\ Write(p)
    /\ Go(p, "appendStatus")
    /\ UNCHANGED <<lease, runner, tier, plan, idx, approved, attempt, ran>>

-----------------------------------------------------------------------------
(* Around the requests *)

\* The term of the lease runs out.
TermEnds ==
    /\ lease # Free /\ lease.live
    /\ lease' = [lease EXCEPT !.live = FALSE]
    /\ UNCHANGED <<log, pc, runner, tier, plan, idx, approved, admitted, attempt, ran>>

\* superviseSession found the session driven and over budget.
Halt ==
    /\ lease # Free /\ lease.live
    /\ lease' = Free
    /\ UNCHANGED <<log, pc, runner, tier, plan, idx, approved, admitted, attempt, ran>>

\* The API process dies with the request in it.
Crash(p) ==
    /\ Live(p)
    /\ Go(p, "cut")
    /\ UNCHANGED <<lease, log, runner, tier, plan, idx, approved, admitted, attempt, ran>>

Progress(p) ==
    \/ AppendGate(p) \/ AppendFails(p)
    \/ PlanReturns(p) \/ PlanThrows(p) \/ PlanReclaims(p) \/ PlanWritten(p)
    \/ CallWritten(p) \/ ExecuteReturns(p) \/ ExecuteThrows(p) \/ ResultWritten(p)
    \/ RequestWritten(p) \/ DenialWritten(p)
    \/ VerifyReturns(p) \/ VerifyThrows(p) \/ VerifyReclaims(p) \/ OutcomeWritten(p)
    \/ Released(p)
    \/ ResumeClaims(p) \/ ApprovalWritten(p) \/ DenyWritten(p)

Next ==
    \/ \E p \in Requests : DriveClaims(p) \/ ApproveReadsLog(p) \/ Progress(p) \/ Crash(p)
    \/ TermEnds
    \/ Halt

\* Database statements return, and so does a backend call: the model client
\* gives up after stepTimeoutMs.  A request need not be made, and nobody need
\* crash or supervise.
Spec == Init /\ [][Next]_vars /\ \A p \in Requests : WF_vars(Progress(p))

-----------------------------------------------------------------------------
(* Properties *)

Entry == [kind : {EventOf[a] : a \in Appends}, step : {"none"} \cup
            UNION {{s[k].id : k \in DOMAIN s} : s \in Plans},
          by : Requests, at : Nat, steps : Plans \cup {<<>>}]

TypeOK ==
    /\ lease \in {Free} \cup [holder : Runners, live : BOOLEAN]
    /\ \A i \in DOMAIN log : log[i] \in Entry
    /\ pc \in [Requests -> {"new"} \cup Working \cup Appends \cup Ends]
    /\ runner \in [Requests -> Runners \cup {Free}]
    /\ tier \in [Requests -> Tiers]
    /\ plan \in [Requests -> Plans \cup {<<>>}]
    /\ \A p \in Requests : idx[p] \in 1 .. Len(plan[p]) + 1
    /\ attempt \in [Requests -> 0 .. Attempts - 1]
    /\ admitted \in [Requests -> BOOLEAN]

CallsOf(p, k) == {i \in Events("tool_call") : log[i].by = p /\ log[i].at = k}
ResultsOf(p, k) == {i \in Events("tool_result") : log[i].by = p /\ log[i].at = k}

\* No tool call of a step the policy denies under the tier of the request that
\* makes it, and none of a step it gates unless that step of that plan had
\* asked for an approval and somebody gave it then: whichever tier the drive
\* asked for and the approval resumes under, and whatever drives, approvals,
\* crashes and supervisors do to the session in between (runner.ts driveFrom,
\* resumeRun, policy.ts evaluatePolicy).
ToolCallsArePermitted ==
    \A i \in Events("tool_call") :
        LET by   == log[i].by
            step == plan[by][log[i].at]
            say  == EvaluatePolicy(step, tier[by])
        IN  /\ say # "deny"
            /\ say = "gate" =>
                  \E j \in EventsFor("approve", step.id) :
                      /\ j < i
                      /\ \E k \in EventsFor("approval_request", step.id) :
                            k < j /\ plan[log[k].by] = plan[by]

\* runner.ts:127 "exactly one tool_call before this and exactly one tool_result
\* after it no matter which attempt produced the result": a dispatched step has
\* one call in the log, and at most one result, behind the call.
DispatchesAreLogged ==
    \A p \in Requests : \A k \in 1 .. Len(plan[p]) :
        /\ k \in ran[p] => Cardinality(CallsOf(p, k)) = 1
        /\ Cardinality(ResultsOf(p, k)) <= 1
        /\ \A i \in ResultsOf(p, k) : \E j \in CallsOf(p, k) : j < i

\* An outcome is only recorded for a plan every step of which has a result,
\* over the drive that paused and the approval that resumed it.
OutcomeCoversPlan ==
    \A i \in Events("outcome") : \A k \in DOMAIN plan[log[i].by] :
        \E j \in Events("tool_result") :
            j < i /\ log[j].at = k /\ plan[log[j].by] = plan[log[i].by]

\* runner.ts:89 "a throw here would escape with the lease still held": the
\* session stays leased only to a runner that is still at work, that waits for
\* an approval, or whose request was cut short by an append, a crash or a lost
\* claim; every regular end, a backend's throw included, gives it back.
LeaseIsAccountedFor ==
    lease # Free => \E p \in Requests :
        /\ runner[p] = lease.holder
        /\ Live(p) \/ pc[p] \in {"paused", "cut"}

\* Every request ends, however many overlap: again and again the session is at
\* rest.  Retries are bounded and no step waits for another request.
RequestsEnd == []<>(\A p \in Requests : ~Live(p))

(* What the code says of itself and does not keep (see the README). *)

\* runner.ts:294 "Idempotent per `stepId`": a step is decided once.
DecidedOnce ==
    \A i, j \in Events("approve") \cup Events("deny") :
        log[i].step = log[j].step => i = j
=============================================================================
