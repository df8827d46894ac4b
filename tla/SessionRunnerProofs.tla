------------------------- MODULE SessionRunnerProofs -------------------------
(***************************************************************************)
(* Proofs about SessionRunner for any number of drives, approvals and      *)
(* runners, any plans, any policy and any number of dispatch attempts.     *)
(***************************************************************************)
EXTENDS SessionRunner, FiniteSetTheorems, SequenceTheorems, WellFoundedInduction, TLAPS

-----------------------------------------------------------------------------
(* Smallest indices, and what the loop does at an index *)

LEMMA Smallest ==
    ASSUME NEW S \in SUBSET Nat, S # {}
    PROVE  \E n \in S : \A m \in S : n <= m
<1> DEFINE R == {ss \in Nat \X Nat : ss[1] < ss[2]}
<1>1. IsWellFoundedOn(R, Nat)
  BY NatLessThanWellFounded DEF OpToRel
<1>2. PICK n \in S : \A m \in S : ~(<<m, n>> \in R)
  <2> HIDE DEF R
  <2>1. QED BY <1>1, WFMin
<1>3. \A m \in S : ~(m < n)
  BY <1>2
<1>4. QED BY <1>3

LEMMA Sequences ==
    ASSUME NEW s, IsSequence(s)
    PROVE  Len(s) \in Nat /\ DOMAIN s = 1 .. Len(s)
BY DEF IsSequence

LEMMA PlansAreSequences ==
    ASSUME NEW s \in Plans \cup {<<>>}
    PROVE  /\ Len(s) \in Nat /\ DOMAIN s = 1 .. Len(s)
           /\ \A i \in 1 .. Len(s) : s[i].id # "none"
<1>1. CASE s \in Plans
  BY <1>1, Sequences, RunnerAssumption
<1>2. CASE s = <<>>
  BY <1>2
<1>3. QED BY <1>1, <1>2

LEMMA PolicyDecides ==
    ASSUME NEW step, NEW t
    PROVE  EvaluatePolicy(step, t) \in Decisions
<1>1. CASE Matching(step) = {}
  BY <1>1 DEF EvaluatePolicy, Decisions
<1>2. CASE Matching(step) # {}
  <2>1. Matching(step) \in SUBSET Nat /\ Matching(step) \subseteq DOMAIN PolicyRules
    BY RunnerAssumption, Sequences DEF Matching
  <2>2. \E i \in Matching(step) : \A j \in Matching(step) : i <= j
    BY <1>2, <2>1, Smallest
  <2> DEFINE first == CHOOSE i \in Matching(step) : \A j \in Matching(step) : i <= j
  <2>3. first \in DOMAIN PolicyRules
    BY <2>1, <2>2
  <2>4. PolicyRules[first].decision \in Decisions
    BY <2>3, RunnerAssumption
  <2> HIDE DEF first
  <2>5. EvaluatePolicy(step, t) \in {"gate", "allow", PolicyRules[first].decision}
    BY DEF EvaluatePolicy, first
  <2>6. QED BY <2>4, <2>5 DEF Decisions
<1>3. QED BY <1>1, <1>2

\* A rule that denies does so under every tier.
LEMMA DenialIsForAll ==
    ASSUME NEW step, NEW t, NEW u, EvaluatePolicy(step, t) = "deny"
    PROVE  EvaluatePolicy(step, u) = "deny"
BY DEF EvaluatePolicy

LEMMA LoopStands ==
    ASSUME NEW steps \in Plans \cup {<<>>}, NEW i \in Nat, NEW skip, NEW t
    PROVE  /\ LoopAt(steps, i, skip, t) = "verifying" => i > Len(steps)
           /\ LoopAt(steps, i, skip, t) # "verifying" =>
                 /\ i <= Len(steps)
                 /\ LoopAt(steps, i, skip, t) \in {"appendCall", "appendRequest", "appendStatus"}
           /\ LoopAt(steps, i, skip, t) = "appendCall" =>
                 steps[i].id = skip \/ EvaluatePolicy(steps[i], t) = "allow"
           /\ LoopAt(steps, i, skip, t) = "appendRequest" =>
                 EvaluatePolicy(steps[i], t) = "gate"
<1>1. AppendFor["allow"] = "appendCall" /\ AppendFor["gate"] = "appendRequest"
      /\ AppendFor["deny"] = "appendStatus"
  BY DEF AppendFor
<1>2. EvaluatePolicy(steps[i], t) \in {"allow", "gate", "deny"}
  BY PolicyDecides DEF Decisions
<1>3. Len(steps) \in Nat
  BY PlansAreSequences
<1>4. QED BY <1>1, <1>2, <1>3 DEF LoopAt

LEMMA FirstOne ==
    ASSUME NEW steps \in Plans, NEW i \in DOMAIN steps
    PROVE  /\ FirstIndex(steps, steps[i].id) \in 1 .. Len(steps)
           /\ FirstIndex(steps, steps[i].id) <= i
           /\ steps[FirstIndex(steps, steps[i].id)].id = steps[i].id
<1> DEFINE S == {j \in DOMAIN steps : steps[j].id = steps[i].id}
<1>1. DOMAIN steps = 1 .. Len(steps) /\ Len(steps) \in Nat
  BY PlansAreSequences
<1>2. S \in SUBSET Nat /\ S # {}
  BY <1>1
<1>3. \E n \in S : \A m \in S : n <= m
  <2> HIDE DEF S
  <2>1. QED BY <1>2, Smallest
<1>4. \E n \in DOMAIN steps :
          steps[n].id = steps[i].id
          /\ \A j \in DOMAIN steps : steps[j].id = steps[i].id => n <= j
  BY <1>3
<1>5. QED BY <1>1, <1>4 DEF FirstIndex

-----------------------------------------------------------------------------
(* Appends *)

LEMMA AppendKinds ==
    /\ Appends = {"appendPlan", "appendStatus", "appendRequest", "appendCall",
                  "appendResult", "appendOutcome", "appendApprove", "appendDeny"}
    /\ EventOf["appendPlan"] = "plan" /\ EventOf["appendStatus"] = "status"
    /\ EventOf["appendRequest"] = "approval_request" /\ EventOf["appendCall"] = "tool_call"
    /\ EventOf["appendResult"] = "tool_result" /\ EventOf["appendOutcome"] = "outcome"
    /\ EventOf["appendApprove"] = "approve" /\ EventOf["appendDeny"] = "deny"
BY DEF Appends, EventOf

-----------------------------------------------------------------------------
(* Types *)

StepIds == {"none"} \cup UNION {{s[k].id : k \in DOMAIN s} : s \in Plans}

\* Where a request has no plan in the log yet, where it is at a step of its
\* plan, and where it has done them all.
Starting == {"new", "planning", "reclaimPlan", "appendPlan"}
Resuming == {"resumeClaim", "appendApprove", "appendDeny"}
Looping == {"appendCall", "dispatch", "appendResult", "appendRequest", "appendStatus"}
AllDone == {"verifying", "reclaimVerify", "appendOutcome", "release"}

PhaseOK(p) ==
    /\ pc[p] # "new" => runner[p] \in Runners
    /\ pc[p] \in Starting => idx[p] = 1 /\ approved[p] = "none"
    /\ pc[p] \in Resuming \cup Looping => idx[p] \in 1 .. Len(plan[p])
    /\ pc[p] \in AllDone => idx[p] = Len(plan[p]) + 1

Shape ==
    /\ TypeOK
    /\ log \in Seq(Entry)
    /\ idx \in [Requests -> Nat]
    /\ approved \in [Requests -> StepIds]
    /\ ran \in [Requests -> SUBSET Nat]
    /\ \A p \in Requests : PhaseOK(p)

LEMMA IdsOfPlans ==
    ASSUME Shape, NEW p \in Requests, idx[p] \in 1 .. Len(plan[p])
    PROVE  /\ plan[p] \in Plans /\ idx[p] \in DOMAIN plan[p]
           /\ plan[p][idx[p]].id \in StepIds
<1>1. plan[p] \in Plans \cup {<<>>}
  BY DEF Shape, TypeOK
<1>2. plan[p] # <<>> /\ idx[p] \in DOMAIN plan[p]
  BY <1>1, PlansAreSequences
<1>3. QED BY <1>1, <1>2 DEF StepIds

\* An append adds one well-formed entry.
LEMMA Writes ==
    ASSUME Shape, NEW p \in Requests, Write(p)
    PROVE  \E e \in Entry :
              /\ log' = Append(log, e) /\ log' \in Seq(Entry)
              /\ Len(log) \in Nat /\ DOMAIN log = 1 .. Len(log)
              /\ Len(log') = Len(log) + 1 /\ DOMAIN log' = 1 .. Len(log) + 1
              /\ \A i \in 1 .. Len(log) : log'[i] = log[i]
              /\ log'[Len(log) + 1] = e
              /\ e.kind = EventOf[pc[p]] /\ e.by = p /\ e.at = idx[p]
              /\ e.step = StepId(p)
              /\ pc[p] = "appendPlan" => e.steps = plan[p]
<1> DEFINE e == [kind |-> EventOf[pc[p]], step |-> StepId(p), by |-> p, at |-> idx[p],
                 steps |-> IF pc[p] = "appendPlan" THEN plan[p] ELSE <<>>]
<1>1. log' = Append(log, e) /\ pc[p] \in Appends
  BY DEF Write
<1>2. StepId(p) \in StepIds
  <2>1. plan[p] \in Plans \cup {<<>>} /\ approved[p] \in StepIds
    BY DEF Shape, TypeOK
  <2>2. idx[p] \in DOMAIN plan[p] => plan[p][idx[p]].id \in StepIds
    BY <2>1, PlansAreSequences, IdsOfPlans
  <2>3. "none" \in StepIds
    BY DEF StepIds
  <2>4. QED BY <2>1, <2>2, <2>3 DEF StepId
<1>3. e \in Entry
  <2>1. EventOf[pc[p]] \in {EventOf[a] : a \in Appends}
    BY <1>1
  <2>2. idx[p] \in Nat /\ plan[p] \in Plans \cup {<<>>}
    BY DEF Shape, TypeOK
  <2>3. QED BY <1>2, <2>1, <2>2 DEF Entry, StepIds
<1>4. /\ e.kind = EventOf[pc[p]] /\ e.by = p /\ e.at = idx[p] /\ e.step = StepId(p)
      /\ pc[p] = "appendPlan" => e.steps = plan[p]
  OBVIOUS
<1> HIDE DEF e
<1>5. log \in Seq(Entry)
  BY DEF Shape
<1>6. /\ log' \in Seq(Entry) /\ Len(log') = Len(log) + 1
      /\ \A i \in 1 .. Len(log) : log'[i] = log[i]
      /\ log'[Len(log) + 1] = e
  BY <1>1, <1>3, <1>5, AppendProperties
<1>7. Len(log) \in Nat /\ DOMAIN log = 1 .. Len(log) /\ DOMAIN log' = 1 .. Len(log')
  BY <1>5, <1>6, LenProperties
<1>8. QED BY <1>1, <1>3, <1>4, <1>6, <1>7

\* A step that leaves log, plans, indices and tiers alone and moves a request
\* along its phase.
LEMMA ShapeMoves ==
    ASSUME Shape, NEW p \in Requests, pc[p] # "new",
           lease' \in {Free} \cup [holder : Runners, live : BOOLEAN],
           UNCHANGED <<log, runner, tier, plan, idx, approved>>,
           admitted' \in [Requests -> BOOLEAN],
           attempt' \in [Requests -> 0 .. Attempts - 1],
           ran' \in [Requests -> SUBSET Nat],
           NEW where \in {"new"} \cup Working \cup Appends \cup Ends,
           Go(p, where),
           \/ where \in Ends \cup {pc[p], "releaseDenied", "releaseFailed"}
           \/ pc[p] \in Starting /\ where \in Starting
           \/ pc[p] \in Resuming \cup Looping /\ where \in Resuming \cup Looping
           \/ pc[p] \in AllDone /\ where \in AllDone
    PROVE  Shape'
<1>1. TypeOK'
  BY DEF Shape, TypeOK, Go
<1>2. ASSUME NEW q \in Requests PROVE PhaseOK(q)'
  BY <1>2 DEF Shape, TypeOK, Go, PhaseOK, Starting, Resuming, Looping, AllDone, Ends
<1>3. QED BY <1>1, <1>2 DEF Shape

\* A step of the loop after an append: the request is at index n now.
LEMMA ShapeWrites ==
    ASSUME Shape, NEW p \in Requests, Write(p), pc[p] # "new",
           UNCHANGED <<lease, runner, tier, plan, approved, attempt, ran>>,
           NEW where \in {"new"} \cup Working \cup Appends \cup Ends,
           Go(p, where),
           idx' \in [Requests -> Nat], \A q \in Requests \ {p} : idx'[q] = idx[q],
           idx'[p] \in 1 .. Len(plan[p]) + 1,
           where \notin Starting,
           where \in Resuming \cup Looping => idx'[p] \in 1 .. Len(plan[p]),
           where \in AllDone => idx'[p] = Len(plan[p]) + 1
    PROVE  Shape'
<1>1. log' \in Seq(Entry) /\ \A i \in DOMAIN log' : log'[i] \in Entry
  <2>1. log' \in Seq(Entry)
    BY Writes
  <2>2. QED BY <2>1, LenProperties, ElementOfSeq
<1>2. admitted' \in [Requests -> BOOLEAN]
  BY DEF Write, Shape, TypeOK
<1>3. TypeOK'
  BY <1>1, <1>2 DEF Shape, TypeOK, Go
<1>4. ASSUME NEW q \in Requests PROVE PhaseOK(q)'
  BY <1>4 DEF Shape, TypeOK, Go, PhaseOK
<1>5. QED BY <1>1, <1>3, <1>4 DEF Shape

\* A claim that is made for the request itself.
LEMMA ShapeClaims ==
    ASSUME Shape, NEW p \in Requests, pc[p] # "new",
           NEW where \in Working \cup Appends, Claim(p, where),
           UNCHANGED <<log, runner, tier, plan, idx, approved, admitted, attempt, ran>>,
           \/ pc[p] \in Starting /\ where \in Starting
           \/ pc[p] \in Resuming \cup Looping /\ where \in Resuming \cup Looping
           \/ pc[p] \in AllDone /\ where \in AllDone
    PROVE  Shape'
<1>1. runner[p] \in Runners
  BY DEF Shape, PhaseOK
<1>2. lease' \in {Free} \cup [holder : Runners, live : BOOLEAN]
  <2>1. lease' = [holder |-> runner[p], live |-> TRUE] \/ lease' = lease
    BY Zenon DEF Claim, ClaimFor
  <2>2. [holder |-> runner[p], live |-> TRUE] \in [holder : Runners, live : BOOLEAN]
    BY <1>1
  <2>3. lease \in {Free} \cup [holder : Runners, live : BOOLEAN]
    BY DEF Shape, TypeOK
  <2>4. QED BY <2>1, <2>2, <2>3
<1>3. Go(p, where) \/ Go(p, "cut")
  BY DEF Claim, ClaimFor
<1>4. "cut" \in Ends
  BY DEF Ends
<1>5. /\ admitted' \in [Requests -> BOOLEAN]
      /\ attempt' \in [Requests -> 0 .. Attempts - 1]
      /\ ran' \in [Requests -> SUBSET Nat]
  BY DEF Shape, TypeOK
<1>6. CASE Go(p, where)
  BY <1>2, <1>5, <1>6, ShapeMoves
<1>7. CASE Go(p, "cut")
  BY <1>2, <1>4, <1>5, <1>7, ShapeMoves
<1>8. QED BY <1>3, <1>6, <1>7

LEMMA ShapeInit == Init => Shape
<1> SUFFICES ASSUME Init PROVE Shape
  OBVIOUS
<1>1. <<>> \in Seq(Entry) /\ \A i \in DOMAIN log : log[i] \in Entry
  BY EmptySeq DEF Init
<1>2. TypeOK
  BY <1>1, RunnerAssumption DEF Init, TypeOK, Working, Appends, Ends
<1>3. ASSUME NEW p \in Requests PROVE PhaseOK(p)
  BY <1>3 DEF Init, PhaseOK, Starting, Resuming, Looping, AllDone
<1>4. QED BY <1>1, <1>2, <1>3 DEF Init, Shape, StepIds

-----------------------------------------------------------------------------
(* The steps of one request *)

LEMMA ShapeAppends ==
    ASSUME Shape, NEW p \in Requests,
           \/ CallWritten(p) \/ ResultWritten(p) \/ RequestWritten(p) \/ DenialWritten(p)
           \/ OutcomeWritten(p) \/ PlanWritten(p) \/ ApprovalWritten(p) \/ DenyWritten(p)
    PROVE  Shape'
<1> DEFINE Places == {"new"} \cup Working \cup Appends \cup Ends
<1> USE AppendKinds
<1>1. /\ PhaseOK(p) /\ plan[p] \in Plans \cup {<<>>} /\ idx[p] \in Nat
      /\ idx[p] \in 1 .. Len(plan[p]) + 1 /\ Len(plan[p]) \in Nat
      /\ idx \in [Requests -> Nat]
  BY PlansAreSequences DEF Shape, TypeOK
<1>2. ASSUME UNCHANGED idx
      PROVE  /\ idx' \in [Requests -> Nat] /\ \A q \in Requests \ {p} : idx'[q] = idx[q]
             /\ idx'[p] \in 1 .. Len(plan[p]) + 1
  BY <1>1, <1>2
<1>3. ASSUME NEW i \in 1 .. Len(plan[p]) + 1, NEW skip, NEW t
      PROVE  /\ LoopAt(plan[p], i, skip, t) \in Places
             /\ LoopAt(plan[p], i, skip, t) \notin Starting
             /\ LoopAt(plan[p], i, skip, t) \in Resuming \cup Looping => i \in 1 .. Len(plan[p])
             /\ LoopAt(plan[p], i, skip, t) \in AllDone => i = Len(plan[p]) + 1
  <2>1. i \in Nat
    BY <1>1
  <2>2. \/ LoopAt(plan[p], i, skip, t) = "verifying" /\ i > Len(plan[p])
        \/ /\ i <= Len(plan[p])
           /\ LoopAt(plan[p], i, skip, t) \in {"appendCall", "appendRequest", "appendStatus"}
    BY <1>1, <2>1, LoopStands
  <2>3. QED BY <1>1, <2>1, <2>2 DEF Working, Starting, Resuming, Looping, AllDone
<1>4. CASE CallWritten(p)
  <2> USE <1>4 DEF CallWritten
  <2>1. idx[p] \in 1 .. Len(plan[p])
    BY <1>1 DEF PhaseOK, Looping
  <2>2. "dispatch" \in Places /\ "dispatch" \notin Starting \cup AllDone
    BY DEF Working, Starting, AllDone
  <2>3. QED BY <1>2, <2>1, <2>2, ShapeWrites
<1>5. CASE ResultWritten(p)
  <2> USE <1>5 DEF ResultWritten
  <2> DEFINE where == LoopAt(plan[p], idx[p] + 1, approved[p], tier[p])
  <2>1. idx[p] \in 1 .. Len(plan[p])
    BY <1>1 DEF PhaseOK, Looping
  <2>2. /\ idx' \in [Requests -> Nat] /\ \A q \in Requests \ {p} : idx'[q] = idx[q]
        /\ idx'[p] = idx[p] + 1 /\ idx[p] + 1 \in 1 .. Len(plan[p]) + 1
    BY <1>1, <2>1
  <2>3. /\ where \in Places /\ where \notin Starting
        /\ where \in Resuming \cup Looping => idx[p] + 1 \in 1 .. Len(plan[p])
        /\ where \in AllDone => idx[p] + 1 = Len(plan[p]) + 1
    BY <1>3, <2>2
  <2>4. Write(p) /\ Go(p, where) /\ UNCHANGED <<lease, runner, tier, plan, approved, attempt, ran>>
        /\ pc[p] # "new"
    OBVIOUS
  <2> HIDE <1>5 DEF ResultWritten, where
  <2>5. QED BY <2>2, <2>3, <2>4, ShapeWrites
<1>6. CASE RequestWritten(p)
  <2> USE <1>6 DEF RequestWritten
  <2>1. "paused" \in Places /\ "paused" \notin Starting \cup AllDone \cup Resuming \cup Looping
    BY DEF Ends, Starting, AllDone, Resuming, Looping
  <2>2. QED BY <1>2, <2>1, ShapeWrites
<1>7. CASE DenialWritten(p)
  <2> USE <1>7 DEF DenialWritten
  <2>1. /\ "releaseDenied" \in Places
        /\ "releaseDenied" \notin Starting \cup AllDone \cup Resuming \cup Looping
    BY DEF Working, Starting, AllDone, Resuming, Looping
  <2>2. QED BY <1>2, <2>1, ShapeWrites
<1>8. CASE OutcomeWritten(p)
  <2> USE <1>8 DEF OutcomeWritten
  <2>1. /\ "release" \in Places /\ "release" \notin Starting \cup Resuming \cup Looping
    BY DEF Working, Starting, Resuming, Looping
  <2>2. idx[p] = Len(plan[p]) + 1
    BY <1>1 DEF PhaseOK, AllDone
  <2>3. QED BY <1>2, <2>1, <2>2, ShapeWrites
<1>9. CASE PlanWritten(p)
  <2> USE <1>9 DEF PlanWritten
  <2> DEFINE where == LoopAt(plan[p], 1, "none", tier[p])
  <2>1. idx[p] = 1 /\ 1 \in 1 .. Len(plan[p]) + 1
    BY <1>1 DEF PhaseOK, Starting
  <2>2. /\ where \in Places /\ where \notin Starting
        /\ where \in Resuming \cup Looping => 1 \in 1 .. Len(plan[p])
        /\ where \in AllDone => 1 = Len(plan[p]) + 1
    BY <1>3, <2>1
  <2>3. Write(p) /\ Go(p, where)
        /\ UNCHANGED <<lease, runner, tier, plan, idx, approved, attempt, ran>> /\ pc[p] # "new"
    OBVIOUS
  <2> HIDE <1>9 DEF PlanWritten, where
  <2>4. QED BY <1>2, <2>1, <2>2, <2>3, ShapeWrites
<1>10. CASE ApprovalWritten(p)
  <2> USE <1>10 DEF ApprovalWritten
  <2> DEFINE where == LoopAt(plan[p], idx[p], approved[p], tier[p])
  <2>1. /\ where \in Places /\ where \notin Starting
        /\ where \in Resuming \cup Looping => idx[p] \in 1 .. Len(plan[p])
        /\ where \in AllDone => idx[p] = Len(plan[p]) + 1
    BY <1>1, <1>3
  <2>2. Write(p) /\ Go(p, where)
        /\ UNCHANGED <<lease, runner, tier, plan, idx, approved, attempt, ran>> /\ pc[p] # "new"
    OBVIOUS
  <2> HIDE <1>10 DEF ApprovalWritten, where
  <2>3. QED BY <1>2, <2>1, <2>2, ShapeWrites
<1>11. CASE DenyWritten(p)
  <2> USE <1>11 DEF DenyWritten
  <2>1. idx[p] \in 1 .. Len(plan[p])
    BY <1>1 DEF PhaseOK, Resuming
  <2>2. "appendStatus" \in Places /\ "appendStatus" \notin Starting \cup AllDone
    BY DEF Starting, AllDone
  <2>3. QED BY <1>2, <2>1, <2>2, ShapeWrites
<1>12. QED BY <1>4, <1>5, <1>6, <1>7, <1>8, <1>9, <1>10, <1>11

\* The steps that write nothing to the log.
LEMMA ShapeQuiet ==
    ASSUME Shape, NEW p \in Requests,
           \/ AppendGate(p) \/ AppendFails(p) \/ PlanThrows(p) \/ ExecuteReturns(p)
           \/ ExecuteThrows(p) \/ VerifyReturns(p) \/ VerifyThrows(p) \/ Released(p) \/ Crash(p)
    PROVE  Shape'
<1> DEFINE Places == {"new"} \cup Working \cup Appends \cup Ends
<1> USE AppendKinds
<1>1. /\ lease \in {Free} \cup [holder : Runners, live : BOOLEAN]
      /\ admitted \in [Requests -> BOOLEAN] /\ attempt \in [Requests -> 0 .. Attempts - 1]
      /\ ran \in [Requests -> SUBSET Nat] /\ pc \in [Requests -> Places]
      /\ idx \in [Requests -> Nat]
  BY DEF Shape, TypeOK
<1>2. /\ 0 \in 0 .. Attempts - 1
      /\ \A a \in 0 .. Attempts - 1 : a + 1 < Attempts => a + 1 \in 0 .. Attempts - 1
  BY RunnerAssumption
<1>3. CASE AppendGate(p)
  <2> USE <1>3 DEF AppendGate
  <2>1. pc[p] \in Places /\ pc[p] # "new" /\ "cut" \in Ends /\ Ends \subseteq Places
    BY <1>1 DEF Ends
  <2>2. admitted' \in [Requests -> BOOLEAN]
    BY <1>1, Zenon
  <2>3. Go(p, pc[p]) \/ Go(p, "cut")
    BY <1>1 DEF Go
  <2>4. QED BY <1>1, <2>1, <2>2, <2>3, ShapeMoves
<1>4. CASE AppendFails(p)
  <2> USE <1>4 DEF AppendFails
  <2>1. pc[p] # "new" /\ "cut" \in Ends /\ Ends \subseteq Places
    BY DEF Ends
  <2>2. admitted' \in [Requests -> BOOLEAN]
    BY <1>1
  <2>3. QED BY <1>1, <2>1, <2>2, ShapeMoves
<1>5. CASE PlanThrows(p)
  BY <1>1, <1>5, ShapeMoves DEF PlanThrows, Working
<1>6. CASE ExecuteReturns(p)
  <2> USE <1>6 DEF ExecuteReturns, Dispatched
  <2>1. attempt' \in [Requests -> 0 .. Attempts - 1] /\ ran' \in [Requests -> SUBSET Nat]
    BY <1>1, <1>2
  <2>2. pc[p] # "new" /\ pc[p] \in Looping /\ "appendResult" \in Looping \cap Places
    BY DEF Looping
  <2>3. QED BY <1>1, <2>1, <2>2, ShapeMoves
<1>7. CASE ExecuteThrows(p)
  <2> USE <1>7 DEF ExecuteThrows, Dispatched
  <2>1. ran' \in [Requests -> SUBSET Nat]
    BY <1>1
  <2>2. attempt' \in [Requests -> 0 .. Attempts - 1]
    BY <1>1, <1>2
  <2>3. pc[p] # "new" /\ pc[p] \in Looping /\ "appendResult" \in Looping \cap Places
        /\ pc[p] \in Places
    BY <1>1 DEF Looping
  <2>4. Go(p, pc[p]) \/ Go(p, "appendResult")
    BY <1>1 DEF Go
  <2>5. QED BY <1>1, <2>1, <2>2, <2>3, <2>4, ShapeMoves
<1>8. CASE VerifyReturns(p)
  <2>1. pc[p] # "new" /\ pc[p] \in AllDone /\ "reclaimVerify" \in AllDone \cap Places
    BY <1>8 DEF VerifyReturns, AllDone, Working
  <2>2. QED BY <1>1, <1>8, <2>1, ShapeMoves DEF VerifyReturns
<1>9. CASE VerifyThrows(p)
  BY <1>1, <1>9, ShapeMoves DEF VerifyThrows, Working
<1>10. CASE Released(p)
  <2> USE <1>10 DEF Released
  <2>1. pc[p] # "new" /\ EndOf[pc[p]] \in Ends /\ Ends \subseteq Places
    BY DEF EndOf, Ends
  <2>2. lease' \in {Free} \cup [holder : Runners, live : BOOLEAN]
    BY <1>1 DEF ReleaseLease
  <2>3. QED BY <1>1, <2>1, <2>2, ShapeMoves
<1>11. CASE Crash(p)
  <2>1. pc[p] # "new" /\ "cut" \in Ends /\ Ends \subseteq Places
    BY <1>11 DEF Crash, Live, Ends
  <2>2. QED BY <1>1, <1>11, <2>1, ShapeMoves DEF Crash
<1>12. QED BY <1>3, <1>4, <1>5, <1>6, <1>7, <1>8, <1>9, <1>10, <1>11

\* The steps a request starts with, and its claims.
LEMMA ShapeStarts ==
    ASSUME Shape, NEW p \in Requests,
           \/ DriveClaims(p) \/ PlanReturns(p) \/ ApproveReadsLog(p)
           \/ PlanReclaims(p) \/ VerifyReclaims(p) \/ ResumeClaims(p)
    PROVE  Shape'
<1> DEFINE Places == {"new"} \cup Working \cup Appends \cup Ends
<1> USE AppendKinds
<1>1. CASE PlanReclaims(p)
  <2>1. pc[p] # "new" /\ pc[p] \in Starting /\ "appendPlan" \in Starting \cap Appends
    BY <1>1 DEF PlanReclaims, Starting
  <2>2. QED BY <1>1, <2>1, ShapeClaims DEF PlanReclaims
<1>2. CASE VerifyReclaims(p)
  <2>1. pc[p] # "new" /\ pc[p] \in AllDone /\ "appendOutcome" \in AllDone \cap Appends
    BY <1>2 DEF VerifyReclaims, AllDone
  <2>2. QED BY <1>2, <2>1, ShapeClaims DEF VerifyReclaims
<1>3. CASE ResumeClaims(p)
  <2>1. PICK d \in {"appendApprove", "appendDeny"} : Claim(p, d)
    BY <1>3 DEF ResumeClaims
  <2>2. pc[p] # "new" /\ pc[p] \in Resuming /\ d \in Resuming \cap Appends
    BY <1>3 DEF ResumeClaims, Resuming
  <2>3. QED BY <1>3, <2>1, <2>2, ShapeClaims DEF ResumeClaims
<1>4. CASE DriveClaims(p)
  <2> USE <1>4 DEF DriveClaims
  <2>1. PICK r \in Runners : runner' = [runner EXCEPT ![p] = r] /\ ClaimFor(p, r, "planning")
    OBVIOUS
  <2>2. PICK t \in BodyTiers \cup {SessionTier} : tier' = [tier EXCEPT ![p] = t]
    OBVIOUS
  <2>3. t \in Tiers
    BY RunnerAssumption
  <2>4. PICK where \in {"planning", "cut"} : Go(p, where)
    BY <2>1 DEF ClaimFor
  <2>5. lease' \in {Free} \cup [holder : Runners, live : BOOLEAN]
    <3>1. lease' = [holder |-> r, live |-> TRUE] \/ lease' = lease
      BY <2>1, Zenon DEF ClaimFor
    <3>2. [holder |-> r, live |-> TRUE] \in [holder : Runners, live : BOOLEAN]
      OBVIOUS
    <3>3. lease \in {Free} \cup [holder : Runners, live : BOOLEAN]
      BY DEF Shape, TypeOK
    <3>4. QED BY <3>1, <3>2, <3>3
  <2>6. where \in Places
    BY DEF Working, Ends
  <2>7. TypeOK'
    BY <2>1, <2>2, <2>3, <2>4, <2>5, <2>6 DEF Shape, TypeOK, Go
  <2>8. ASSUME NEW q \in Requests PROVE PhaseOK(q)'
    BY <2>1, <2>4, <2>8
       DEF Shape, TypeOK, Go, PhaseOK, Starting, Resuming, Looping, AllDone
  <2>9. QED BY <2>7, <2>8 DEF Shape
<1>5. CASE PlanReturns(p)
  <2> USE <1>5 DEF PlanReturns
  <2>1. PICK s \in Plans : plan' = [plan EXCEPT ![p] = s]
    OBVIOUS
  <2>2. idx[p] = 1 /\ Len(s) \in Nat
    BY PlansAreSequences DEF Shape, PhaseOK, Starting
  <2>3. TypeOK'
    <3>1. \A q \in Requests : idx'[q] \in 1 .. Len(plan'[q]) + 1
      BY <2>1, <2>2 DEF Shape, TypeOK
    <3>2. QED BY <2>1, <3>1 DEF Shape, TypeOK, Go, Working
  <2>4. ASSUME NEW q \in Requests PROVE PhaseOK(q)'
    BY <2>1, <2>4
       DEF Shape, TypeOK, Go, PhaseOK, Starting, Resuming, Looping, AllDone
  <2>5. QED BY <2>3, <2>4 DEF Shape
<1>6. CASE ApproveReadsLog(p)
  <2> USE <1>6 DEF ApproveReadsLog
  <2>1. PICK r \in Runners : runner' = [runner EXCEPT ![p] = r]
    OBVIOUS
  <2>2. PICK i \in Events("plan") : \E k \in DOMAIN log[i].steps :
          LET id == log[i].steps[k].id IN
          IF MayResume(id)
          THEN /\ plan' = [plan EXCEPT ![p] = log[i].steps]
               /\ idx' = [idx EXCEPT ![p] = FirstIndex(log[i].steps, id)]
               /\ approved' = [approved EXCEPT ![p] = id]
               /\ Go(p, "resumeClaim")
          ELSE Go(p, "cut") /\ UNCHANGED <<plan, idx, approved>>
    OBVIOUS
  <2> DEFINE s == log[i].steps
  <2>3. PICK k \in DOMAIN s :
          \/ /\ plan' = [plan EXCEPT ![p] = s]
             /\ idx' = [idx EXCEPT ![p] = FirstIndex(s, s[k].id)]
             /\ approved' = [approved EXCEPT ![p] = s[k].id]
             /\ Go(p, "resumeClaim")
          \/ Go(p, "cut") /\ UNCHANGED <<plan, idx, approved>>
    BY <2>2
  <2>4. s \in Plans
    <3>1. s \in Plans \cup {<<>>}
      BY DEF Shape, TypeOK, Entry, Events
    <3>2. s # <<>>
      BY <2>3
    <3>3. QED BY <3>1, <3>2
  <2>5. /\ FirstIndex(s, s[k].id) \in 1 .. Len(s) /\ Len(s) \in Nat
        /\ s[k].id \in StepIds
    BY <2>4, FirstOne, PlansAreSequences DEF StepIds
  <2> HIDE DEF s
  <2>6. CASE /\ plan' = [plan EXCEPT ![p] = s]
             /\ idx' = [idx EXCEPT ![p] = FirstIndex(s, s[k].id)]
             /\ approved' = [approved EXCEPT ![p] = s[k].id]
             /\ Go(p, "resumeClaim")
    <3>1. \A q \in Requests : idx'[q] \in 1 .. Len(plan'[q]) + 1
      BY <2>5, <2>6 DEF Shape, TypeOK
    <3>2. TypeOK'
      BY <2>1, <2>4, <2>6, <3>1 DEF Shape, TypeOK, Go, Working
    <3>3. ASSUME NEW q \in Requests PROVE PhaseOK(q)'
      BY <2>1, <2>5, <2>6, <3>3
         DEF Shape, TypeOK, Go, PhaseOK, Starting, Resuming, Looping, AllDone
    <3>4. idx' \in [Requests -> Nat] /\ approved' \in [Requests -> StepIds]
      BY <2>5, <2>6 DEF Shape
    <3>5. QED BY <3>2, <3>3, <3>4 DEF Shape
  <2>7. CASE Go(p, "cut") /\ UNCHANGED <<plan, idx, approved>>
    <3>1. TypeOK'
      BY <2>1, <2>7 DEF Shape, TypeOK, Go, Ends
    <3>2. ASSUME NEW q \in Requests PROVE PhaseOK(q)'
      BY <2>1, <2>7, <3>2
         DEF Shape, TypeOK, Go, PhaseOK, Starting, Resuming, Looping, AllDone
    <3>3. QED BY <2>7, <3>1, <3>2 DEF Shape
  <2>8. QED BY <2>3, <2>6, <2>7
<1>7. QED BY <1>1, <1>2, <1>3, <1>4, <1>5, <1>6

LEMMA ShapeStep == Shape /\ [Next]_vars => Shape'
<1> SUFFICES ASSUME Shape, [Next]_vars PROVE Shape'
  OBVIOUS
<1>1. CASE UNCHANGED vars
  BY <1>1 DEF vars, Shape, TypeOK, PhaseOK
<1>2. CASE TermEnds \/ Halt
  <2>1. lease' \in {Free} \cup [holder : Runners, live : BOOLEAN]
    BY <1>2 DEF TermEnds, Halt, Shape, TypeOK
  <2>2. QED BY <1>2, <2>1 DEF TermEnds, Halt, Shape, TypeOK, PhaseOK
<1>3. ASSUME NEW p \in Requests, DriveClaims(p) \/ ApproveReadsLog(p) \/ Progress(p) \/ Crash(p)
      PROVE  Shape'
  BY <1>3, ShapeStarts, ShapeQuiet, ShapeAppends DEF Progress
<1>4. QED BY <1>1, <1>2, <1>3 DEF Next

LEMMA Shaped == Spec => []Shape
<1>1. QED BY ShapeInit, ShapeStep, PTL DEF Spec

\* Typing: the state has the shape its declarations give it, in particular no
\* request ever stands at an index outside its plan (runner.ts driveFrom).
THEOREM Typing == Spec => []TypeOK
<1>1. Shape => TypeOK
  BY DEF Shape
<1>2. QED BY <1>1, Shaped, PTL

-----------------------------------------------------------------------------
(* Leases *)

\* A request moves on, and the lease stays, or goes, or becomes its runner's.
LEMMA Accounts ==
    ASSUME Shape, LeaseIsAccountedFor, NEW p \in Requests,
           NEW where, where \notin {"new", "completed", "denied", "failed"}, Go(p, where),
           \A q \in Requests \ {p} : runner'[q] = runner[q],
           pc[p] = "new" \/ runner'[p] = runner[p],
           lease' # Free => lease' = lease \/ lease'.holder = runner'[p]
    PROVE  LeaseIsAccountedFor'
<1> SUFFICES ASSUME lease' # Free
             PROVE  \E q \in Requests :
                       /\ runner'[q] = lease'.holder
                       /\ Live(q)' \/ pc'[q] \in {"paused", "cut"}
  BY DEF LeaseIsAccountedFor
<1>1. pc'[p] = where /\ \A q \in Requests \ {p} : pc'[q] = pc[q]
  BY DEF Go, Shape, TypeOK
<1>2. Live(p)' \/ pc'[p] \in {"paused", "cut"}
  BY <1>1 DEF Live, Ends
<1>3. CASE lease' = lease
  <2>1. PICK q \in Requests : runner[q] = lease.holder /\ (Live(q) \/ pc[q] \in {"paused", "cut"})
    BY <1>3 DEF LeaseIsAccountedFor
  <2>2. pc[q] # "new"
    BY <2>1 DEF Live
  <2>3. runner'[q] = lease'.holder /\ (Live(q)' \/ pc'[q] \in {"paused", "cut"})
    BY <1>1, <1>2, <1>3, <2>1, <2>2 DEF Live
  <2>4. QED BY <2>3
<1>4. CASE lease'.holder = runner'[p]
  BY <1>2, <1>4
<1>5. QED BY <1>3, <1>4

LEMMA AccountsForClaims ==
    ASSUME Shape, LeaseIsAccountedFor, NEW p \in Requests,
           NEW where \in {"planning", "appendPlan", "appendOutcome", "appendApprove", "appendDeny"},
           ClaimFor(p, runner'[p], where),
           \A q \in Requests \ {p} : runner'[q] = runner[q],
           pc[p] = "new" \/ runner'[p] = runner[p]
    PROVE  LeaseIsAccountedFor'
<1>1. CASE lease' = [holder |-> runner'[p], live |-> TRUE] /\ Go(p, where)
  BY <1>1, Accounts
<1>2. CASE lease' = lease /\ Go(p, "cut")
  BY <1>2, Accounts
<1>3. QED BY <1>1, <1>2, Zenon DEF ClaimFor

LEMMA AccountStep == Shape /\ LeaseIsAccountedFor /\ [Next]_vars => LeaseIsAccountedFor'
<1> SUFFICES ASSUME Shape, LeaseIsAccountedFor, [Next]_vars PROVE LeaseIsAccountedFor'
  OBVIOUS
<1>1. CASE UNCHANGED vars
  BY <1>1 DEF vars, LeaseIsAccountedFor, Live
<1>2. CASE TermEnds
  <2>1. lease'.holder = lease.holder /\ UNCHANGED <<pc, runner>> /\ lease # Free
    BY <1>2 DEF TermEnds, Shape, TypeOK
  <2>2. QED BY <2>1 DEF LeaseIsAccountedFor, Live
<1>3. CASE Halt
  BY <1>3 DEF Halt, LeaseIsAccountedFor
<1>4. ASSUME NEW p \in Requests, DriveClaims(p) PROVE LeaseIsAccountedFor'
  <2>1. PICK r \in Runners : runner' = [runner EXCEPT ![p] = r] /\ ClaimFor(p, r, "planning")
    BY <1>4 DEF DriveClaims
  <2>2. runner'[p] = r /\ \A q \in Requests \ {p} : runner'[q] = runner[q]
    BY <2>1 DEF Shape, TypeOK
  <2>3. ClaimFor(p, runner'[p], "planning")
    BY <2>1, <2>2
  <2>4. QED BY <1>4, <2>2, <2>3, AccountsForClaims DEF DriveClaims
<1>5. ASSUME NEW p \in Requests, ApproveReadsLog(p) PROVE LeaseIsAccountedFor'
  <2>1. PICK r \in Runners : runner' = [runner EXCEPT ![p] = r]
    BY <1>5 DEF ApproveReadsLog
  <2>2. \A q \in Requests \ {p} : runner'[q] = runner[q]
    BY <2>1 DEF Shape, TypeOK
  <2>3. PICK where \in {"resumeClaim", "cut"} : Go(p, where)
    BY <1>5 DEF ApproveReadsLog
  <2>4. QED BY <1>5, <2>2, <2>3, Accounts DEF ApproveReadsLog
<1>6. ASSUME NEW p \in Requests, PlanReclaims(p) \/ VerifyReclaims(p) \/ ResumeClaims(p)
      PROVE  LeaseIsAccountedFor'
  <2>1. runner' = runner
    BY <1>6 DEF PlanReclaims, VerifyReclaims, ResumeClaims
  <2>2. PICK where \in {"appendPlan", "appendOutcome", "appendApprove", "appendDeny"} : Claim(p, where)
    BY <1>6 DEF PlanReclaims, VerifyReclaims, ResumeClaims
  <2>3. ClaimFor(p, runner'[p], where)
    BY <2>1, <2>2 DEF Claim
  <2>4. QED BY <2>1, <2>3, AccountsForClaims
<1>7. ASSUME NEW p \in Requests, Released(p) PROVE LeaseIsAccountedFor'
  <2>1. CASE lease' = Free
    BY <2>1 DEF LeaseIsAccountedFor
  <2>2. CASE lease' = lease /\ lease # Free /\ lease.holder # runner[p]
    <3>1. PICK q \in Requests : runner[q] = lease.holder /\ (Live(q) \/ pc[q] \in {"paused", "cut"})
      BY <2>2 DEF LeaseIsAccountedFor
    <3>2. q # p /\ pc'[q] = pc[q] /\ runner' = runner
      BY <1>7, <2>2, <3>1 DEF Released, Go, Shape, TypeOK
    <3>3. runner'[q] = lease'.holder /\ (Live(q)' \/ pc'[q] \in {"paused", "cut"})
      BY <2>2, <3>1, <3>2 DEF Live
    <3>4. QED BY <3>3 DEF LeaseIsAccountedFor
  <2>3. QED BY <1>7, <2>1, <2>2 DEF Released, ReleaseLease
<1>8. ASSUME NEW p \in Requests,
             \/ AppendGate(p) \/ AppendFails(p) \/ PlanReturns(p) \/ PlanThrows(p)
             \/ ExecuteReturns(p) \/ ExecuteThrows(p) \/ VerifyReturns(p) \/ VerifyThrows(p) \/ Crash(p)
             \/ CallWritten(p) \/ ResultWritten(p) \/ RequestWritten(p) \/ DenialWritten(p)
             \/ OutcomeWritten(p) \/ PlanWritten(p) \/ ApprovalWritten(p) \/ DenyWritten(p)
      PROVE  LeaseIsAccountedFor'
  <2> DEFINE Off == {"new", "completed", "denied", "failed"}
  <2>1. UNCHANGED <<lease, runner>>
    BY <1>8 DEF AppendGate, AppendFails, PlanReturns, PlanThrows, ExecuteReturns, ExecuteThrows,
         VerifyReturns, VerifyThrows, Crash, CallWritten, ResultWritten, RequestWritten,
         DenialWritten, OutcomeWritten, PlanWritten, ApprovalWritten, DenyWritten
  <2>2. ASSUME NEW i \in Nat, NEW skip, NEW t PROVE LoopAt(plan[p], i, skip, t) \notin Off
    <3>1. plan[p] \in Plans \cup {<<>>}
      BY DEF Shape, TypeOK
    <3>2. LoopAt(plan[p], i, skip, t)
             \in {"verifying", "appendCall", "appendRequest", "appendStatus"}
      BY <3>1, LoopStands
    <3>3. QED BY <3>2
  <2>3. idx[p] \in Nat
    BY DEF Shape
  <2>4. CASE AppendGate(p) \/ ExecuteThrows(p)
    <3>1. \/ pc[p] \notin Off /\ Go(p, pc[p])
          \/ Go(p, "cut")
          \/ Go(p, "appendResult")
      BY <2>4, AppendKinds DEF AppendGate, ExecuteThrows, Go, Shape, TypeOK
    <3>2. QED BY <2>1, <3>1, Accounts
  <2>5. CASE ResultWritten(p) \/ PlanWritten(p) \/ ApprovalWritten(p)
    <3>1. PICK i \in Nat, skip \in {"none", approved[p]} :
            Go(p, LoopAt(plan[p], i, skip, tier[p]))
      BY <2>3, <2>5 DEF ResultWritten, PlanWritten, ApprovalWritten
    <3> DEFINE where == LoopAt(plan[p], i, skip, tier[p])
    <3>2. where \notin Off /\ Go(p, where)
      BY <2>2, <3>1
    <3> HIDE DEF where
    <3>3. QED BY <2>1, <3>2, Accounts
  <2>6. CASE \/ AppendFails(p) \/ PlanReturns(p) \/ PlanThrows(p) \/ ExecuteReturns(p)
             \/ VerifyReturns(p) \/ VerifyThrows(p) \/ Crash(p) \/ CallWritten(p)
             \/ RequestWritten(p) \/ DenialWritten(p) \/ OutcomeWritten(p) \/ DenyWritten(p)
    <3>1. PICK where \in {"cut", "reclaimPlan", "releaseFailed", "appendResult", "reclaimVerify",
                          "dispatch", "paused", "releaseDenied", "release", "appendStatus"} :
            Go(p, where)
      BY <2>6 DEF AppendFails, PlanReturns, PlanThrows, ExecuteReturns, VerifyReturns, VerifyThrows,
           Crash, CallWritten, RequestWritten, DenialWritten, OutcomeWritten, DenyWritten
    <3>2. QED BY <2>1, <3>1, Accounts
  <2>7. QED BY <1>8, <2>4, <2>5, <2>6
<1>9. QED BY <1>1, <1>2, <1>3, <1>4, <1>5, <1>6, <1>7, <1>8 DEF Next, Progress

\* Accounting: no regular end of a request, a backend's throw included, leaves
\* the lease with a runner that is through with the session (runner.ts
\* runPlanVerify, driveFrom).
THEOREM Accounting == Spec => []LeaseIsAccountedFor
<1>1. Init => LeaseIsAccountedFor
  BY DEF Init, LeaseIsAccountedFor
<1>2. QED BY <1>1, AccountStep, Shaped, PTL DEF Spec

-----------------------------------------------------------------------------
(* What the log says of the requests that wrote it, and what it says when a *)
(* request is about to write.                                              *)

\* Until here a request may still change its plan, tier or approved step.
Fresh == {"new", "planning"}

\* The plan of p is among the first n entries; so are a result for each of its
\* steps before i; so is a request to approve its approved step; so is, behind
\* it, an approval of that step.
Planned(p, n) == \E j \in 1 .. n : log[j].kind = "plan" /\ log[j].steps = plan[p]

Done(p, i, n) ==
    \A k \in 1 .. i - 1 : \E j \in 1 .. n :
        log[j].kind = "tool_result" /\ log[j].at = k /\ plan[log[j].by] = plan[p]

Asked(p, n) ==
    \E k \in 1 .. n :
        /\ log[k].kind = "approval_request" /\ log[k].step = approved[p]
        /\ plan[log[k].by] = plan[p]

Consented(p, n) ==
    \E j \in 1 .. n :
        log[j].kind = "approve" /\ log[j].step = approved[p] /\ Asked(p, j - 1)

Says(p, i) == EvaluatePolicy(plan[p][i], tier[p])

EntryOK(i) ==
    /\ pc[log[i].by] \notin Fresh
    /\ Planned(log[i].by, i)
    /\ log[i].kind \in {"tool_call", "approval_request"} =>
          /\ log[i].at \in 1 .. Len(plan[log[i].by])
          /\ log[i].step = plan[log[i].by][log[i].at].id
    /\ log[i].kind = "approval_request" =>
          /\ Says(log[i].by, log[i].at) = "gate"
          /\ Done(log[i].by, log[i].at, i - 1)
    /\ log[i].kind = "tool_call" =>
          \/ Says(log[i].by, log[i].at) = "allow"
          \/ log[i].step = approved[log[i].by] /\ Consented(log[i].by, i - 1)
    /\ log[i].kind = "outcome" => Done(log[i].by, Len(plan[log[i].by]) + 1, i - 1)

RequestOK(p) ==
    /\ pc[p] \in Resuming \cup Looping \cup AllDone =>
          Planned(p, Len(log)) /\ Done(p, idx[p], Len(log))
    /\ pc[p] \in Resuming => Asked(p, Len(log))
    /\ pc[p] \in (Looping \ {"appendStatus"}) \cup AllDone /\ approved[p] # "none" =>
          Consented(p, Len(log))
    /\ pc[p] \in {"appendCall", "dispatch", "appendResult"} =>
          Says(p, idx[p]) = "allow" \/ plan[p][idx[p]].id = approved[p]
    /\ pc[p] = "appendRequest" => Says(p, idx[p]) = "gate"

LogInv ==
    /\ \A i \in 1 .. Len(log) : EntryOK(i)
    /\ \A p \in Requests : RequestOK(p)

\* No step takes anything back: the log keeps its entries, and a request that
\* is past its start keeps its plan, its tier and its approved step.
Grows ==
    /\ Len(log) \in Nat /\ Len(log') \in Nat /\ Len(log) <= Len(log')
    /\ \A i \in 1 .. Len(log) : log'[i] = log[i] /\ log[i].by \in Requests
    /\ \A q \in Requests : pc[q] \notin Fresh =>
          /\ pc'[q] \notin Fresh
          /\ plan'[q] = plan[q] /\ tier'[q] = tier[q] /\ approved'[q] = approved[q]

LEMMA KnownStays ==
    ASSUME Grows, LogInv, NEW p \in Requests,
           plan'[p] = plan[p], approved'[p] = approved[p],
           NEW i \in Nat, NEW n \in 0 .. Len(log)
    PROVE  /\ Planned(p, n) => Planned(p, n)'
           /\ Done(p, i, n) => Done(p, i, n)'
           /\ Asked(p, n) => Asked(p, n)'
           /\ Consented(p, n) => Consented(p, n)'
<1>1. \A k \in 1 .. n : k \in 1 .. Len(log) /\ k - 1 \in 0 .. Len(log) /\ log'[k] = log[k]
  BY DEF Grows
<1>2. \A k \in 1 .. n : plan'[log[k].by] = plan[log[k].by]
  BY <1>1 DEF Grows, LogInv, EntryOK
<1>3. ASSUME NEW m \in 0 .. n PROVE Asked(p, m) => Asked(p, m)'
  <2>1. \A k \in 1 .. m : k \in 1 .. n
    BY DEF Grows
  <2>2. QED BY <1>1, <1>2, <2>1 DEF Asked
<1>4. Planned(p, n) => Planned(p, n)'
  BY <1>1 DEF Planned
<1>5. Done(p, i, n) => Done(p, i, n)'
  BY <1>1, <1>2 DEF Done
<1>6. Consented(p, n) => Consented(p, n)'
  <2>1. \A j \in 1 .. n : j - 1 \in 0 .. n
    BY DEF Grows
  <2>2. \A j \in 1 .. n : Asked(p, j - 1) => Asked(p, j - 1)'
    BY <1>3, <2>1
  <2>3. QED BY <1>1, <2>2 DEF Consented
<1>7. n \in 0 .. n
  BY DEF Grows
<1>8. QED BY <1>3, <1>4, <1>5, <1>6, <1>7

LEMMA KnownSpreads ==
    ASSUME NEW p \in Requests, NEW i \in Nat, NEW n \in Nat, NEW m \in Nat, n <= m
    PROVE  /\ Planned(p, n)' => Planned(p, m)'
           /\ Done(p, i, n)' => Done(p, i, m)'
           /\ Asked(p, n)' => Asked(p, m)'
           /\ Consented(p, n)' => Consented(p, m)'
<1>1. 1 .. n \subseteq 1 .. m
  OBVIOUS
<1>2. QED BY <1>1 DEF Planned, Done, Asked, Consented

LEMMA EntriesStay ==
    ASSUME Grows, LogInv, NEW i \in 1 .. Len(log), plan[log[i].by] \in Plans \cup {<<>>}
    PROVE  EntryOK(i)'
<1> DEFINE b == log[i].by
<1>1. EntryOK(i) /\ b \in Requests /\ pc[b] \notin Fresh /\ log'[i] = log[i] /\ log'[i].by = b
  BY DEF LogInv, Grows, EntryOK
<1>2. /\ plan'[b] = plan[b] /\ tier'[b] = tier[b] /\ approved'[b] = approved[b]
      /\ pc'[b] \notin Fresh
  BY <1>1 DEF Grows
<1>3. i \in 0 .. Len(log) /\ i - 1 \in 0 .. Len(log) /\ Len(plan[b]) + 1 \in Nat
  BY PlansAreSequences DEF Grows
<1>4. Planned(b, i)'
  BY <1>1, <1>2, <1>3, KnownStays DEF EntryOK
<1>5. /\ log[i].kind = "approval_request" => Done(b, log[i].at, i - 1)'
      /\ log[i].kind = "outcome" => Done(b, Len(plan[b]) + 1, i - 1)'
  <2>1. log[i].kind = "approval_request" => log[i].at \in Nat
    BY <1>1 DEF EntryOK
  <2>2. QED BY <1>1, <1>2, <1>3, <2>1, KnownStays DEF EntryOK
<1>6. Consented(b, i - 1) => Consented(b, i - 1)'
  BY <1>1, <1>2, <1>3, KnownStays
<1>7. \A k : Says(b, k)' = Says(b, k)
  BY <1>1, <1>2 DEF Says
<1> HIDE DEF b
<1>8. QED BY <1>1, <1>2, <1>4, <1>5, <1>6, <1>7 DEF EntryOK, b

LEMMA AtLen ==
    ASSUME NEW p \in Requests, NEW i, NEW m, i = idx'[p], m = Len(log')
    PROVE  /\ Planned(p, m)' => Planned(p, Len(log))'
           /\ Done(p, i, m)' => Done(p, idx[p], Len(log))'
           /\ Asked(p, m)' => Asked(p, Len(log))'
           /\ Consented(p, m)' => Consented(p, Len(log))'
<1>1. Planned(p, m)' => Planned(p, Len(log))'
  BY DEF Planned
<1>2. Done(p, i, m)' => Done(p, idx[p], Len(log))'
  BY DEF Done
<1>3. Asked(p, m)' => Asked(p, Len(log))'
  BY DEF Asked
<1>4. Consented(p, m)' => Consented(p, Len(log))'
  BY DEF Consented
<1>5. QED BY <1>1, <1>2, <1>3, <1>4

LEMMA RequestStays ==
    ASSUME Shape, Grows, LogInv, NEW p \in Requests, pc'[p] = pc[p], idx'[p] = idx[p],
           plan'[p] = plan[p], tier'[p] = tier[p], approved'[p] = approved[p]
    PROVE  RequestOK(p)'
<1>1. RequestOK(p) /\ idx[p] \in Nat
      /\ Len(log) \in Nat /\ Len(log') \in Nat /\ Len(log) <= Len(log')
  BY DEF LogInv, Shape, Grows
<1>2. PICK i \in Nat, n \in Nat, m \in Nat :
        i = idx[p] /\ i = idx'[p] /\ n = Len(log) /\ m = Len(log') /\ n <= m
  BY <1>1
<1>3. n \in 0 .. Len(log)
  BY <1>2
<1>4. /\ Planned(p, n) => Planned(p, m)'
      /\ Done(p, i, n) => Done(p, i, m)'
      /\ Asked(p, n) => Asked(p, m)'
      /\ Consented(p, n) => Consented(p, m)'
  BY <1>2, <1>3, KnownStays, KnownSpreads
<1>5. /\ Planned(p, Len(log)) => Planned(p, n)
      /\ Done(p, idx[p], Len(log)) => Done(p, i, n)
      /\ Asked(p, Len(log)) => Asked(p, n)
      /\ Consented(p, Len(log)) => Consented(p, n)
  BY <1>2
<1>6. Says(p, idx[p])' = Says(p, idx[p])
  BY DEF Says
<1>7. QED BY <1>1, <1>2, <1>4, <1>5, <1>6, AtLen DEF RequestOK

\* Where a request goes without writing, and the places from where it never
\* writes again.
Halted == {"cut", "failed", "denied", "completed", "releaseFailed"}

Quiet(p) ==
    /\ UNCHANGED <<log, tier, plan, idx, approved>>
    /\ ran' = ran \/ (pc[p] = "dispatch" /\ Dispatched(p))
    /\ \E where \in {pc[p], "appendPlan", "appendApprove", "appendDeny", "appendResult",
                     "reclaimVerify", "appendOutcome"} \cup Halted :
          /\ Go(p, where)
          /\ where = "appendPlan" => pc[p] \in Starting
          /\ where \in {"appendApprove", "appendDeny"} => pc[p] \in Resuming
          /\ where = "appendResult" => pc[p] \in {"dispatch", "appendResult"}
          /\ where \in {"reclaimVerify", "appendOutcome"} => pc[p] \in AllDone

LEMMA QuietSteps ==
    ASSUME Shape, NEW p \in Requests,
           \/ AppendGate(p) \/ AppendFails(p) \/ PlanThrows(p) \/ ExecuteReturns(p)
           \/ ExecuteThrows(p) \/ VerifyReturns(p) \/ VerifyThrows(p) \/ Released(p) \/ Crash(p)
           \/ PlanReclaims(p) \/ VerifyReclaims(p) \/ ResumeClaims(p)
    PROVE  Quiet(p)
<1> USE DEF Quiet
<1>1. /\ Halted = {"cut", "failed", "denied", "completed", "releaseFailed"}
      /\ pc[p] = "appendPlan" => pc[p] \in Starting
      /\ pc[p] \in {"appendApprove", "appendDeny"} => pc[p] \in Resuming
      /\ pc[p] \in {"reclaimVerify", "appendOutcome"} => pc[p] \in AllDone
  BY DEF Halted, Starting, Resuming, AllDone
<1>2. CASE AppendGate(p)
  <2>1. Go(p, pc[p]) \/ Go(p, "cut")
    BY <1>2 DEF AppendGate, Go, Shape, TypeOK
  <2>2. QED BY <1>1, <1>2, <2>1 DEF AppendGate
<1>3. CASE AppendFails(p) \/ PlanThrows(p) \/ VerifyThrows(p) \/ Crash(p)
  BY <1>1, <1>3 DEF AppendFails, PlanThrows, VerifyThrows, Crash
<1>4. CASE ExecuteReturns(p)
  BY <1>1, <1>4 DEF ExecuteReturns
<1>5. CASE ExecuteThrows(p)
  <2>1. Go(p, pc[p]) \/ Go(p, "appendResult")
    BY <1>5 DEF ExecuteThrows, Go, Shape, TypeOK
  <2>2. QED BY <1>1, <1>5, <2>1 DEF ExecuteThrows
<1>6. CASE VerifyReturns(p)
  BY <1>1, <1>6 DEF VerifyReturns, AllDone
<1>7. CASE Released(p)
  <2>1. Go(p, "completed") \/ Go(p, "denied") \/ Go(p, "failed")
    BY <1>7 DEF Released, EndOf
  <2>2. QED BY <1>1, <1>7, <2>1 DEF Released
<1>8. CASE PlanReclaims(p) \/ VerifyReclaims(p) \/ ResumeClaims(p)
  <2>1. PICK where \in {"appendPlan", "appendOutcome", "appendApprove", "appendDeny", "cut"} :
          /\ Go(p, where)
          /\ where = "appendPlan" => pc[p] \in Starting
          /\ where \in {"appendApprove", "appendDeny"} => pc[p] \in Resuming
          /\ where = "appendOutcome" => pc[p] \in AllDone
    <3>1. ASSUME NEW w, Claim(p, w) PROVE Go(p, w) \/ Go(p, "cut")
      BY <3>1, Zenon DEF Claim, ClaimFor
    <3>2. CASE PlanReclaims(p)
      BY <3>1, <3>2 DEF PlanReclaims, Starting
    <3>3. CASE VerifyReclaims(p)
      BY <3>1, <3>3 DEF VerifyReclaims, AllDone
    <3>4. CASE ResumeClaims(p)
      BY <3>1, <3>4 DEF ResumeClaims, Resuming
    <3>5. QED BY <1>8, <3>2, <3>3, <3>4
  <2>2. UNCHANGED <<log, tier, plan, idx, approved, ran>>
    BY <1>8 DEF PlanReclaims, VerifyReclaims, ResumeClaims
  <2>3. QED BY <1>1, <2>1, <2>2
<1>9. QED BY <1>2, <1>3, <1>4, <1>5, <1>6, <1>7, <1>8

LEMMA LogIs ==
    ASSUME Shape
    PROVE  /\ Len(log) \in Nat /\ DOMAIN log = 1 .. Len(log)
           /\ \A i \in 1 .. Len(log) :
                 log[i] \in Entry /\ log[i].by \in Requests /\ log[i].at \in Nat
                 /\ log[i].steps \in Plans \cup {<<>>}
<1>1. log \in Seq(Entry)
  BY DEF Shape
<1>2. Len(log) \in Nat /\ DOMAIN log = 1 .. Len(log)
  BY <1>1, LenProperties
<1>3. \A i \in 1 .. Len(log) : log[i] \in Entry
  BY <1>1, ElementOfSeq
<1>4. \A e \in Entry : e.by \in Requests /\ e.at \in Nat /\ e.steps \in Plans \cup {<<>>}
  BY DEF Entry
<1>5. QED BY <1>2, <1>3, <1>4

LEMMA QuietGrows ==
    ASSUME Shape, NEW p \in Requests, Quiet(p)
    PROVE  Grows
<1>1. PICK where : Go(p, where) /\ (where \in Fresh => where = pc[p])
  BY DEF Quiet, Halted, Fresh
<1>2. \A q \in Requests : pc[q] \notin Fresh => pc'[q] \notin Fresh
  BY <1>1 DEF Go, Shape, TypeOK
<1>3. Len(log) \in Nat /\ \A i \in 1 .. Len(log) : log[i].by \in Requests
  BY LogIs
<1>4. QED BY <1>2, <1>3 DEF Grows, Quiet

LEMMA QuietKeeps ==
    ASSUME Shape, LogInv, NEW p \in Requests, Quiet(p)
    PROVE  LogInv'
<1>1. Grows /\ UNCHANGED <<log, tier, plan, idx, approved>>
  BY QuietGrows DEF Quiet
<1>2. ASSUME NEW i \in 1 .. Len(log') PROVE EntryOK(i)'
  <2>1. i \in 1 .. Len(log) /\ plan[log[i].by] \in Plans \cup {<<>>}
    BY <1>1 DEF Grows, Shape, TypeOK
  <2>2. QED BY <1>1, <2>1, EntriesStay
<1>3. PICK where \in {pc[p], "appendPlan", "appendApprove", "appendDeny", "appendResult",
                      "reclaimVerify", "appendOutcome"} \cup Halted :
          /\ Go(p, where)
          /\ where = "appendPlan" => pc[p] \in Starting
          /\ where \in {"appendApprove", "appendDeny"} => pc[p] \in Resuming
          /\ where = "appendResult" => pc[p] \in {"dispatch", "appendResult"}
          /\ where \in {"reclaimVerify", "appendOutcome"} => pc[p] \in AllDone
  BY DEF Quiet
<1>4. ASSUME NEW q \in Requests, q # p \/ where = pc[p] PROVE RequestOK(q)'
  <2>1. pc'[q] = pc[q]
    BY <1>3, <1>4 DEF Go, Shape, TypeOK
  <2>2. QED BY <1>1, <2>1, RequestStays
<1>5. ASSUME where # pc[p] PROVE RequestOK(p)'
  <2>1. pc'[p] = where
    BY <1>3 DEF Go, Shape, TypeOK
  <2>2. RequestOK(p)
    BY DEF LogInv
  <2>3. /\ Planned(p, Len(log))' = Planned(p, Len(log))
        /\ Done(p, idx[p], Len(log))' = Done(p, idx[p], Len(log))
        /\ Asked(p, Len(log))' = Asked(p, Len(log))
        /\ Consented(p, Len(log))' = Consented(p, Len(log))
        /\ Says(p, idx[p])' = Says(p, idx[p])
    BY <1>1 DEF Planned, Done, Asked, Consented, Says
  <2>4. /\ where \in Resuming => pc[p] \in Resuming
        /\ where \in Looping => where = "appendResult" /\ pc[p] \in {"dispatch", "appendResult"}
        /\ where \in AllDone => pc[p] \in AllDone
        /\ where # "appendRequest" /\ where # "appendCall" /\ where # "dispatch"
    BY <1>3, <1>5 DEF Halted, Resuming, Looping, AllDone
  <2>5. {"dispatch", "appendResult"} \subseteq Looping \ {"appendStatus"}
    BY DEF Looping
  <2>6. "appendResult" \notin Resuming \cup AllDone /\ Resuming \cap (Looping \cup AllDone) = {}
    BY DEF Resuming, AllDone, Looping
  <2>7. QED BY <1>1, <2>1, <2>2, <2>3, <2>4, <2>5, <2>6 DEF RequestOK
<1>6. \A q \in Requests : RequestOK(q)'
  BY <1>4, <1>5
<1>7. QED BY <1>2, <1>6 DEF LogInv

\* A request that has written nothing yet changes what only it has.
LEMMA StartKeeps ==
    ASSUME Shape, LogInv, NEW p \in Requests, pc[p] \in Fresh, log' = log,
           NEW where, Go(p, where),
           \A q \in Requests \ {p} : plan'[q] = plan[q] /\ tier'[q] = tier[q]
                                     /\ idx'[q] = idx[q] /\ approved'[q] = approved[q],
           RequestOK(p)'
    PROVE  LogInv'
<1>1. pc'[p] = where /\ \A q \in Requests \ {p} : pc'[q] = pc[q]
  BY DEF Go, Shape, TypeOK
<1>2. Grows
  BY <1>1, LogIs DEF Grows
<1>3. ASSUME NEW i \in 1 .. Len(log') PROVE EntryOK(i)'
  <2>1. i \in 1 .. Len(log) /\ plan[log[i].by] \in Plans \cup {<<>>}
    BY LogIs DEF Shape, TypeOK
  <2>2. QED BY <1>2, <2>1, EntriesStay
<1>4. \A q \in Requests \ {p} : RequestOK(q)'
  BY <1>1, <1>2, RequestStays
<1>5. QED BY <1>3, <1>4 DEF LogInv

LEMMA DriveKeeps ==
    ASSUME Shape, LogInv, NEW p \in Requests, DriveClaims(p) \/ PlanReturns(p)
    PROVE  LogInv'
<1>1. PICK where \in {"planning", "cut", "reclaimPlan"} : Go(p, where)
  <2>1. CASE PlanReturns(p)
    BY <2>1 DEF PlanReturns
  <2>2. CASE DriveClaims(p)
    BY <2>2, Zenon DEF DriveClaims, ClaimFor
  <2>3. QED BY <2>1, <2>2
<1>2. pc'[p] = where
  BY <1>1 DEF Go, Shape, TypeOK
<1>3. where \notin Resuming \cup Looping \cup AllDone
      /\ where \notin {"appendCall", "dispatch", "appendResult", "appendRequest"}
  BY DEF Resuming, Looping, AllDone
<1>4. RequestOK(p)'
  BY <1>2, <1>3 DEF RequestOK
<1>5. pc[p] \in Fresh /\ log' = log
  BY DEF Fresh, DriveClaims, PlanReturns
<1>6. \A q \in Requests \ {p} : plan'[q] = plan[q] /\ tier'[q] = tier[q]
                               /\ idx'[q] = idx[q] /\ approved'[q] = approved[q]
  <2>1. CASE PlanReturns(p)
    BY <2>1 DEF PlanReturns, Shape, TypeOK
  <2>2. CASE DriveClaims(p)
    BY <2>2 DEF DriveClaims, Shape, TypeOK
  <2>3. QED BY <2>1, <2>2
<1>7. QED BY <1>1, <1>4, <1>5, <1>6, StartKeeps

\* There is one plan, so the last request for an approval was made for a step
\* of it, with all the steps before it done.
LEMMA ResumeReads ==
    ASSUME Shape, LogInv, NEW i \in Events("plan"), NEW k \in DOMAIN log[i].steps,
           MayResume(log[i].steps[k].id)
    PROVE  \E r \in 1 .. Len(log) :
              /\ log[r].kind = "approval_request" /\ log[r].step = log[i].steps[k].id
              /\ plan[log[r].by] = log[i].steps
              /\ log[r].at \in 1 .. Len(log[i].steps)
              /\ log[i].steps[log[r].at].id = log[i].steps[k].id
              /\ \A n \in 1 .. log[r].at - 1 : \E j \in 1 .. Len(log) :
                    log[j].kind = "tool_result" /\ log[j].at = n
                    /\ plan[log[j].by] = log[i].steps
<1> DEFINE s == log[i].steps
<1>1. PICK r \in 1 .. Len(log) : log[r].kind = "approval_request" /\ log[r].step = s[k].id
  BY LogIs DEF MayResume, EventsFor, Events
<1>2. EntryOK(r)
  BY <1>1 DEF LogInv
<1>3. PICK j \in 1 .. r : log[j].kind = "plan" /\ log[j].steps = plan[log[r].by]
  BY <1>2 DEF EntryOK, Planned
<1>4. i = j
  <2>1. IsFiniteSet(Events("plan"))
    <3>1. Events("plan") \subseteq 1 .. Len(log) /\ Len(log) \in Int /\ 1 \in Int
      BY LogIs DEF Events
    <3>2. IsFiniteSet(1 .. Len(log))
      BY <3>1, FS_Interval
    <3>3. QED BY <3>1, <3>2, FS_Subset
  <2>2. Cardinality(Events("plan")) = 1
    BY DEF MayResume
  <2>3. \E x : Events("plan") = {x}
    BY <2>1, <2>2, FS_Singleton
  <2>4. j \in Events("plan")
    BY <1>3, LogIs DEF Events
  <2>5. QED BY <2>3, <2>4
<1>5. plan[log[r].by] = s
  BY <1>3, <1>4
<1>6. /\ log[r].at \in 1 .. Len(s) /\ s[log[r].at].id = s[k].id
      /\ Done(log[r].by, log[r].at, r - 1)
  BY <1>1, <1>2, <1>5 DEF EntryOK
<1>7. 1 .. r - 1 \subseteq 1 .. Len(log)
  BY LogIs
<1> HIDE DEF s
<1>8. \A n \in 1 .. log[r].at - 1 : \E m \in 1 .. Len(log) :
          log[m].kind = "tool_result" /\ log[m].at = n /\ plan[log[m].by] = s
  BY <1>5, <1>6, <1>7 DEF Done
<1>9. QED BY <1>1, <1>5, <1>6, <1>8 DEF s

LEMMA ApproveKeeps ==
    ASSUME Shape, LogInv, NEW p \in Requests, ApproveReadsLog(p)
    PROVE  LogInv'
<1>1. pc[p] \in Fresh /\ log' = log /\ tier' = tier
  BY DEF Fresh, ApproveReadsLog
<1>2. PICK i \in Events("plan") : \E k \in DOMAIN log[i].steps :
          LET id == log[i].steps[k].id IN
          IF MayResume(id)
          THEN /\ plan' = [plan EXCEPT ![p] = log[i].steps]
               /\ idx' = [idx EXCEPT ![p] = FirstIndex(log[i].steps, id)]
               /\ approved' = [approved EXCEPT ![p] = id]
               /\ Go(p, "resumeClaim")
          ELSE Go(p, "cut") /\ UNCHANGED <<plan, idx, approved>>
  BY DEF ApproveReadsLog
<1> DEFINE s == log[i].steps
<1>3. PICK k \in DOMAIN s :
          \/ /\ MayResume(s[k].id)
             /\ plan' = [plan EXCEPT ![p] = s]
             /\ idx' = [idx EXCEPT ![p] = FirstIndex(s, s[k].id)]
             /\ approved' = [approved EXCEPT ![p] = s[k].id]
             /\ Go(p, "resumeClaim")
          \/ Go(p, "cut") /\ UNCHANGED <<plan, idx, approved>>
  BY <1>2
<1>4. CASE Go(p, "cut") /\ UNCHANGED <<plan, idx, approved>>
  <2>1. pc'[p] = "cut"
    BY <1>4 DEF Go, Shape, TypeOK
  <2>2. RequestOK(p)'
    BY <2>1 DEF RequestOK, Resuming, Looping, AllDone
  <2>3. QED BY <1>1, <1>4, <2>2, StartKeeps
<1>5. CASE /\ MayResume(s[k].id)
           /\ plan' = [plan EXCEPT ![p] = s]
           /\ idx' = [idx EXCEPT ![p] = FirstIndex(s, s[k].id)]
           /\ approved' = [approved EXCEPT ![p] = s[k].id]
           /\ Go(p, "resumeClaim")
  <2>1. PICK r \in 1 .. Len(log) :
              /\ log[r].kind = "approval_request" /\ log[r].step = s[k].id
              /\ plan[log[r].by] = s
              /\ log[r].at \in 1 .. Len(s) /\ s[log[r].at].id = s[k].id
              /\ \A n \in 1 .. log[r].at - 1 : \E j \in 1 .. Len(log) :
                    log[j].kind = "tool_result" /\ log[j].at = n /\ plan[log[j].by] = s
    <3>1. MayResume(log[i].steps[k].id) /\ k \in DOMAIN log[i].steps
      BY <1>5
    <3>2. QED BY <3>1, ResumeReads
  <2>2. s \in Plans /\ DOMAIN s = 1 .. Len(s) /\ Len(s) \in Nat
    <3>1. s \in Plans \cup {<<>>}
      BY LogIs DEF Events
    <3>2. QED BY <1>3, <3>1, PlansAreSequences
  <2>3. /\ FirstIndex(s, s[k].id) \in 1 .. Len(s) /\ FirstIndex(s, s[k].id) <= log[r].at
    BY <2>1, <2>2, FirstOne
  <2>4. i \in 1 .. Len(log) /\ log[i].kind = "plan"
    BY LogIs DEF Events
  <2> HIDE DEF s
  <2>5. /\ plan'[p] = s /\ idx'[p] = FirstIndex(s, s[k].id) /\ approved'[p] = s[k].id
        /\ pc'[p] = "resumeClaim"
        /\ \A q \in Requests \ {p} : plan'[q] = plan[q] /\ tier'[q] = tier[q]
                                    /\ idx'[q] = idx[q] /\ approved'[q] = approved[q]
    BY <1>1, <1>5 DEF Shape, TypeOK, Go
  <2>6. \A j \in 1 .. Len(log) : plan'[log[j].by] = plan[log[j].by]
    BY <1>1, <2>5, LogIs DEF LogInv, EntryOK
  <2>7. Planned(p, Len(log))'
    BY <1>1, <2>4, <2>5 DEF Planned, s
  <2>8. Done(p, idx[p], Len(log))'
    <3>1. \A n \in 1 .. FirstIndex(s, s[k].id) - 1 : n \in 1 .. log[r].at - 1
      BY <2>1, <2>3
    <3>2. ASSUME NEW n \in 1 .. idx'[p] - 1
          PROVE  \E j \in 1 .. Len(log') :
                    log'[j].kind = "tool_result" /\ log'[j].at = n /\ plan'[log'[j].by] = plan'[p]
      <4>1. PICK j \in 1 .. Len(log) :
              log[j].kind = "tool_result" /\ log[j].at = n /\ plan[log[j].by] = s
        BY <2>1, <2>5, <3>1
      <4>2. QED BY <1>1, <2>5, <2>6, <4>1
    <3>3. QED BY <3>2 DEF Done
  <2>9. Asked(p, Len(log))'
    BY <1>1, <2>1, <2>5, <2>6 DEF Asked
  <2>10. RequestOK(p)'
    BY <2>5, <2>7, <2>8, <2>9 DEF RequestOK, Looping, AllDone
  <2>11. QED BY <1>1, <1>5, <2>5, <2>10, StartKeeps
<1>6. QED BY <1>3, <1>4, <1>5

\* One entry more, and the plan, tier and approved step of every request stay.
Records(p) ==
    /\ Write(p)
    /\ UNCHANGED <<tier, plan, approved>>
    /\ pc'[p] \notin Fresh
    /\ \A q \in Requests \ {p} : pc'[q] = pc[q] /\ idx'[q] = idx[q]

LEMMA RecordIs ==
    ASSUME Shape, NEW p \in Requests, Records(p)
    PROVE  \E n \in Nat :
              /\ n = Len(log) /\ Len(log') = n + 1
              /\ \A i \in 1 .. n : log'[i] = log[i]
              /\ log'[n + 1].kind = EventOf[pc[p]] /\ log'[n + 1].by = p
              /\ log'[n + 1].at = idx[p] /\ log'[n + 1].step = StepId(p)
              /\ pc[p] = "appendPlan" => log'[n + 1].steps = plan[p]
BY Writes DEF Records

LEMMA RecordGrows ==
    ASSUME Shape, NEW p \in Requests, Records(p)
    PROVE  Grows
<1>1. PICK n \in Nat : n = Len(log) /\ Len(log') = n + 1 /\ \A i \in 1 .. n : log'[i] = log[i]
  BY RecordIs
<1>2. \A q \in Requests : pc[q] \notin Fresh => pc'[q] \notin Fresh
  BY DEF Records
<1>3. QED BY <1>1, <1>2, LogIs DEF Grows, Records

\* What p knows before its append, it knows of the longer log as well.
LEMMA RecordKnows ==
    ASSUME Shape, LogInv, NEW p \in Requests, Records(p), NEW i, NEW n, i = idx[p], n = Len(log)
    PROVE  /\ pc[p] \in Resuming \cup Looping \cup AllDone =>
                 /\ Planned(p, n)' /\ Planned(p, n + 1)'
                 /\ Done(p, i, n)' /\ Done(p, i, n + 1)'
           /\ pc[p] \in Resuming => Asked(p, n)'
           /\ pc[p] \in (Looping \ {"appendStatus"}) \cup AllDone /\ approved[p] # "none" =>
                 Consented(p, n)' /\ Consented(p, n + 1)'
<1>1. Grows /\ plan'[p] = plan[p] /\ approved'[p] = approved[p]
  BY RecordGrows DEF Records
<1>2. i \in Nat /\ n \in Nat /\ n + 1 \in Nat /\ n <= n + 1 /\ n \in 0 .. Len(log)
  BY LogIs DEF Shape
<1>3. /\ Planned(p, n) => Planned(p, n)'
      /\ Done(p, i, n) => Done(p, i, n)'
      /\ Asked(p, n) => Asked(p, n)'
      /\ Consented(p, n) => Consented(p, n)'
  BY <1>1, <1>2, KnownStays
<1>4. /\ Planned(p, n)' => Planned(p, n + 1)'
      /\ Done(p, i, n)' => Done(p, i, n + 1)'
      /\ Consented(p, n)' => Consented(p, n + 1)'
  BY <1>2, KnownSpreads
<1>5. RequestOK(p)
  BY DEF LogInv
<1>6. QED BY <1>3, <1>4, <1>5 DEF RequestOK

LEMMA NewEntryOK ==
    ASSUME Shape, LogInv, NEW p \in Requests, Records(p), NEW n, n = Len(log)
    PROVE  EntryOK(n + 1)'
<1> USE AppendKinds
<1>1. PICK i : i = idx[p]
  OBVIOUS
<1>2. /\ n \in Nat /\ Len(log') = n + 1 /\ (n + 1) - 1 = n /\ n + 1 \in 1 .. n + 1
      /\ log'[n + 1].kind = EventOf[pc[p]] /\ log'[n + 1].by = p
      /\ log'[n + 1].at = i /\ log'[n + 1].step = StepId(p)
      /\ pc[p] = "appendPlan" => log'[n + 1].steps = plan[p]
  BY <1>1, RecordIs
<1>3. /\ plan'[p] = plan[p] /\ tier'[p] = tier[p] /\ approved'[p] = approved[p]
      /\ pc'[p] \notin Fresh /\ pc[p] \in Appends
  BY DEF Records, Write
<1>4. /\ PhaseOK(p) /\ RequestOK(p) /\ plan[p] \in Plans \cup {<<>>}
      /\ Len(plan[p]) \in Nat /\ DOMAIN plan[p] = 1 .. Len(plan[p])
      /\ \A k \in 1 .. Len(plan[p]) : plan[p][k].id # "none"
  BY PlansAreSequences DEF Shape, LogInv, TypeOK
<1>5. /\ pc[p] \in Resuming \cup Looping \cup AllDone => Planned(p, n + 1)' /\ Done(p, i, n)'
      /\ pc[p] \in (Looping \ {"appendStatus"}) \cup AllDone /\ approved[p] # "none" =>
            Consented(p, n)'
  BY <1>1, RecordKnows
<1>6. Planned(p, n + 1)'
  <2>1. CASE pc[p] = "appendPlan"
    BY <1>2, <1>3, <2>1 DEF Planned
  <2>2. CASE pc[p] # "appendPlan"
    <3>1. pc[p] \in Resuming \cup Looping \cup AllDone
      BY <1>3, <2>2 DEF Resuming, Looping, AllDone
    <3>2. QED BY <1>5, <3>1
  <2>3. QED BY <2>1, <2>2
<1>7. ASSUME pc[p] \in {"appendCall", "appendRequest"}
      PROVE  /\ i \in 1 .. Len(plan[p]) /\ StepId(p) = plan[p][i].id /\ Done(p, i, n)'
             /\ pc[p] \in Looping \ {"appendStatus"}
  <2>1. pc[p] \in Looping \ {"appendStatus"}
    BY <1>7 DEF Looping
  <2>2. i \in 1 .. Len(plan[p])
    BY <1>1, <1>4, <2>1 DEF PhaseOK
  <2>3. QED BY <1>1, <1>4, <1>5, <1>7, <2>1, <2>2 DEF StepId
<1>8. /\ log'[n + 1].kind \in {"tool_call", "approval_request"} =>
            pc[p] \in {"appendCall", "appendRequest"}
      /\ log'[n + 1].kind = "approval_request" => pc[p] = "appendRequest"
      /\ log'[n + 1].kind = "tool_call" => pc[p] = "appendCall"
      /\ log'[n + 1].kind = "outcome" => pc[p] = "appendOutcome"
  BY <1>2, <1>3
<1>9. pc[p] = "appendRequest" => Says(p, i)' = "gate"
  BY <1>1, <1>3, <1>4 DEF RequestOK, Says
<1>10. pc[p] = "appendCall" =>
          Says(p, i)' = "allow" \/ (plan[p][i].id = approved[p] /\ Consented(p, n)')
  <2>1. Says(p, i)' = Says(p, i)
    BY <1>3 DEF Says
  <2>2. ASSUME pc[p] = "appendCall" PROVE Says(p, i) = "allow" \/ plan[p][i].id = approved[p]
    BY <1>1, <1>4, <2>2 DEF RequestOK
  <2>3. QED BY <1>4, <1>5, <1>7, <2>1, <2>2
<1>11. pc[p] = "appendOutcome" => i = Len(plan[p]) + 1 /\ Done(p, i, n)'
  BY <1>1, <1>4, <1>5 DEF PhaseOK, AllDone
<1>12. pc[p] = "appendOutcome" => Done(p, Len(plan[p]) + 1, n)'
  BY <1>3, <1>11 DEF Done
<1>13. Planned(log[n + 1].by, n + 1)'
  BY <1>2, <1>6 DEF Planned
<1>14. log'[n + 1].kind = "approval_request" =>
          Says(log[n + 1].by, log[n + 1].at)' = "gate" /\ Done(log[n + 1].by, log[n + 1].at, (n + 1) - 1)'
  <2>1. Says(log[n + 1].by, log[n + 1].at)' = Says(p, i)'
    BY <1>2 DEF Says
  <2>2. Done(p, i, n)' => Done(log[n + 1].by, log[n + 1].at, (n + 1) - 1)'
    BY <1>2 DEF Done
  <2>3. QED BY <1>7, <1>8, <1>9, <2>1, <2>2
<1>15. log'[n + 1].kind = "tool_call" =>
          \/ Says(log[n + 1].by, log[n + 1].at)' = "allow"
          \/ log'[n + 1].step = approved'[log'[n + 1].by] /\ Consented(log[n + 1].by, (n + 1) - 1)'
  <2>1. Says(log[n + 1].by, log[n + 1].at)' = Says(p, i)'
    BY <1>2 DEF Says
  <2>2. Consented(p, n)' => Consented(log[n + 1].by, (n + 1) - 1)'
    BY <1>2 DEF Consented, Asked
  <2>3. QED BY <1>2, <1>3, <1>7, <1>8, <1>10, <2>1, <2>2
<1>16. log'[n + 1].kind = "outcome" =>
          Done(log[n + 1].by, Len(plan[log[n + 1].by]) + 1, (n + 1) - 1)'
  <2>1. Done(p, Len(plan[p]) + 1, n)' =>
          Done(log[n + 1].by, Len(plan[log[n + 1].by]) + 1, (n + 1) - 1)'
    BY <1>2 DEF Done
  <2>2. QED BY <1>8, <1>12, <2>1
<1>17. log'[n + 1].kind \in {"tool_call", "approval_request"} =>
          /\ log'[n + 1].at \in 1 .. Len(plan'[log'[n + 1].by])
          /\ log'[n + 1].step = plan'[log'[n + 1].by][log'[n + 1].at].id
  BY <1>2, <1>3, <1>7, <1>8
<1>18. pc'[log'[n + 1].by] \notin Fresh
  BY <1>2, <1>3
<1>19. QED BY <1>13, <1>14, <1>15, <1>16, <1>17, <1>18 DEF EntryOK

LEMMA RecordKeeps ==
    ASSUME Shape, LogInv, NEW p \in Requests, Records(p), RequestOK(p)'
    PROVE  LogInv'
<1>1. PICK n \in Nat : n = Len(log) /\ Len(log') = n + 1
  BY RecordIs
<1>2. Grows
  BY RecordGrows
<1>3. ASSUME NEW i \in 1 .. Len(log') PROVE EntryOK(i)'
  <2>1. CASE i = n + 1
    BY <1>1, <2>1, NewEntryOK
  <2>2. CASE i # n + 1
    <3>1. i \in 1 .. Len(log) /\ plan[log[i].by] \in Plans \cup {<<>>}
      BY <1>1, <2>2, LogIs DEF Shape, TypeOK
    <3>2. QED BY <1>2, <3>1, EntriesStay
  <2>3. QED BY <2>1, <2>2
<1>4. ASSUME NEW q \in Requests \ {p} PROVE RequestOK(q)'
  BY <1>2, RequestStays DEF Records
<1>5. QED BY <1>3, <1>4 DEF LogInv

\* What the loop does at index i agrees with what the policy says there.
LEMMA LoopOK ==
    ASSUME Shape, NEW p \in Requests, NEW i \in Nat,
           pc'[p] = LoopAt(plan[p], i, approved[p], tier[p]), idx'[p] = i,
           UNCHANGED <<tier, plan, approved>>,
           Planned(p, Len(log))', Done(p, idx[p], Len(log))',
           approved[p] # "none" => Consented(p, Len(log))'
    PROVE  RequestOK(p)'
<1> DEFINE where == LoopAt(plan[p], i, approved[p], tier[p])
<1>1. plan[p] \in Plans \cup {<<>>}
  BY DEF Shape, TypeOK
<1>2. where \in {"verifying", "appendCall", "appendRequest", "appendStatus"}
  BY <1>1, LoopStands
<1>3. /\ where = "appendCall" =>
            plan[p][i].id = approved[p] \/ EvaluatePolicy(plan[p][i], tier[p]) = "allow"
      /\ where = "appendRequest" => EvaluatePolicy(plan[p][i], tier[p]) = "gate"
  BY <1>1, LoopStands
<1> HIDE DEF where
<1>4. pc'[p] = where /\ pc'[p] \notin Resuming
  BY <1>2 DEF where, Resuming
<1>5. /\ pc'[p] = "appendCall" => Says(p, idx[p])' = "allow" \/ plan'[p][idx'[p]].id = approved'[p]
      /\ pc'[p] = "appendRequest" => Says(p, idx[p])' = "gate"
      /\ pc'[p] \notin {"dispatch", "appendResult"}
  BY <1>2, <1>3, <1>4 DEF Says
<1>6. QED BY <1>4, <1>5 DEF RequestOK

\* A result closes the step before the one the loop goes on to.
LEMMA ResultKeeps ==
    ASSUME Shape, LogInv, NEW p \in Requests, ResultWritten(p)
    PROVE  LogInv'
<1> USE AppendKinds
<1>1. PICK i \in Nat, n \in Nat : i = idx[p] /\ n = Len(log)
  BY LogIs DEF Shape
<1>2. /\ pc'[p] = LoopAt(plan[p], i + 1, approved[p], tier[p]) /\ idx'[p] = i + 1
      /\ \A q \in Requests \ {p} : pc'[q] = pc[q] /\ idx'[q] = idx[q]
      /\ pc[p] = "appendResult"
  BY <1>1 DEF ResultWritten, Go, Shape, TypeOK
<1>3. Records(p)
  <2>1. plan[p] \in Plans \cup {<<>>}
    BY DEF Shape, TypeOK
  <2>2. pc'[p] \notin Fresh
    BY <1>2, <2>1, LoopStands DEF Fresh
  <2>3. QED BY <1>2, <2>2 DEF Records, ResultWritten
<1>4. /\ Len(log') = n + 1 /\ log'[n + 1].kind = "tool_result" /\ log'[n + 1].by = p
      /\ log'[n + 1].at = i
  BY <1>1, <1>2, <1>3, RecordIs
<1>5. /\ Planned(p, n + 1)' /\ Done(p, i, n + 1)'
      /\ approved[p] # "none" => Consented(p, n + 1)'
  <2>1. pc[p] \in Looping \ {"appendStatus"}
    BY <1>2 DEF Looping
  <2>2. QED BY <1>1, <1>3, <2>1, RecordKnows
<1>6. Done(p, i + 1, n + 1)'
  <2>1. ASSUME NEW k \in 1 .. (i + 1) - 1
        PROVE  \E j \in 1 .. n + 1 :
                  log'[j].kind = "tool_result" /\ log'[j].at = k /\ plan'[log'[j].by] = plan'[p]
    <3>1. CASE k = i
      BY <1>4, <3>1
    <3>2. CASE k # i
      <4>1. k \in 1 .. i - 1
        BY <2>1, <3>2
      <4>2. QED BY <1>5, <4>1 DEF Done
    <3>3. QED BY <3>1, <3>2
  <2>2. QED BY <2>1 DEF Done
<1>7. PICK m \in Nat, k \in Nat : m = Len(log') /\ m = n + 1 /\ k = i + 1 /\ k = idx'[p]
  BY <1>2, <1>4
<1>8. Planned(p, m)' /\ Done(p, k, m)' /\ (approved[p] # "none" => Consented(p, m)')
  BY <1>5, <1>6, <1>7
<1>9. /\ Planned(p, Len(log))' /\ Done(p, idx[p], Len(log))'
      /\ approved[p] # "none" => Consented(p, Len(log))'
  BY <1>7, <1>8, AtLen
<1>10. pc'[p] = LoopAt(plan[p], k, approved[p], tier[p])
  BY <1>2, <1>7
<1>11. RequestOK(p)'
  BY <1>7, <1>9, <1>10, LoopOK DEF ResultWritten
<1>12. QED BY <1>3, <1>11, RecordKeeps

LEMMA LoopWritesKeep ==
    ASSUME Shape, LogInv, NEW p \in Requests, PlanWritten(p) \/ ApprovalWritten(p)
    PROVE  LogInv'
<1> USE AppendKinds
<1>1. PICK i \in Nat, n \in Nat : i = idx[p] /\ n = Len(log)
  BY LogIs DEF Shape
<1>2. /\ pc'[p] = LoopAt(plan[p], i, approved[p], tier[p]) /\ idx' = idx
      /\ UNCHANGED <<tier, plan, approved>>
      /\ \A q \in Requests \ {p} : pc'[q] = pc[q]
      /\ pc[p] \in {"appendPlan", "appendApprove"}
  <2>1. CASE PlanWritten(p)
    <3>1. i = 1 /\ approved[p] = "none"
      BY <1>1, <2>1 DEF PlanWritten, Shape, PhaseOK, Starting
    <3>2. QED BY <2>1, <3>1 DEF PlanWritten, Go, Shape, TypeOK
  <2>2. CASE ApprovalWritten(p)
    BY <1>1, <2>2 DEF ApprovalWritten, Go, Shape, TypeOK
  <2>3. QED BY <2>1, <2>2
<1>3. Records(p)
  <2>1. plan[p] \in Plans \cup {<<>>}
    BY DEF Shape, TypeOK
  <2>2. pc'[p] \notin Fresh
    BY <1>2, <2>1, LoopStands DEF Fresh
  <2>3. QED BY <1>2, <2>2 DEF Records, PlanWritten, ApprovalWritten
<1>4. /\ Len(log') = n + 1 /\ log'[n + 1].kind = EventOf[pc[p]]
      /\ log'[n + 1].step = StepId(p)
      /\ pc[p] = "appendPlan" => log'[n + 1].steps = plan[p]
      /\ n + 1 \in 1 .. n + 1 /\ (n + 1) - 1 = n
  BY <1>1, <1>3, RecordIs
<1>5. /\ Planned(p, n + 1)' /\ Done(p, i, n + 1)'
      /\ approved[p] # "none" => Consented(p, n + 1)'
  <2>1. CASE pc[p] = "appendPlan"
    <3>1. i = 1 /\ approved[p] = "none"
      BY <1>1, <2>1 DEF Shape, PhaseOK, Starting
    <3>2. Planned(p, n + 1)'
      BY <1>2, <1>4, <2>1 DEF Planned
    <3>3. Done(p, i, n + 1)'
      BY <3>1 DEF Done
    <3>4. QED BY <3>1, <3>2, <3>3
  <2>2. CASE pc[p] = "appendApprove"
    <3>1. pc[p] \in Resuming
      BY <2>2 DEF Resuming
    <3>2. Planned(p, n + 1)' /\ Done(p, i, n + 1)' /\ Asked(p, n)'
      BY <1>1, <1>3, <3>1, RecordKnows
    <3>3. log'[n + 1].kind = "approve" /\ log'[n + 1].step = approved'[p]
      BY <1>2, <1>4, <2>2 DEF StepId
    <3>4. Asked(p, (n + 1) - 1)'
      BY <1>4, <3>2
    <3>5. Consented(p, n + 1)'
      BY <1>4, <3>3, <3>4 DEF Consented
    <3>6. QED BY <3>2, <3>5
  <2>3. QED BY <1>2, <2>1, <2>2
<1>6. PICK m \in Nat : m = Len(log') /\ m = n + 1
  BY <1>4
<1>7. i = idx'[p] /\ Planned(p, m)' /\ Done(p, i, m)' /\ (approved[p] # "none" => Consented(p, m)')
  BY <1>1, <1>2, <1>5, <1>6
<1>8. /\ Planned(p, Len(log))' /\ Done(p, idx[p], Len(log))'
      /\ approved[p] # "none" => Consented(p, Len(log))'
  BY <1>6, <1>7, AtLen
<1>9. RequestOK(p)'
  BY <1>2, <1>7, <1>8, LoopOK
<1>10. QED BY <1>3, <1>9, RecordKeeps

LEMMA PlainWritesKeep ==
    ASSUME Shape, LogInv, NEW p \in Requests,
           \/ CallWritten(p) \/ RequestWritten(p) \/ DenialWritten(p)
           \/ OutcomeWritten(p) \/ DenyWritten(p)
    PROVE  LogInv'
<1> USE AppendKinds
<1>1. PICK i \in Nat, n \in Nat : i = idx[p] /\ n = Len(log)
  BY LogIs DEF Shape
<1>2. PICK where \in {"dispatch", "paused", "releaseDenied", "release", "appendStatus"} :
        /\ Go(p, where) /\ Write(p)
        /\ UNCHANGED <<tier, plan, idx, approved>>
        /\ where = "dispatch" => pc[p] = "appendCall"
        /\ where = "release" => pc[p] = "appendOutcome"
        /\ where = "appendStatus" => pc[p] = "appendDeny"
  BY DEF CallWritten, RequestWritten, DenialWritten, OutcomeWritten, DenyWritten
<1>3. pc'[p] = where /\ \A q \in Requests \ {p} : pc'[q] = pc[q]
  BY <1>2 DEF Go, Shape, TypeOK
<1>4. Records(p)
  BY <1>2, <1>3 DEF Records, Fresh
<1>5. PICK m \in Nat : m = Len(log') /\ m = n + 1
  BY <1>1, <1>4, RecordIs
<1>6. /\ pc[p] \in Resuming \cup Looping \cup AllDone => Planned(p, m)' /\ Done(p, i, m)'
      /\ pc[p] \in (Looping \ {"appendStatus"}) \cup AllDone /\ approved[p] # "none" =>
            Consented(p, m)'
  BY <1>1, <1>4, <1>5, RecordKnows
<1>7. /\ Planned(p, m)' => Planned(p, Len(log))'
      /\ Done(p, i, m)' => Done(p, idx[p], Len(log))'
      /\ Consented(p, m)' => Consented(p, Len(log))'
  BY <1>1, <1>2, <1>5, AtLen
<1>8. RequestOK(p) /\ Says(p, idx[p])' = Says(p, idx[p])
  BY <1>2 DEF LogInv, Says
<1>9. RequestOK(p)'
  <2>1. CASE where \in {"paused", "releaseDenied"}
    BY <1>3, <2>1 DEF RequestOK, Resuming, Looping, AllDone
  <2>2. CASE where = "dispatch"
    <3>1. pc[p] = "appendCall" /\ pc[p] \in Looping \ {"appendStatus"}
      BY <1>2, <2>2 DEF Looping
    <3>2. pc'[p] = "dispatch" /\ "dispatch" \notin Resuming
      BY <1>3, <2>2 DEF Resuming
    <3>3. QED BY <1>2, <1>6, <1>7, <1>8, <3>1, <3>2 DEF RequestOK
  <2>3. CASE where = "release"
    <3>1. pc[p] \in AllDone
      BY <1>2, <2>3 DEF AllDone
    <3>2. pc'[p] = "release" /\ "release" \notin Resuming
      BY <1>3, <2>3 DEF Resuming
    <3>3. QED BY <1>2, <1>6, <1>7, <3>1, <3>2 DEF RequestOK
  <2>4. CASE where = "appendStatus"
    <3>1. pc[p] \in Resuming
      BY <1>2, <2>4 DEF Resuming
    <3>2. pc'[p] = "appendStatus" /\ "appendStatus" \notin Resuming \cup AllDone
      BY <1>3, <2>4 DEF Resuming, AllDone
    <3>3. QED BY <1>6, <1>7, <3>1, <3>2 DEF RequestOK
  <2>5. QED BY <2>1, <2>2, <2>3, <2>4
<1>10. QED BY <1>4, <1>9, RecordKeeps

LEMMA LogInit == Init => LogInv
<1> SUFFICES ASSUME Init PROVE LogInv
  OBVIOUS
<1>1. Len(log) = 0
  BY DEF Init
<1>2. ASSUME NEW p \in Requests PROVE RequestOK(p)
  BY <1>2 DEF Init, RequestOK, Resuming, Looping, AllDone
<1>3. QED BY <1>1, <1>2 DEF LogInv

LEMMA LogStep == Shape /\ LogInv /\ [Next]_vars => LogInv'
<1> SUFFICES ASSUME Shape, LogInv, [Next]_vars PROVE LogInv'
  OBVIOUS
<1>1. CASE UNCHANGED vars \/ TermEnds \/ Halt
  <2>1. UNCHANGED <<log, pc, tier, plan, idx, approved>>
    BY <1>1 DEF vars, TermEnds, Halt
  <2>2. QED BY <2>1 DEF LogInv, EntryOK, RequestOK, Planned, Done, Asked, Consented, Says
<1>2. ASSUME NEW p \in Requests, DriveClaims(p) \/ ApproveReadsLog(p) \/ Progress(p) \/ Crash(p)
      PROVE  LogInv'
  <2>1. CASE DriveClaims(p) \/ ApproveReadsLog(p) \/ PlanReturns(p)
    BY <2>1, DriveKeeps, ApproveKeeps
  <2>2. CASE \/ AppendGate(p) \/ AppendFails(p) \/ PlanThrows(p) \/ ExecuteReturns(p)
             \/ ExecuteThrows(p) \/ VerifyReturns(p) \/ VerifyThrows(p) \/ Released(p) \/ Crash(p)
             \/ PlanReclaims(p) \/ VerifyReclaims(p) \/ ResumeClaims(p)
    BY <2>2, QuietSteps, QuietKeeps
  <2>3. CASE \/ CallWritten(p) \/ ResultWritten(p) \/ RequestWritten(p) \/ DenialWritten(p)
             \/ OutcomeWritten(p) \/ PlanWritten(p) \/ ApprovalWritten(p) \/ DenyWritten(p)
    BY <2>3, ResultKeeps, LoopWritesKeep, PlainWritesKeep
  <2>4. QED BY <1>2, <2>1, <2>2, <2>3 DEF Progress
<1>3. QED BY <1>1, <1>2 DEF Next

LEMMA Logged == Spec => [](Shape /\ LogInv)
<1>1. Init => Shape /\ LogInv
  BY ShapeInit, LogInit
<1>2. Shape /\ LogInv /\ [Next]_vars => (Shape /\ LogInv)'
  BY ShapeStep, LogStep
<1>3. QED BY <1>1, <1>2, PTL DEF Spec

\* Coverage: whoever records an outcome, every step of its plan has a result in
\* the log before it, over as many drives and approvals as it took (runner.ts
\* driveFrom, resumeRun).
THEOREM Coverage == Spec => []OutcomeCoversPlan
<1>1. ASSUME Shape, LogInv PROVE OutcomeCoversPlan
  <2>1. SUFFICES ASSUME NEW i \in Events("outcome"), NEW k \in DOMAIN plan[log[i].by]
                 PROVE  \E j \in Events("tool_result") :
                           j < i /\ log[j].at = k /\ plan[log[j].by] = plan[log[i].by]
    BY DEF OutcomeCoversPlan
  <2> DEFINE s == plan[log[i].by]
  <2>2. i \in 1 .. Len(log) /\ log[i].kind = "outcome" /\ Len(log) \in Nat
        /\ s \in Plans \cup {<<>>}
    BY <1>1, LogIs DEF Events, Shape, TypeOK
  <2>3. Done(log[i].by, Len(s) + 1, i - 1)
    BY <1>1, <2>2 DEF LogInv, EntryOK
  <2>4. k \in 1 .. (Len(s) + 1) - 1
    BY <2>2, PlansAreSequences
  <2>5. PICK j \in 1 .. i - 1 : log[j].kind = "tool_result" /\ log[j].at = k /\ plan[log[j].by] = s
    BY <2>3, <2>4 DEF Done
  <2>6. j \in Events("tool_result") /\ j < i
    BY <1>1, <2>2, <2>5, LogIs DEF Events
  <2>7. QED BY <2>5, <2>6
<1>2. QED BY <1>1, Logged, PTL

\* No plan uses a step id twice.
DistinctIds == \A s \in Plans : \A i, j \in 1 .. Len(s) : s[i].id = s[j].id => i = j

\* Permission: with plans that name each step once, every tool call in the log
\* is of a step the policy allows, or of a step that asked for an approval and
\* got it; never of one it denies (runner.ts driveFrom, resumeRun, policy.ts).
\* Without that premise a step that is denied may share the id of one that was
\* approved.
THEOREM Permission == DistinctIds => (Spec => []ToolCallsArePermitted)
<1>1. ASSUME DistinctIds, Shape, LogInv PROVE ToolCallsArePermitted
  <2>1. SUFFICES ASSUME NEW i \in Events("tool_call")
                 PROVE  LET by   == log[i].by
                            step == plan[by][log[i].at]
                            say  == EvaluatePolicy(step, tier[by])
                        IN  /\ say # "deny"
                            /\ say = "gate" =>
                                  \E j \in EventsFor("approve", step.id) :
                                      /\ j < i
                                      /\ \E k \in EventsFor("approval_request", step.id) :
                                            k < j /\ plan[log[k].by] = plan[by]
    BY DEF ToolCallsArePermitted
  <2> DEFINE b == log[i].by
             step == plan[b][log[i].at]
             say == EvaluatePolicy(step, tier[b])
  <2>2. /\ i \in 1 .. Len(log) /\ log[i].kind = "tool_call" /\ EntryOK(i)
        /\ Len(log) \in Nat /\ DOMAIN log = 1 .. Len(log) /\ b \in Requests
    BY <1>1, LogIs DEF Events, LogInv
  <2>3. /\ log[i].at \in 1 .. Len(plan[b]) /\ log[i].step = step.id
        /\ say = "allow" \/ (step.id = approved[b] /\ Consented(b, i - 1))
    BY <2>2 DEF EntryOK, Says
  <2>4. CASE say = "allow"
    BY <2>4
  <2>5. CASE step.id = approved[b] /\ Consented(b, i - 1)
    <3>1. PICK j \in 1 .. i - 1 : log[j].kind = "approve" /\ log[j].step = step.id /\ Asked(b, j - 1)
      BY <2>5 DEF Consented
    <3>2. PICK k \in 1 .. j - 1 : /\ log[k].kind = "approval_request" /\ log[k].step = step.id
                                 /\ plan[log[k].by] = plan[b]
      BY <2>5, <3>1 DEF Asked
    <3>3. j \in 1 .. Len(log) /\ j < i /\ k \in 1 .. Len(log) /\ k < j
      BY <2>2
    <3>4. EntryOK(k)
      BY <1>1, <3>3 DEF LogInv
    <3>5. /\ log[k].at \in 1 .. Len(plan[b]) /\ plan[b][log[k].at].id = step.id
          /\ EvaluatePolicy(plan[b][log[k].at], tier[log[k].by]) = "gate"
      BY <3>2, <3>4 DEF EntryOK, Says
    <3>6. log[k].at = log[i].at
      <4>1. plan[b] \in Plans
        <5>1. plan[b] \in Plans \cup {<<>>}
          BY <1>1, <2>2 DEF Shape, TypeOK
        <5>2. plan[b] # <<>>
          BY <2>3
        <5>3. QED BY <5>1, <5>2
      <4>2. QED BY <1>1, <2>3, <3>5, <4>1 DEF DistinctIds
    <3>7. say # "deny"
      BY <3>5, <3>6, DenialIsForAll
    <3>8. j \in EventsFor("approve", step.id) /\ k \in EventsFor("approval_request", step.id)
      BY <2>2, <3>1, <3>2, <3>3 DEF EventsFor, Events
    <3>9. QED BY <3>2, <3>3, <3>7, <3>8
  <2>6. QED BY <2>3, <2>4, <2>5
<1>2. SUFFICES ASSUME DistinctIds PROVE Spec => []ToolCallsArePermitted
  OBVIOUS
<1>3. Shape /\ LogInv => ToolCallsArePermitted
  BY <1>1, <1>2
<1>4. QED BY <1>3, Logged, PTL

-----------------------------------------------------------------------------
(* Every dispatched step has its one call in the log, and one result at most *)

CallKinds == {"tool_call", "tool_result"}

\* Nothing before a request has a call or result of its own in the log; at a step
\* of its plan all of them are of earlier steps, but for the call it answers.
CountOK(p) ==
    /\ \A i \in 1 .. Len(log) : log[i].by = p /\ log[i].kind \in CallKinds =>
          /\ pc[p] \notin Starting \cup Resuming
          /\ pc[p] \in {"appendCall", "appendRequest", "appendStatus"} \cup AllDone =>
                log[i].at < idx[p]
          /\ pc[p] \in {"dispatch", "appendResult"} =>
                log[i].at < idx[p] \/ (log[i].at = idx[p] /\ log[i].kind = "tool_call")
    /\ pc[p] \in {"dispatch", "appendResult"} =>
          \E i \in 1 .. Len(log) :
              log[i].kind = "tool_call" /\ log[i].by = p /\ log[i].at = idx[p]
    /\ \A k \in ran[p] : \E i \in 1 .. Len(log) :
              log[i].kind = "tool_call" /\ log[i].by = p /\ log[i].at = k

OnceOK ==
    /\ \A i, j \in 1 .. Len(log) :
          /\ log[i].kind \in CallKinds /\ log[i].kind = log[j].kind
          /\ log[i].by = log[j].by /\ log[i].at = log[j].at
          => i = j
    /\ \A i \in 1 .. Len(log) : log[i].kind = "tool_result" =>
          \E j \in 1 .. i - 1 :
              log[j].kind = "tool_call" /\ log[j].by = log[i].by /\ log[j].at = log[i].at

CountInv == OnceOK /\ \A p \in Requests : CountOK(p)

\* A request moves without writing.
LEMMA CountStays ==
    ASSUME Shape, CountInv, NEW p \in Requests, log' = log,
           \A q \in Requests \ {p} : pc'[q] = pc[q] /\ idx'[q] = idx[q] /\ ran'[q] = ran[q],
           CountOK(p)'
    PROVE  CountInv'
<1>1. OnceOK'
  BY DEF CountInv, OnceOK
<1>2. ASSUME NEW q \in Requests \ {p} PROVE CountOK(q)'
  BY <1>2 DEF CountInv, CountOK
<1>3. QED BY <1>1, <1>2 DEF CountInv

LEMMA QuietCounts ==
    ASSUME Shape, CountInv, NEW p \in Requests, Quiet(p)
    PROVE  CountInv'
<1>1. PICK where \in {pc[p], "appendPlan", "appendApprove", "appendDeny", "appendResult",
                      "reclaimVerify", "appendOutcome"} \cup Halted :
          /\ Go(p, where)
          /\ where = "appendPlan" => pc[p] \in Starting
          /\ where \in {"appendApprove", "appendDeny"} => pc[p] \in Resuming
          /\ where = "appendResult" => pc[p] \in {"dispatch", "appendResult"}
          /\ where \in {"reclaimVerify", "appendOutcome"} => pc[p] \in AllDone
  BY DEF Quiet
<1>2. pc'[p] = where /\ \A q \in Requests \ {p} : pc'[q] = pc[q]
  BY <1>1 DEF Go, Shape, TypeOK
<1>3. UNCHANGED <<log, idx>> /\ CountOK(p)
  BY DEF Quiet, CountInv
<1>4. /\ \A q \in Requests \ {p} : ran'[q] = ran[q]
      /\ \A k \in ran'[p] : k \in ran[p] \/ (k = idx[p] /\ pc[p] = "dispatch")
  BY DEF Quiet, Dispatched, Shape
<1>5. \A k \in ran'[p] : \E i \in 1 .. Len(log) :
          log[i].kind = "tool_call" /\ log[i].by = p /\ log[i].at = k
  BY <1>3, <1>4 DEF CountOK
<1>6. /\ where \in Starting \cup Resuming => pc[p] \in Starting \cup Resuming
      /\ where \in {"appendCall", "appendRequest", "appendStatus"} \cup AllDone =>
            pc[p] \in {"appendCall", "appendRequest", "appendStatus"} \cup AllDone
      /\ where \in {"dispatch", "appendResult"} => pc[p] \in {"dispatch", "appendResult"}
  BY <1>1 DEF Halted, Starting, Resuming, AllDone
<1>7. ASSUME NEW i \in 1 .. Len(log), log[i].by = p, log[i].kind \in CallKinds
      PROVE  /\ where \notin Starting \cup Resuming
             /\ where \in {"appendCall", "appendRequest", "appendStatus"} \cup AllDone =>
                   log[i].at < idx[p]
             /\ where \in {"dispatch", "appendResult"} =>
                   log[i].at < idx[p] \/ (log[i].at = idx[p] /\ log[i].kind = "tool_call")
  <2>1. pc[p] \notin Starting \cup Resuming
    BY <1>3, <1>7 DEF CountOK
  <2>2. where \notin Starting \cup Resuming
    BY <1>1, <2>1 DEF Halted, Starting, Resuming
  <2>3. QED BY <1>3, <1>6, <1>7, <2>2 DEF CountOK
<1>8. where \in {"dispatch", "appendResult"} =>
          \E i \in 1 .. Len(log) :
              log[i].kind = "tool_call" /\ log[i].by = p /\ log[i].at = idx[p]
  BY <1>3, <1>6 DEF CountOK
<1>9. CountOK(p)'
  BY <1>2, <1>3, <1>5, <1>7, <1>8 DEF CountOK
<1>10. QED BY <1>2, <1>3, <1>4, <1>9, CountStays

LEMMA StartCounts ==
    ASSUME Shape, CountInv, NEW p \in Requests,
           DriveClaims(p) \/ PlanReturns(p) \/ ApproveReadsLog(p)
    PROVE  CountInv'
<1>1. PICK where \in {"planning", "cut", "reclaimPlan", "resumeClaim"} : Go(p, where)
  <2>1. CASE PlanReturns(p)
    BY <2>1 DEF PlanReturns
  <2>2. CASE DriveClaims(p)
    BY <2>2, Zenon DEF DriveClaims, ClaimFor
  <2>3. CASE ApproveReadsLog(p)
    BY <2>3 DEF ApproveReadsLog
  <2>4. QED BY <2>1, <2>2, <2>3
<1>2. pc'[p] = where /\ \A q \in Requests \ {p} : pc'[q] = pc[q]
  BY <1>1 DEF Go, Shape, TypeOK
<1>3. /\ pc[p] \in Starting /\ UNCHANGED <<log, ran>>
      /\ \A q \in Requests \ {p} : idx'[q] = idx[q]
  <2>1. CASE PlanReturns(p) \/ DriveClaims(p)
    BY <2>1 DEF PlanReturns, DriveClaims, Starting
  <2>2. CASE ApproveReadsLog(p)
    BY <2>2 DEF ApproveReadsLog, Starting, Shape
  <2>3. QED BY <2>1, <2>2
<1>4. CountOK(p)
  BY DEF CountInv
<1>5. CountOK(p)'
  BY <1>2, <1>3, <1>4 DEF CountOK
<1>6. QED BY <1>2, <1>3, <1>5, CountStays

\* One entry more, by p, for the step it is at.
OneMore(p, n, i) ==
    /\ n \in Nat /\ i \in Nat
    /\ n = Len(log) /\ Len(log') = n + 1 /\ \A k \in 1 .. n : log'[k] = log[k]
    /\ log'[n + 1].kind = EventOf[pc[p]] /\ log'[n + 1].by = p /\ log'[n + 1].at = i
    /\ i = idx[p] /\ pc[p] \in Appends /\ ran' = ran
    /\ \A q \in Requests \ {p} : pc'[q] = pc[q] /\ idx'[q] = idx[q]

LEMMA WritesOneMore ==
    ASSUME Shape, NEW p \in Requests,
           \/ CallWritten(p) \/ ResultWritten(p) \/ RequestWritten(p) \/ DenialWritten(p)
           \/ OutcomeWritten(p) \/ PlanWritten(p) \/ ApprovalWritten(p) \/ DenyWritten(p)
    PROVE  \E n, i \in Nat : OneMore(p, n, i)
<1>1. Write(p) /\ ran' = ran /\ \A q \in Requests \ {p} : idx'[q] = idx[q]
  BY DEF CallWritten, ResultWritten, RequestWritten, DenialWritten, OutcomeWritten, PlanWritten,
         ApprovalWritten, DenyWritten, Shape
<1>2. PICK where : Go(p, where)
  BY DEF CallWritten, ResultWritten, RequestWritten, DenialWritten, OutcomeWritten, PlanWritten,
         ApprovalWritten, DenyWritten
<1>3. \A q \in Requests \ {p} : pc'[q] = pc[q]
  BY <1>2 DEF Go, Shape, TypeOK
<1>4. PICK n \in Nat, i \in Nat :
        /\ n = Len(log) /\ Len(log') = n + 1 /\ \A k \in 1 .. n : log'[k] = log[k]
        /\ log'[n + 1].kind = EventOf[pc[p]] /\ log'[n + 1].by = p /\ log'[n + 1].at = i
        /\ i = idx[p]
  <2>1. idx[p] \in Nat
    BY DEF Shape
  <2>2. QED BY <1>1, <2>1, Writes
<1>5. QED BY <1>1, <1>3, <1>4 DEF OneMore, Write

LEMMA OnceStays ==
    ASSUME Shape, CountInv, NEW p \in Requests, NEW n, NEW i, OneMore(p, n, i)
    PROVE  OnceOK'
<1> USE AppendKinds
<1> DEFINE Same(a, b) == a.kind \in CallKinds /\ a.kind = b.kind /\ a.by = b.by /\ a.at = b.at
<1>1. CountOK(p) /\ OnceOK
  BY DEF CountInv
<1>2. /\ EventOf[pc[p]] = "tool_call" => pc[p] = "appendCall"
      /\ EventOf[pc[p]] = "tool_result" => pc[p] = "appendResult"
  BY DEF OneMore
<1>3. ASSUME NEW k \in 1 .. n, log[k].kind \in CallKinds, log[k].kind = EventOf[pc[p]],
             log[k].by = p, log[k].at = i
      PROVE  FALSE
  <2>1. k \in 1 .. Len(log) /\ i \in Nat /\ i = idx[p]
    BY DEF OneMore
  <2>2. CASE log[k].kind = "tool_call"
    BY <1>1, <1>2, <1>3, <2>1, <2>2 DEF CountOK
  <2>3. CASE log[k].kind = "tool_result"
    BY <1>1, <1>2, <1>3, <2>1, <2>3 DEF CountOK
  <2>4. QED BY <1>3, <2>2, <2>3 DEF CallKinds
<1>4. ASSUME NEW j \in 1 .. n + 1, NEW k \in 1 .. n + 1, Same(log'[j], log'[k])
      PROVE  j = k
  <2>1. CASE j \in 1 .. n /\ k \in 1 .. n
    BY <1>1, <1>4, <2>1 DEF OneMore, OnceOK
  <2>2. CASE j = n + 1 /\ k \in 1 .. n
    BY <1>3, <1>4, <2>2 DEF OneMore
  <2>3. CASE k = n + 1 /\ j \in 1 .. n
    BY <1>3, <1>4, <2>3 DEF OneMore
  <2>4. n \in Nat
    BY DEF OneMore
  <2>5. QED BY <2>1, <2>2, <2>3, <2>4
<1>5. ASSUME NEW j \in 1 .. n + 1, log'[j].kind = "tool_result"
      PROVE  \E k \in 1 .. j - 1 :
                log'[k].kind = "tool_call" /\ log'[k].by = log'[j].by /\ log'[k].at = log'[j].at
  <2>1. CASE j \in 1 .. n
    <3>1. PICK k \in 1 .. j - 1 :
            log[k].kind = "tool_call" /\ log[k].by = log[j].by /\ log[k].at = log[j].at
      BY <1>1, <1>5, <2>1 DEF OneMore, OnceOK
    <3>2. k \in 1 .. n
      BY <2>1 DEF OneMore
    <3>3. QED BY <2>1, <3>1, <3>2 DEF OneMore
  <2>2. CASE j = n + 1
    <3>1. pc[p] = "appendResult"
      BY <1>2, <1>5, <2>2 DEF OneMore
    <3>2. PICK k \in 1 .. Len(log) : log[k].kind = "tool_call" /\ log[k].by = p /\ log[k].at = idx[p]
      BY <1>1, <3>1 DEF CountOK
    <3>3. k \in 1 .. j - 1 /\ log'[k] = log[k]
      BY <2>2 DEF OneMore
    <3>4. QED BY <2>2, <3>2, <3>3 DEF OneMore
  <2>3. n \in Nat
    BY DEF OneMore
  <2>4. QED BY <2>1, <2>2, <2>3
<1>6. Len(log') = n + 1
  BY DEF OneMore
<1>7. QED BY <1>4, <1>5, <1>6 DEF OnceOK

LEMMA CountGrows ==
    ASSUME Shape, CountInv, NEW p \in Requests, NEW n, NEW i, OneMore(p, n, i), CountOK(p)'
    PROVE  CountInv'
<1>1. ASSUME NEW q \in Requests \ {p} PROVE CountOK(q)'
  <2>1. /\ CountOK(q) /\ n \in Nat /\ Len(log') = n + 1 /\ n = Len(log)
        /\ \A k \in 1 .. n : log'[k] = log[k]
        /\ log'[n + 1].by # q /\ pc'[q] = pc[q] /\ idx'[q] = idx[q] /\ ran'[q] = ran[q]
    BY <1>1 DEF CountInv, OneMore
  <2>2. \A k \in 1 .. n + 1 : log'[k].by = q => k \in 1 .. n
    BY <2>1
  <2>3. 1 .. n \subseteq 1 .. n + 1
    BY <2>1
  <2>4. QED BY <2>1, <2>2, <2>3 DEF CountOK
<1>2. QED BY <1>1, OnceStays DEF CountInv

LEMMA AppendCounts ==
    ASSUME Shape, CountInv, NEW p \in Requests,
           \/ CallWritten(p) \/ ResultWritten(p) \/ RequestWritten(p) \/ DenialWritten(p)
           \/ OutcomeWritten(p) \/ PlanWritten(p) \/ ApprovalWritten(p) \/ DenyWritten(p)
    PROVE  CountInv'
<1> USE AppendKinds
<1>1. PICK n \in Nat, i \in Nat : OneMore(p, n, i)
  BY WritesOneMore
<1>2. /\ CountOK(p) /\ n = Len(log) /\ Len(log') = n + 1 /\ \A k \in 1 .. n : log'[k] = log[k]
      /\ log'[n + 1].kind = EventOf[pc[p]] /\ log'[n + 1].by = p /\ log'[n + 1].at = i
      /\ i = idx[p] /\ ran' = ran
  BY <1>1 DEF CountInv, OneMore
<1>3. \A k \in 1 .. n + 1 : k \in 1 .. n \/ k = n + 1
  OBVIOUS
<1>4. \A k \in ran'[p] : \E j \in 1 .. n + 1 :
          log'[j].kind = "tool_call" /\ log'[j].by = p /\ log'[j].at = k
  <2>1. 1 .. n \subseteq 1 .. n + 1
    OBVIOUS
  <2>2. QED BY <1>2, <2>1 DEF CountOK
<1>5. CASE CallWritten(p)
  <2>1. pc[p] = "appendCall" /\ pc'[p] = "dispatch" /\ idx' = idx
    BY <1>5 DEF CallWritten, Go, Shape, TypeOK
  <2>2. /\ "dispatch" \notin Starting \cup Resuming \cup AllDone
        /\ "dispatch" \notin {"appendCall", "appendRequest", "appendStatus"}
    BY DEF Starting, Resuming, AllDone
  <2>3. n + 1 \in 1 .. n + 1
    OBVIOUS
  <2>4. CountOK(p)'
    BY <1>2, <1>3, <1>4, <2>1, <2>2, <2>3 DEF CountOK
  <2>5. QED BY <1>1, <2>4, CountGrows
<1>6. CASE ResultWritten(p)
  <2>1. /\ pc[p] = "appendResult" /\ idx'[p] = i + 1
        /\ pc'[p] \in {"verifying", "appendCall", "appendRequest", "appendStatus"}
    <3>1. plan[p] \in Plans \cup {<<>>} /\ idx[p] + 1 \in Nat
      BY <1>2 DEF Shape, TypeOK
    <3>2. LoopAt(plan[p], idx[p] + 1, approved[p], tier[p])
             \in {"verifying", "appendCall", "appendRequest", "appendStatus"}
      BY <3>1, LoopStands
    <3>3. QED BY <1>2, <1>6, <3>2 DEF ResultWritten, Go, Shape, TypeOK
  <2>2. /\ pc'[p] \notin Starting \cup Resuming /\ pc'[p] \notin {"dispatch", "appendResult"}
    BY <2>1 DEF Starting, Resuming
  <2>3. ASSUME NEW k \in 1 .. n + 1, log'[k].by = p, log'[k].kind \in CallKinds
        PROVE  log'[k].at < i + 1
    <3>1. CASE k = n + 1
      BY <1>2, <3>1
    <3>2. CASE k \in 1 .. n
      <4>1. log[k].at < i \/ log[k].at = i
        BY <1>2, <2>1, <2>3, <3>2 DEF CountOK
      <4>2. log[k].at \in Nat
        BY <1>2, <3>2, LogIs
      <4>3. QED BY <1>2, <3>2, <4>1, <4>2
    <3>3. QED BY <1>3, <3>1, <3>2
  <2>4. CountOK(p)'
    BY <1>2, <1>4, <2>1, <2>2, <2>3 DEF CountOK
  <2>5. QED BY <1>1, <2>4, CountGrows
<1>7. CASE \/ RequestWritten(p) \/ DenialWritten(p) \/ OutcomeWritten(p)
           \/ PlanWritten(p) \/ ApprovalWritten(p) \/ DenyWritten(p)
  <2>1. idx' = idx /\ log'[n + 1].kind \notin CallKinds
    BY <1>2, <1>7 DEF RequestWritten, DenialWritten, OutcomeWritten, PlanWritten, ApprovalWritten,
         DenyWritten, CallKinds
  <2>2. /\ pc'[p] \in {"verifying", "appendCall", "appendRequest", "appendStatus", "paused",
                       "releaseDenied", "release"}
        /\ pc'[p] \notin {"paused", "releaseDenied"} =>
              pc[p] \in Starting \cup Resuming \cup AllDone
    <3>1. ASSUME NEW j \in Nat, NEW skip, NEW t
          PROVE  LoopAt(plan[p], j, skip, t)
                    \in {"verifying", "appendCall", "appendRequest", "appendStatus"}
      <4>1. plan[p] \in Plans \cup {<<>>}
        BY DEF Shape, TypeOK
      <4>2. QED BY <4>1, LoopStands
    <3>2. CASE PlanWritten(p) \/ ApprovalWritten(p)
      BY <1>2, <3>1, <3>2 DEF PlanWritten, ApprovalWritten, Go, Shape, TypeOK, Starting, Resuming
    <3>3. CASE RequestWritten(p) \/ DenialWritten(p) \/ OutcomeWritten(p) \/ DenyWritten(p)
      BY <3>3 DEF RequestWritten, DenialWritten, OutcomeWritten, DenyWritten, Go, Shape, TypeOK,
           Resuming, AllDone
    <3>4. QED BY <1>7, <3>2, <3>3
  <2>3. pc'[p] \notin Starting \cup Resuming /\ pc'[p] \notin {"dispatch", "appendResult"}
        /\ "paused" \notin AllDone /\ "releaseDenied" \notin AllDone
    BY <2>2 DEF Starting, Resuming, AllDone
  <2>4. ASSUME NEW k \in 1 .. n + 1, log'[k].by = p, log'[k].kind \in CallKinds,
               pc'[p] \notin {"paused", "releaseDenied"}
        PROVE  log'[k].at < idx'[p]
    <3>1. k \in 1 .. n /\ log'[k] = log[k]
      BY <1>2, <1>3, <2>1, <2>4
    <3>2. QED BY <1>2, <2>1, <2>2, <2>4, <3>1 DEF CountOK
  <2>5. CountOK(p)'
    BY <1>2, <1>4, <2>3, <2>4 DEF CountOK
  <2>6. QED BY <1>1, <2>5, CountGrows
<1>8. QED BY <1>5, <1>6, <1>7

LEMMA CountStep == Shape /\ CountInv /\ [Next]_vars => CountInv'
<1> SUFFICES ASSUME Shape, CountInv, [Next]_vars PROVE CountInv'
  OBVIOUS
<1>1. CASE UNCHANGED vars \/ TermEnds \/ Halt
  <2>1. UNCHANGED <<log, pc, idx, ran>>
    BY <1>1 DEF vars, TermEnds, Halt
  <2>2. QED BY <2>1 DEF CountInv, OnceOK, CountOK
<1>2. ASSUME NEW p \in Requests, DriveClaims(p) \/ ApproveReadsLog(p) \/ Progress(p) \/ Crash(p)
      PROVE  CountInv'
  <2>1. CASE DriveClaims(p) \/ ApproveReadsLog(p) \/ PlanReturns(p)
    BY <2>1, StartCounts
  <2>2. CASE \/ AppendGate(p) \/ AppendFails(p) \/ PlanThrows(p) \/ ExecuteReturns(p)
             \/ ExecuteThrows(p) \/ VerifyReturns(p) \/ VerifyThrows(p) \/ Released(p) \/ Crash(p)
             \/ PlanReclaims(p) \/ VerifyReclaims(p) \/ ResumeClaims(p)
    BY <2>2, QuietSteps, QuietCounts
  <2>3. CASE \/ CallWritten(p) \/ ResultWritten(p) \/ RequestWritten(p) \/ DenialWritten(p)
             \/ OutcomeWritten(p) \/ PlanWritten(p) \/ ApprovalWritten(p) \/ DenyWritten(p)
    BY <2>3, AppendCounts
  <2>4. QED BY <1>2, <2>1, <2>2, <2>3 DEF Progress
<1>3. QED BY <1>1, <1>2 DEF Next

\* Exactly once in the log: whichever attempt of a step succeeded, and however
\* often it threw, its dispatches have one tool_call, and one result at most
\* behind it (runner.ts dispatchWithRetry, driveFrom).
THEOREM ExactlyOnce == Spec => []DispatchesAreLogged
<1>1. ASSUME Shape, CountInv PROVE DispatchesAreLogged
  <2>1. /\ DOMAIN log = 1 .. Len(log) /\ Len(log) \in Nat /\ OnceOK
        /\ \A p \in Requests : CountOK(p)
    BY <1>1, LogIs DEF CountInv
  <2>2. ASSUME NEW S, \A i, j \in S : i = j PROVE Cardinality(S) <= 1 /\ (S # {} => Cardinality(S) = 1)
    <3>1. CASE S = {}
      BY <3>1, FS_EmptySet
    <3>2. CASE S # {}
      <4>1. PICK x \in S : S = {x}
        BY <2>2, <3>2
      <4>2. QED BY <4>1, FS_Singleton
    <3>3. QED BY <3>1, <3>2
  <2>3. ASSUME NEW p \in Requests, NEW k \in 1 .. Len(plan[p])
        PROVE  /\ k \in ran[p] => Cardinality(CallsOf(p, k)) = 1
               /\ Cardinality(ResultsOf(p, k)) <= 1
               /\ \A i \in ResultsOf(p, k) : \E j \in CallsOf(p, k) : j < i
    <3>1. /\ CallsOf(p, k) =
                {i \in 1 .. Len(log) : log[i].kind = "tool_call" /\ log[i].by = p /\ log[i].at = k}
          /\ ResultsOf(p, k) =
                {i \in 1 .. Len(log) : log[i].kind = "tool_result" /\ log[i].by = p /\ log[i].at = k}
      BY <2>1 DEF CallsOf, ResultsOf, Events
    <3>2. /\ \A i, j \in CallsOf(p, k) : i = j
          /\ \A i, j \in ResultsOf(p, k) : i = j
      BY <2>1, <3>1 DEF OnceOK, CallKinds
    <3>3. k \in ran[p] => CallsOf(p, k) # {}
      BY <2>1, <3>1 DEF CountOK
    <3>4. ASSUME NEW i \in ResultsOf(p, k) PROVE \E j \in CallsOf(p, k) : j < i
      <4>1. PICK j \in 1 .. i - 1 :
              log[j].kind = "tool_call" /\ log[j].by = log[i].by /\ log[j].at = log[i].at
        BY <2>1, <3>1 DEF OnceOK
      <4>2. j \in 1 .. Len(log) /\ j < i
        BY <2>1, <3>1
      <4>3. QED BY <3>1, <4>1, <4>2
    <3>5. QED BY <2>2, <3>2, <3>3, <3>4
  <2>4. QED BY <2>3 DEF DispatchesAreLogged
<1>2. Init => CountInv
  <2> SUFFICES ASSUME Init PROVE CountInv
    OBVIOUS
  <2>1. Len(log) = 0
    BY DEF Init
  <2>2. \A p \in Requests : CountOK(p)
    BY <2>1 DEF Init, CountOK
  <2>3. QED BY <2>1, <2>2 DEF CountInv, OnceOK
<1>3. QED BY <1>1, <1>2, ShapeInit, ShapeStep, CountStep, PTL DEF Spec
=============================================================================
