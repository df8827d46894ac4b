-------------------------- MODULE TaskApprovalProofs --------------------------
(***************************************************************************)
(* Proofs about TaskApproval for any number of plans, runs, users and      *)
(* faults, and both settings of OWD_RELEASE_SLOT.                          *)
(***************************************************************************)
EXTENDS TaskApproval, TLAPS

\* Where a run works on a plan that it made itself.
Working == {"ask", "set", "note", "park", "wait", "granted", "execute"}

\* A run has a plan of its own, and was granted the approval it went on with.
RunOK(w) ==
    /\ at[w] \in Working => mine[w] \in Plans /\ mine[w].keys = "planner"
    /\ at[w] \in {"resume", "mismatch"} => old[w] # None
    /\ at[w] \in {"granted", "execute"} => mine[w].id \in granted

\* A plan that was read from a row has the keys in the order of jsonb, a hash
\* is that of a plan in memory: the two never agree.
KeysOK ==
    /\ plan # None => plan.keys = "jsonb"
    /\ marker # None => marker.keys = "planner"
    /\ \A w \in Workers : old[w] # None =>
          old[w].plan.keys = "jsonb" /\ old[w].marker.keys = "planner"

UserOK(u) ==
    /\ upc[u] = "set" => uid[u] \in Ids /\ udec[u] \in Decisions
    /\ upc[u] = "get" => uid[u] \in Ids

\* An approval reads as approved only when somebody granted it; a task whose
\* approval a cancel rejects is not waiting.
RecordsOK ==
    /\ \A i \in Ids : rec[i] = "approved" => i \in granted
    /\ vetoed # {} => status # "awaiting_approval"

Inv ==
    /\ TypeOK /\ KeysOK /\ RecordsOK
    /\ \A w \in Workers : RunOK(w)
    /\ \A u \in Users : UserOK(u)

-----------------------------------------------------------------------------
(* The steps of a run *)

LEMMA RunStarts ==
    ASSUME Inv, NEW w \in Workers, Claim(w) \/ MarksRunning(w) \/ Resumes(w) \/ MakesPlan(w)
    PROVE  Inv'
<1> USE DEF Inv, TypeOK, KeysOK, RecordsOK, RunOK, UserOK, Working, Go, Decisions
<1>1. CASE Claim(w)
  <2> DEFINE row == IF plan = None \/ marker = None THEN None
                    ELSE [plan |-> plan, marker |-> marker]
  <2>1. /\ row \in [plan : Plans, marker : Plans] \cup {None}
        /\ row # None => row.plan.keys = "jsonb" /\ row.marker.keys = "planner"
    OBVIOUS
  <2>2. old' = [old EXCEPT ![w] = row]
    BY <1>1 DEF Claim
  <2> HIDE DEF row
  <2>3. /\ old' \in [Workers -> [plan : Plans, marker : Plans] \cup {None}]
        /\ \A x \in Workers : old'[x] # None =>
              old'[x].plan.keys = "jsonb" /\ old'[x].marker.keys = "planner"
    BY <2>1, <2>2
  <2>4. \A x \in Workers : old'[x] = old[x] \/ at'[x] = "start"
    BY <1>1, <2>2 DEF Claim
  <2>5. QED BY <1>1, <2>3, <2>4 DEF Claim, userVars, Tried
<1>2. CASE MarksRunning(w)
  BY <1>2 DEF MarksRunning, userVars, Tried
<1>3. CASE Resumes(w)
  <2>1. old[w].plan # old[w].marker
    BY <1>3 DEF Resumes
  <2>2. QED BY <1>3, <2>1 DEF Resumes, userVars
<1>4. CASE MakesPlan(w)
  <2>1. PICK i \in Ids : /\ mine' = [mine EXCEPT ![w] = PlanOf(i)]
                         /\ \/ plan' = Jsonb(PlanOf(i)) /\ faults' = faults
                            \/ plan' = plan /\ Fault
    BY <1>4 DEF MakesPlan, Unplanned
  <2>2. /\ PlanOf(i) \in Plans /\ PlanOf(i).keys = "planner"
        /\ Jsonb(PlanOf(i)) \in Plans /\ Jsonb(PlanOf(i)).keys = "jsonb"
    BY DEF PlanOf, Jsonb, Plans
  <2>3. faults' \in 0 .. MaxFaults
    BY <2>1, ApprovalAssumption DEF Fault
  <2>4. QED BY <1>4, <2>1, <2>2, <2>3 DEF MakesPlan, userVars, Tried
<1>5. QED BY <1>1, <1>2, <1>3, <1>4

LEMMA RunAsks ==
    ASSUME Inv, NEW w \in Workers,
           \/ Asks(w) \/ StandingApproves(w) \/ SetsAwaiting(w) \/ NotesApproval(w)
           \/ Parks(w) \/ WriteFails(w)
    PROVE  Inv'
<1> USE DEF Inv, TypeOK, KeysOK, RecordsOK, RunOK, UserOK, Working, Go, Decisions, Tried
<1>1. CASE Asks(w)
  BY <1>1 DEF Asks, taskRow, userVars, Plans
<1>2. CASE StandingApproves(w)
  BY <1>2 DEF StandingApproves, taskRow, userVars, Plans
<1>3. CASE SetsAwaiting(w)
  BY <1>3 DEF SetsAwaiting
<1>4. CASE NotesApproval(w)
  BY <1>4 DEF NotesApproval, NextIsWait, userVars, Plans
<1>5. CASE Parks(w)
  BY <1>5 DEF Parks, Forget, userVars
<1>6. CASE WriteFails(w)
  BY <1>6, ApprovalAssumption DEF WriteFails, Fault, NextIsWait, taskRow, userVars
<1>7. QED BY <1>1, <1>2, <1>3, <1>4, <1>5, <1>6

LEMMA RunEnds ==
    ASSUME Inv, NEW w \in Workers,
           WaitEnds(w) \/ SetsRunning(w) \/ MarksDenied(w) \/ Completes(w) \/ Throws(w)
    PROVE  Inv'
<1> USE DEF Inv, TypeOK, KeysOK, RecordsOK, RunOK, UserOK, Working, Go, Decisions, Tried
<1>1. CASE WaitEnds(w)
  BY <1>1 DEF WaitEnds, taskRow, userVars, Plans
<1>2. CASE SetsRunning(w)
  BY <1>2 DEF SetsRunning, userVars
<1>3. CASE MarksDenied(w)
  BY <1>3 DEF MarksDenied, FailWaiting, Forget, userVars
<1>4. CASE Completes(w)
  BY <1>4 DEF Completes, Forget, userVars
<1>5. CASE Throws(w)
  BY <1>5 DEF Throws, Forget, userVars
<1>6. QED BY <1>1, <1>2, <1>3, <1>4, <1>5

-----------------------------------------------------------------------------
(* Users, events, sweepers and crashes *)

LEMMA EventTypes ==
    ASSUME TypeOK, NEW i \in Ids, NEW d \in Decisions, Publishes(i, d)
    PROVE  events' \in [Ids \X Decisions -> 0 .. Deliveries]
BY DEF TypeOK, Publishes, Deliveries

LEMMA UsersAct ==
    ASSUME Inv, NEW u \in Users, UserMoves(u)
    PROVE  Inv'
<1> USE DEF Inv, TypeOK, KeysOK, RecordsOK, RunOK, UserOK, Decisions, UserGoes
<1>1. CASE Decides(u)
  BY <1>1 DEF Decides, taskRow, runVars
<1>2. CASE WritesDecision(u)
  <2>1. uid[u] \in Ids /\ udec[u] \in Decisions
    BY <1>2 DEF WritesDecision
  <2>2. events' \in [Ids \X Decisions -> 0 .. Deliveries]
    BY <1>2, <2>1, EventTypes DEF WritesDecision
  <2>3. /\ rec' \in [Ids -> {"unused", "pending", "gone"} \cup Decisions]
        /\ granted \subseteq granted' /\ granted' \subseteq Ids
        /\ \A i \in Ids : rec'[i] = "approved" => i \in granted'
    BY <1>2, <2>1 DEF WritesDecision
  <2>4. /\ upc' \in [Users -> {"idle", "cancel", "get", "set"}]
        /\ uid' \in [Users -> Ids \cup {None}]
        /\ udec' \in [Users -> Decisions \cup {None}]
        /\ \A v \in Users : UserOK(v)'
    BY <1>2 DEF WritesDecision
  <2>5. UNCHANGED <<release, status, plan, marker, noted, at, mine, old, vetoed,
                    stale, faults>>
    BY <1>2 DEF WritesDecision, taskRow, runVars
  <2>6. QED BY <2>2, <2>3, <2>4, <2>5
<1>3. CASE CancelReads(u)
  BY <1>3 DEF CancelReads, taskRow, runVars
<1>4. CASE CancelWrites(u)
  <2>1. /\ status' # "awaiting_approval"
        /\ status' \in {status, "cancelled"}
    BY <1>4 DEF CancelWrites, Cancellable
  <2>2. /\ vetoed' \subseteq Ids
        /\ upc' \in [Users -> {"idle", "cancel", "get", "set"}]
        /\ uid' \in [Users -> Ids \cup {None}]
        /\ udec' \in [Users -> Decisions \cup {None}]
        /\ \A v \in Users : UserOK(v)'
    BY <1>4 DEF CancelWrites
  <2>3. /\ UNCHANGED <<release, plan, marker, noted, rec, events, at, mine, old,
                       stale, faults, granted>>
    BY <1>4 DEF CancelWrites, runVars
  <2>4. QED BY <2>1, <2>2, <2>3
<1>5. CASE CancelGets(u)
  BY <1>5 DEF CancelGets, taskRow, runVars
<1>6. QED BY <1>1, <1>2, <1>3, <1>4, <1>5 DEF UserMoves

LEMMA OthersAct ==
    ASSUME Inv,
           \/ Delivers \/ (\E i \in Ids : Expires(i))
           \/ SweepFinds \/ SweepFails \/ Recovers \/ Crash \/ UNCHANGED vars
    PROVE  Inv'
<1> USE DEF Inv, TypeOK, KeysOK, RecordsOK, RunOK, UserOK, Working
<1>1. CASE Delivers
  <2>1. PICK e \in Ids \X Decisions : events[e] > 0 /\ events' = [events EXCEPT ![e] = @ - 1]
    BY <1>1 DEF Delivers
  <2>2. events' \in [Ids \X Decisions -> 0 .. Deliveries]
    BY <2>1 DEF Deliveries
  <2>3. /\ status' \in {status, "queued", "failed"}
        /\ UNCHANGED <<release, plan, marker, noted, rec, runVars,
                       userVars, stale, faults, granted>>
    BY <1>1 DEF Delivers, FailWaiting
  <2>4. QED BY <2>2, <2>3 DEF runVars, userVars
<1>2. CASE \E i \in Ids : Expires(i)
  BY <1>2 DEF Expires, taskRow, runVars, userVars
<1>3. CASE SweepFinds \/ SweepFails \/ Recovers
  BY <1>3 DEF SweepFinds, SweepFails, Recovers, taskRow, runVars, userVars
<1>4. CASE Crash
  <2>1. /\ events' \in [Ids \X Decisions -> 0 .. Deliveries]
        /\ faults' \in 0 .. MaxFaults
    BY <1>4, ApprovalAssumption DEF Crash, Fault, Deliveries
  <2>2. QED BY <1>4, <2>1 DEF Crash, taskRow, Tried
<1>5. CASE UNCHANGED vars
  BY <1>5 DEF vars, taskRow, runVars, userVars
<1>6. QED BY <1>1, <1>2, <1>3, <1>4, <1>5

LEMMA Inductive == Spec => []Inv
<1>1. Init => Inv
  <2> SUFFICES ASSUME Init PROVE Inv
    OBVIOUS
  <2>1. events \in [Ids \X Decisions -> 0 .. Deliveries]
    BY DEF Init, Deliveries
  <2>2. TypeOK
    <3>1. release \in BOOLEAN
      BY ApprovalAssumption, Zenon DEF Init
    <3>2. faults \in 0 .. MaxFaults
      BY ApprovalAssumption DEF Init
    <3>3. QED BY <2>1, <3>1, <3>2 DEF Init, TypeOK, Tried
  <2>3. KeysOK /\ RecordsOK /\ \A w \in Workers : RunOK(w)
    BY DEF Init, KeysOK, RecordsOK, RunOK, Working
  <2>4. \A u \in Users : UserOK(u)
    BY DEF Init, UserOK
  <2>5. QED BY <2>2, <2>3, <2>4 DEF Inv
<1>2. Inv /\ [Next]_vars => Inv'
  BY RunStarts, RunAsks, RunEnds, UsersAct, OthersAct DEF Next, RunMoves
<1>3. QED BY <1>1, <1>2, PTL DEF Spec

-----------------------------------------------------------------------------
(* The theorems *)

\* The row of the task, the records and the requests under way are well-formed.
THEOREM Typing == Spec => []TypeOK
<1>1. Inv => TypeOK
  BY DEF Inv
<1>2. QED BY <1>1, Inductive, PTL

\* A run passes the planner gate of agent-loop.ts only with the approval of the
\* plan it executes.
THEOREM ConsentBeforeExecution == Spec => []ApprovedBeforeExecution
<1>1. Inv => ApprovedBeforeExecution
  BY DEF Inv, RunOK, ApprovedBeforeExecution
<1>2. QED BY <1>1, Inductive, PTL

\* The order of the cancel in tasks.ts: its rejection does not fail the task,
\* as long as no run comes to wait after the row was cancelled.
THEOREM CancelsStand == Spec => CancelIsNoFailure
<1>1. ASSUME Inv, NEW i \in vetoed PROVE ~FailedBy(i)
  <2>1. status # "awaiting_approval"
    BY <1>1 DEF Inv, RecordsOK
  <2>2. Delivers => status' = status
    BY <2>1 DEF Delivers, FailWaiting
  <2>3. \A w \in Workers : MarksDenied(w) => status' = status
    BY <2>1 DEF MarksDenied, FailWaiting
  <2>4. QED BY <2>2, <2>3 DEF FailedBy
<1>2. Inv /\ [Next]_vars => [\A i \in vetoed : ~FailedBy(i)]_vars
  BY <1>1
<1>3. QED BY <1>2, Inductive, PTL DEF Spec, CancelIsNoFailure
=============================================================================
