----------------------------- MODULE TaskApproval -----------------------------
(***************************************************************************)
(* A task whose plan needs an approval: the planner gate of                *)
(* buildTaskContext and the OWD_RESOLVED listener and stale-task sweeper   *)
(* of apps/api/src/agent-loop.ts, packages/agent/src/one-way-door.ts, and  *)
(* the routes by which a user decides or cancels.                          *)
(*                                                                         *)
(* The decision is a record in Redis, the task a row in Postgres, and the  *)
(* event that a decision was made reaches the process that published it    *)
(* twice, by its emitter and by Redis; a process that is down misses it.   *)
(* With OWD_RELEASE_SLOT the run ends while the task waits and a later run *)
(* resumes it, without it the run waits.  TaskSlots shows how a task comes *)
(* to a run; here a claim and the start of its run are one step.           *)
(*                                                                         *)
(* A plan is named by the approval its run asks for, so Ids bounds how     *)
(* often the task is planned.                                              *)
(***************************************************************************)
EXTENDS Naturals, FiniteSets

CONSTANTS MaxIds,     \* bound of the model: approvals (and plans) of the task
          Workers,    \* bound of the model: runs of the task at once
          Deciders,   \* bound of the model: decisions under way
          Cancellers, \* bound of the model: cancels under way
          None,
          Modes,      \* the settings of OWD_RELEASE_SLOT to look at
          MaxFaults   \* bound of the model: crashes and failing statements

Ids == 1 .. MaxIds
Users == Deciders \cup Cancellers
Decisions == {"approved", "rejected"}

ASSUME ApprovalAssumption ==
    /\ MaxIds \in Nat
    /\ None \notin Ids
    /\ Modes \subseteq BOOLEAN
    /\ MaxFaults \in Nat

VARIABLES release,   \* OWD_RELEASE_SLOT
          status,    \* tasks.status
          plan,      \* tasks.plan
          marker,    \* the plan whose hash is planHash of tasks.context
          noted,     \* _approvalId of tasks.context
          rec,       \* the Redis record of an approval
          events,    \* OWD_RESOLVED events on their way to the listener
          at,        \* where a run stands
          mine,      \* the plan it works on
          old,       \* tasks.plan and planHash as its claim returned them, if both are set
          upc,       \* where a user's request stands
          uid,       \* the approval it is about
          udec,      \* the decision it will write
          stale,     \* the sweeper has read the row and will fail it
          faults,    \* crashes and failed statements so far
          granted,   \* history: the approvals somebody granted
          vetoed     \* history: the approvals cancels reject, of cancels that
                     \* wrote the row after a run last came to wait

taskRow == <<status, plan, marker, noted>>
runVars == <<at, mine, old>>
userVars == <<upc, uid, udec, vetoed>>
vars == <<release, taskRow, rec, events, runVars, userVars, stale, faults, granted>>

\* A plan: the approval it is for and the order of its keys, which counts for
\* JSON.stringify and so for its hash.
PlanOf(i) == [id |-> i, keys |-> "planner"]

\* What comes back from a jsonb column: Postgres orders the keys its own way.
Jsonb(p) == [p EXCEPT !.keys = "jsonb"]

Plans == [id : Ids, keys : {"planner", "jsonb"}]

\* By the emitter and by Redis.
Deliveries == 2

\* Where an error ends in the catch block of the run.
Tried == {"start", "plan", "ask", "set", "wait", "granted", "denied", "execute"}

TypeOK ==
    /\ release \in BOOLEAN
    /\ status \in {"queued", "claimed", "running", "awaiting_approval",
                   "complete", "failed", "cancelled"}
    /\ plan \in Plans \cup {None}
    /\ marker \in Plans \cup {None}
    /\ noted \in Ids \cup {None}
    /\ rec \in [Ids -> {"unused", "pending", "gone"} \cup Decisions]
    /\ events \in [Ids \X Decisions -> 0 .. Deliveries]
    /\ at \in [Workers -> {"free", "resume", "note", "park", "mismatch"} \cup Tried]
    /\ mine \in [Workers -> Plans \cup {None}]
    /\ old \in [Workers -> [plan : Plans, marker : Plans] \cup {None}]
    /\ upc \in [Users -> {"idle", "cancel", "get", "set"}]
    /\ uid \in [Users -> Ids \cup {None}]
    /\ udec \in [Users -> Decisions \cup {None}]
    /\ stale \in BOOLEAN
    /\ faults \in 0 .. MaxFaults
    /\ granted \subseteq Ids
    /\ vetoed \subseteq Ids

Init ==
    /\ release \in Modes
    /\ status = "queued"
    /\ plan = None
    /\ marker = None
    /\ noted = None
    /\ rec = [i \in Ids |-> "unused"]
    /\ events = [e \in Ids \X Decisions |-> 0]
    /\ at = [w \in Workers |-> "free"]
    /\ mine = [w \in Workers |-> None]
    /\ old = [w \in Workers |-> None]
    /\ upc = [u \in Users |-> "idle"]
    /\ uid = [u \in Users |-> None]
    /\ udec = [u \in Users |-> None]
    /\ stale = FALSE
    /\ faults = 0
    /\ granted = {}
    /\ vetoed = {}

-----------------------------------------------------------------------------
(* A run up to the gate *)

Go(w, where) == at' = [at EXCEPT ![w] = where]

Forget(w) ==
    /\ at' = [at EXCEPT ![w] = "free"]
    /\ mine' = [mine EXCEPT ![w] = None]
    /\ old' = [old EXCEPT ![w] = None]

Fault == faults < MaxFaults /\ faults' = faults + 1

\* Runs have no names of their own: a new one takes a given free place.
NextPlace == CHOOSE w \in Workers : at[w] = "free"

\* claimBatch returns the row as it was at the claim.
Claim(w) ==
    /\ at[w] = "free"
    /\ w = NextPlace
    /\ status = "queued"
    /\ status' = "claimed"
    /\ old' = [old EXCEPT ![w] = IF plan = None \/ marker = None THEN None
                                 ELSE [plan |-> plan, marker |-> marker]]
    /\ Go(w, "start")
    /\ UNCHANGED <<release, plan, marker, noted, rec, events, mine, userVars,
                   stale, faults, granted>>

\* status = running, whatever it was; then plan, or resume behind the gate.
MarksRunning(w) ==
    /\ at[w] = "start"
    /\ status' = "running"
    /\ Go(w, IF old[w] # None THEN "resume" ELSE "plan")
    /\ UNCHANGED <<release, plan, marker, noted, rec, events, mine, old,
                   userVars, stale, faults, granted>>

\* Mutant: a plan is resumed without a look at its hash.
ResumesUnchecked(w) ==
    /\ at[w] = "resume"
    /\ mine' = [mine EXCEPT ![w] = old[w].plan]
    /\ marker' = None
    /\ Go(w, "execute")
    /\ UNCHANGED <<release, status, plan, noted, rec, events, old,
                   userVars, stale, faults, granted>>

\* The hash of the plan read back is compared with the one stored at the gate.
Resumes(w) ==
    /\ at[w] = "resume"
    /\ IF old[w].plan = old[w].marker
       THEN /\ mine' = [mine EXCEPT ![w] = old[w].plan]
            /\ old' = [old EXCEPT ![w] = None]
            /\ marker' = None
            /\ Go(w, "execute")
       ELSE Go(w, "mismatch") /\ UNCHANGED <<mine, old, marker>>
    /\ UNCHANGED <<release, status, plan, noted, rec, events,
                   userVars, stale, faults, granted>>

Unplanned == {i \in Ids : rec[i] = "unused" /\ \A w \in Workers : mine[w] # PlanOf(i)}

\* A plan of its own, named by the approval it will ask for, and its row.
MakesPlan(w) ==
    /\ at[w] = "plan"
    /\ \E i \in Unplanned :
          /\ \A j \in Unplanned : i <= j
          /\ mine' = [mine EXCEPT ![w] = PlanOf(i)]
          /\ \/ plan' = Jsonb(PlanOf(i)) /\ faults' = faults
             \/ plan' = plan /\ Fault
    /\ Go(w, "ask")
    /\ UNCHANGED <<release, status, marker, noted, rec, events, old,
                   userVars, stale, granted>>

\* requestApproval writes a pending record.
Asks(w) ==
    /\ at[w] = "ask"
    /\ rec' = [rec EXCEPT ![mine[w].id] = "pending"]
    /\ Go(w, "set")
    /\ UNCHANGED <<release, taskRow, events, mine, old,
                   userVars, stale, faults, granted>>

\* A standing approval grants it without a record.
StandingApproves(w) ==
    /\ at[w] = "ask"
    /\ rec' = [rec EXCEPT ![mine[w].id] = "gone"]
    /\ granted' = granted \cup {mine[w].id}
    /\ Go(w, "execute")
    /\ UNCHANGED <<release, taskRow, events, mine, old, userVars, stale, faults>>

\* status = awaiting_approval, whatever it was.
SetsAwaiting(w) ==
    /\ at[w] = "set"
    /\ status' = "awaiting_approval"
    /\ vetoed' = {}
    /\ Go(w, "note")
    /\ UNCHANGED <<release, plan, marker, noted, rec, events, mine, old,
                   upc, uid, udec, stale, faults, granted>>

NextIsWait == IF release THEN "park" ELSE "wait"

NotesApproval(w) ==
    /\ at[w] = "note"
    /\ noted' = mine[w].id
    /\ Go(w, NextIsWait)
    /\ UNCHANGED <<release, status, plan, marker, rec, events, mine, old,
                   userVars, stale, faults, granted>>

\* The resume marker with the hash of the plan as it is in memory; the run ends.
Parks(w) ==
    /\ at[w] = "park"
    /\ marker' = mine[w]
    /\ Forget(w)
    /\ UNCHANGED <<release, status, plan, noted, rec, events,
                   userVars, stale, faults, granted>>

\* Both are tried only: a failure is logged, and a run that could not leave its
\* marker waits after all.
WriteFails(w) ==
    /\ at[w] \in {"note", "park"}
    /\ Fault
    /\ Go(w, IF at[w] = "note" THEN NextIsWait ELSE "wait")
    /\ UNCHANGED <<release, taskRow, rec, events, mine, old,
                   userVars, stale, granted>>

-----------------------------------------------------------------------------
(* The wait, and what follows it *)

\* waitForDecision: approved; or rejected, expired, or past its deadline, which
\* may pass without another look at the record.
WaitEnds(w) ==
    /\ at[w] = "wait"
    /\ \/ rec[mine[w].id] = "approved" /\ Go(w, "granted")
       \/ Go(w, "denied")
    /\ UNCHANGED <<release, taskRow, rec, events, mine, old,
                   userVars, stale, faults, granted>>

SetsRunning(w) ==
    /\ at[w] = "granted"
    /\ status' = "running"
    /\ Go(w, "execute")
    /\ UNCHANGED <<release, plan, marker, noted, rec, events, mine, old,
                   userVars, stale, faults, granted>>

\* markTaskFailed with requireFromStatus, after it asked for a summary.
FailWaiting == status' = IF status = "awaiting_approval" THEN "failed" ELSE status

MarksDenied(w) ==
    /\ at[w] = "denied"
    /\ FailWaiting
    /\ Forget(w)
    /\ UNCHANGED <<release, plan, marker, noted, rec, events,
                   userVars, stale, faults, granted>>

Completes(w) ==
    /\ at[w] = "execute"
    /\ status' = "complete"
    /\ Forget(w)
    /\ UNCHANGED <<release, plan, marker, noted, rec, events,
                   userVars, stale, faults, granted>>

\* The catch block requeues after a transient error and fails after any other,
\* which a hash mismatch is.
Throws(w) ==
    /\ \/ at[w] \in Tried /\ status' \in {"queued", "failed"}
       \/ at[w] = "mismatch" /\ status' = "failed"
    /\ Forget(w)
    /\ UNCHANGED <<release, plan, marker, noted, rec, events,
                   userVars, stale, faults, granted>>

-----------------------------------------------------------------------------
(* Decisions, cancels and the events they cause *)

UserGoes(u, where, i, d) ==
    /\ upc' = [upc EXCEPT ![u] = where]
    /\ uid' = [uid EXCEPT ![u] = i]
    /\ udec' = [udec EXCEPT ![u] = d]

\* resolveDecision reads a pending record: from /tasks/:id/confirm or a chat
\* reply (by the id the row notes) or from the approval card (by its id).
Decides(u) ==
    /\ u \in Deciders
    /\ upc[u] = "idle"
    /\ \E i \in Ids, d \in Decisions : rec[i] = "pending" /\ UserGoes(u, "set", i, d)
    /\ UNCHANGED <<release, taskRow, rec, events, runVars, vetoed,
                   stale, faults, granted>>

\* Mutant: the publications of one decision pile up.
PublishesAgain(i, d) ==
    events' = IF release THEN [events EXCEPT ![<<i, d>>] = @ + Deliveries] ELSE events

\* Only with OWD_RELEASE_SLOT somebody listens.  Of the same decision published
\* twice at most Deliveries events are kept: a bound of the model.
Publishes(i, d) ==
    events' = IF release THEN [events EXCEPT ![<<i, d>>] = Deliveries] ELSE events

\* .. and writes it back decided, whatever it is by now.
WritesDecision(u) ==
    /\ upc[u] = "set"
    /\ rec' = [rec EXCEPT ![uid[u]] = udec[u]]
    /\ Publishes(uid[u], udec[u])
    /\ granted' = IF udec[u] = "approved" THEN granted \cup {uid[u]} ELSE granted
    /\ UserGoes(u, "idle", None, None)
    /\ UNCHANGED <<release, taskRow, runVars, vetoed, stale, faults>>

Cancellable == {"queued", "claimed", "running", "awaiting_approval"}

\* POST /tasks/:id/cancel and DELETE read the row; only the former, and only
\* for a task it saw waiting, goes on to reject the approval.
CancelReads(u) ==
    /\ u \in Cancellers
    /\ upc[u] = "idle"
    /\ status \in Cancellable \cup {"failed"}
    /\ \E i \in {None} \cup (IF status = "awaiting_approval" THEN {noted} ELSE {}) :
          UserGoes(u, "cancel", i, None)
    /\ UNCHANGED <<release, taskRow, rec, events, runVars, vetoed,
                   stale, faults, granted>>

\* Mutant: the approval is rejected first and the row cancelled by its own
\* request afterwards.
CancelRejectsFirst(u) ==
    /\ upc[u] = "cancel"
    /\ IF uid[u] # None /\ rec[uid[u]] = "pending"
       THEN /\ rec' = [rec EXCEPT ![uid[u]] = "rejected"]
            /\ vetoed' = vetoed \cup {uid[u]}
            /\ Publishes(uid[u], "rejected")
            /\ UserGoes(u, "cancel", None, None)
            /\ status' = status
       ELSE /\ status' = IF status \in Cancellable THEN "cancelled" ELSE status
            /\ UserGoes(u, "idle", None, None)
            /\ UNCHANGED <<rec, vetoed, events>>
    /\ UNCHANGED <<release, plan, marker, noted, runVars, stale, faults, granted>>

\* queueCancel: one guarded update.
CancelWrites(u) ==
    /\ upc[u] = "cancel"
    /\ status' = IF status \in Cancellable THEN "cancelled" ELSE status
    /\ IF uid[u] # None
       THEN UserGoes(u, "get", uid[u], None) /\ vetoed' = vetoed \cup {uid[u]}
       ELSE UserGoes(u, "idle", None, None) /\ UNCHANGED vetoed
    /\ UNCHANGED <<release, plan, marker, noted, rec, events, runVars,
                   stale, faults, granted>>

\* resolveDecision(.., 'rejected') reads the record.
CancelGets(u) ==
    /\ upc[u] = "get"
    /\ IF rec[uid[u]] = "pending"
       THEN UserGoes(u, "set", uid[u], "rejected")
       ELSE UserGoes(u, "idle", None, None)
    /\ UNCHANGED <<release, taskRow, rec, events, runVars, vetoed, stale, faults, granted>>

\* The OWD_RESOLVED listener: an approval requeues whatever approval the task
\* waits for, a rejection fails it; neither touches a task that is not waiting.
Delivers ==
    /\ \E e \in Ids \X Decisions :
          /\ events[e] > 0
          /\ events' = [events EXCEPT ![e] = @ - 1]
          /\ IF e[2] = "approved"
             THEN status' = IF status = "awaiting_approval" THEN "queued" ELSE status
             ELSE FailWaiting
    /\ UNCHANGED <<release, plan, marker, noted, rec, runVars,
                   userVars, stale, faults, granted>>

\* The record's TTL of 25 hours.  That of a decided record, 10 minutes, is left
\* out: whoever would find it gone may as well not look at it (WaitEnds).
Expires(i) ==
    /\ rec[i] = "pending"
    /\ rec' = [rec EXCEPT ![i] = "gone"]
    /\ UNCHANGED <<release, taskRow, events, runVars, userVars, stale, faults, granted>>

-----------------------------------------------------------------------------
(* Sweepers and crashes *)

\* Mutant: the sweeper has no branch for tasks that wait for an approval.
SweepFindsQueued ==
    /\ ~stale
    /\ status = "queued"
    /\ stale' = TRUE
    /\ UNCHANGED <<release, taskRow, rec, events, runVars, userVars, faults, granted>>

\* cleanupStaleTasks reads the rows that are past their budget; a task may be
\* any age when it comes to wait or to be queued again.
SweepFinds ==
    /\ ~stale
    /\ status \in {"queued", "awaiting_approval"}
    /\ stale' = TRUE
    /\ UNCHANGED <<release, taskRow, rec, events, runVars, userVars, faults, granted>>

\* .. and fails them, whatever they are by now.
SweepFails ==
    /\ stale
    /\ status' = "failed"
    /\ stale' = FALSE
    /\ UNCHANGED <<release, plan, marker, noted, rec, events, runVars, userVars,
                   faults, granted>>

\* recoverGhostTasks and the claim sweep: a running row without a run.
Recovers ==
    /\ status = "running"
    /\ \A w \in Workers : at[w] = "free"
    /\ status' \in {"queued", "failed"}
    /\ UNCHANGED <<release, plan, marker, noted, rec, events, runVars, userVars, stale,
                   faults, granted>>

\* Records in Redis and the row survive; events in flight do not.
Crash ==
    /\ Fault
    /\ events' = [e \in Ids \X Decisions |-> 0]
    /\ at' = [w \in Workers |-> "free"]
    /\ mine' = [w \in Workers |-> None]
    /\ old' = [w \in Workers |-> None]
    /\ upc' = [u \in Users |-> "idle"]
    /\ uid' = [u \in Users |-> None]
    /\ udec' = [u \in Users |-> None]
    /\ stale' = FALSE
    /\ UNCHANGED <<release, taskRow, rec, vetoed, granted>>

RunMoves(w) ==
    \/ MarksRunning(w) \/ Resumes(w) \/ MakesPlan(w) \/ Asks(w) \/ StandingApproves(w)
    \/ SetsAwaiting(w) \/ NotesApproval(w) \/ Parks(w)
    \/ WaitEnds(w) \/ SetsRunning(w) \/ MarksDenied(w) \/ Completes(w) \/ Throws(w)

UserMoves(u) ==
    \/ Decides(u) \/ WritesDecision(u)
    \/ CancelReads(u) \/ CancelWrites(u) \/ CancelGets(u)

Next ==
    \/ \E w \in Workers : Claim(w) \/ RunMoves(w) \/ WriteFails(w)
    \/ \E u \in Users : UserMoves(u)
    \/ Delivers
    \/ \E i \in Ids : Expires(i)
    \/ SweepFinds \/ SweepFails \/ Recovers
    \/ Crash

\* The sweeper keeps running.  Nobody need decide, no event need arrive.
Spec == Init /\ [][Next]_vars /\ WF_vars(SweepFinds \/ SweepFails)

-----------------------------------------------------------------------------
(* Properties *)

\* No plan is executed whose own approval nobody granted, although decisions
\* race, records expire, events arrive twice or for an earlier plan of the
\* task, and runs are resumed from a row that another run has rewritten
\* (agent-loop.ts, the planner gate and the resume entry-point).
ApprovedBeforeExecution ==
    \A w \in Workers : at[w] = "execute" => mine[w].id \in granted

\* tasks.ts:377 "Order matters": a cancel that rejects the approval its task
\* waits for does not see its task failed by that rejection, neither by the run
\* that waits nor by the listener, unless a run comes to wait after the cancel.
FailedBy(i) ==
    /\ status # "failed" /\ status' = "failed"
    /\ \/ Delivers /\ events'[<<i, "rejected">>] < events[<<i, "rejected">>]
       \/ \E w \in Workers : mine[w] = PlanOf(i) /\ MarksDenied(w)

CancelIsNoFailure == [][\A i \in vetoed : ~FailedBy(i)]_vars

\* agent-loop.ts:1128 "Sweeper backstops the lost-event case": a task does not
\* wait for an approval for ever, although its run may be gone, its event lost
\* and its record expired.
WaitsEnd == status = "awaiting_approval" ~> status # "awaiting_approval"

(* What the code says of itself and does not keep (see the README). *)

\* agent-loop.ts:858 "plan was modified after approval": a resume is refused
\* only when the plan in the row is another one than was approved.
MismatchMeansModified ==
    \A w \in Workers : at[w] = "mismatch" => old[w].plan.id # old[w].marker.id
=============================================================================
