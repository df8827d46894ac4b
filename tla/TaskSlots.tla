------------------------------ MODULE TaskSlots ------------------------------
(***************************************************************************)
(* How tasks get from the queue to a run and back:                         *)
(* apps/api/src/parallel-executor.ts (claimBatch, slots in Redis,          *)
(* heartbeats), the frame of buildTaskContext and the ghost sweeper of     *)
(* apps/api/src/agent-loop.ts, and the task rows of packages/queue.        *)
(*                                                                         *)
(* Rows live in Postgres and slots in Redis; nothing joins them, and every *)
(* statement on either is a step of its own.  One API process runs the     *)
(* poll loop; other callers of claimBatch come through POST                *)
(* /parallel/claim-batch.  A crash of the process loses its runs, its      *)
(* heartbeats and whatever its callers were about to do.                   *)
(*                                                                         *)
(* Time is the order of a few expiries: a slot's TTL, a row's retry_after  *)
(* and the three minutes after which a running row is a ghost.  Each comes *)
(* at any moment.  The code counts on some work being over before some of  *)
(* them; `overtaken` remembers the tasks for which it was not.             *)
(***************************************************************************)
EXTENDS Naturals, FiniteSets

CONSTANTS Tasks,
          Setups,       \* what a process may be configured with and be given to do
          NoRepo,       \* the Repo of a task whose key is task_<id>
          MaxAttempts,  \* MAX_ATTEMPTS and maxAttempts (3 in the code)
          Loop,         \* the caller of claimBatch that starts what it claims
          Routes,       \* callers that only report what they claimed
          Workers,      \* bound of the model: runs in flight at once
          Nobody,
          MaxOvertaken, \* bound of the model: tasks that are overtaken
          MaxFaults     \* bound of the model: crashes and failing statements

Claimers == {Loop} \cup Routes

ASSUME SlotsAssumption ==
    /\ IsFiniteSet(Tasks) /\ IsFiniteSet(Workers)
    /\ \A s \in Setups : s.slots \in Nat \ {0} /\ DOMAIN s.repo = Tasks
    /\ MaxAttempts \in Nat \ {0}
    /\ Loop \notin Routes
    /\ Nobody \notin Tasks \cup Workers
    /\ MaxOvertaken \in Nat
    /\ MaxFaults \in Nat

VARIABLES setup,     \* the Setups at work
          status,    \* tasks.status
          attempts,  \* tasks.attempt_count
          due,       \* retry_after is NULL or past
          claimed,   \* tasks.claimed_at: "null", "young", or "old" (over 3 minutes)
          slot,      \* the task's field of zeroclaw:parallel:slots
          kpc,       \* where a call of claimBatch stands
          todo,      \* the expired slots, then the rows, it has yet to look at
          busy,      \* the tasks of the slots it found active
          got,       \* the tasks it has claimed
          cur,       \* the task it works on
          seen,      \* the attempt_count it read
          at,        \* where a run stands
          job,       \* its task
          read,      \* the attempt_count it read
          active,    \* activeTasks: the run a task is registered with
          beat,      \* the task whose slot a heartbeat of this run is about to write
          gpc,       \* where the ghost sweeper stands
          ghosts,    \* the tasks it found
          gcur,      \* the one it works on
          gseen,     \* the attempt_count it read
          faults,    \* crashes and failed statements so far
          starts,    \* history: the runs of a task so far
          overtaken  \* history: the tasks an expiry or a second caller overtook

rowVars == <<status, attempts, due, claimed>>
claimVars == <<kpc, todo, busy, got, cur, seen>>
runVars == <<at, job, read, active, beat, starts>>
ghostVars == <<gpc, ghosts, gcur, gseen>>
vars == <<setup, overtaken, rowVars, slot, claimVars, runVars, ghostVars, faults>>

MaxSlots == setup.slots   \* PARALLEL_MAX_SLOTS (3 by default)
Repo == setup.repo        \* the repo_, app_ or ops_ resource of each task

Statuses == {"queued", "claimed", "running", "blocked", "complete", "failed", "cancelled"}

TypeOK ==
    /\ setup \in Setups
    /\ status \in [Tasks -> Statuses]
    /\ attempts \in [Tasks -> Nat]
    /\ due \in [Tasks -> BOOLEAN]
    /\ claimed \in [Tasks -> {"null", "young", "old"}]
    /\ slot \in [Tasks -> {"none", "fresh", "stale"}]
    /\ kpc \in [Claimers -> {"idle", "evict", "expiredRead", "expiredWrite", "claim", "store"}]
    /\ todo \in [Claimers -> SUBSET Tasks]
    /\ busy \in [Claimers -> SUBSET Tasks]
    /\ got \in [Claimers -> SUBSET Tasks]
    /\ cur \in [Claimers -> Tasks \cup {Nobody}]
    /\ seen \in [Claimers -> Nat]
    /\ at \in [Workers -> {"free", "preflight", "refused", "clone", "start", "work",
                           "ask", "retry", "fail", "finish", "release"}]
    /\ job \in [Workers -> Tasks \cup {Nobody}]
    /\ read \in [Workers -> Nat]
    /\ active \in [Tasks -> Workers \cup {Nobody}]
    /\ beat \in [Workers -> Tasks \cup {Nobody}]
    /\ gpc \in {"idle", "filter", "clear", "read", "write"}
    /\ ghosts \subseteq Tasks
    /\ gcur \in Tasks \cup {Nobody}
    /\ gseen \in Nat
    /\ faults \in 0 .. MaxFaults
    /\ starts \in [Tasks -> Nat]
    /\ overtaken \subseteq Tasks

Init ==
    /\ setup \in Setups
    /\ status = [t \in Tasks |-> "queued"]
    /\ attempts = [t \in Tasks |-> 0]
    /\ due = [t \in Tasks |-> TRUE]
    /\ claimed = [t \in Tasks |-> "null"]
    /\ slot = [t \in Tasks |-> "none"]
    /\ kpc = [k \in Claimers |-> "idle"]
    /\ todo = [k \in Claimers |-> {}]
    /\ busy = [k \in Claimers |-> {}]
    /\ got = [k \in Claimers |-> {}]
    /\ cur = [k \in Claimers |-> Nobody]
    /\ seen = [k \in Claimers |-> 0]
    /\ at = [w \in Workers |-> "free"]
    /\ job = [w \in Workers |-> Nobody]
    /\ read = [w \in Workers |-> 0]
    /\ active = [t \in Tasks |-> Nobody]
    /\ beat = [w \in Workers |-> Nobody]
    /\ gpc = "idle"
    /\ ghosts = {}
    /\ gcur = Nobody
    /\ gseen = 0
    /\ faults = 0
    /\ starts = [t \in Tasks |-> 0]
    /\ overtaken = {}

-----------------------------------------------------------------------------
(* Writes of a task row *)

Row(t, s, n, d, c) ==
    /\ status' = [status EXCEPT ![t] = s]
    /\ attempts' = [attempts EXCEPT ![t] = n]
    /\ due' = [due EXCEPT ![t] = d]
    /\ claimed' = [claimed EXCEPT ![t] = c]

SetStatus(t, s, c) == Row(t, s, attempts[t], due[t], c)

\* Mutant: the attempt is not counted.
RequeueUncounted(t, n) ==
    IF n + 1 > MaxAttempts
    THEN SetStatus(t, "failed", "null")
    ELSE Row(t, "queued", n, FALSE, "null")

\* Mutant: the attempt is given back.
RequeueRefunded(t, n) ==
    IF n > MaxAttempts
    THEN SetStatus(t, "failed", "null")
    ELSE Row(t, "queued", n - 1, FALSE, "null")

\* requeueForRetry once it has read the count n: no status guards the write.
Requeue(t, n) ==
    IF n + 1 > MaxAttempts
    THEN SetStatus(t, "failed", "null")
    ELSE Row(t, "queued", n + 1, FALSE, "null")

-----------------------------------------------------------------------------
(* What an expiry may overtake *)

RunsOn(t) == {w \in Workers : job[w] = t}

\* The loop has claimed the task, or runs it.
UnderWay(t) == t \in got[Loop] \/ RunsOn(t) # {}

\* A run of the task has dealt with its row and is not over.
Ending(t) == \E w \in RunsOn(t) : at[w] \in {"finish", "release"}

\* A claimBatch has evicted its slot and has not dealt with the row yet.
Evicting(t) == \E k \in Claimers : cur[k] = t /\ kpc[k] # "store"

\* A sweep has found the task, or its slot is being evicted.
Recovering(t) == t \in ghosts \/ Evicting(t)

Overtake(late) ==
    /\ overtaken' = overtaken \cup late
    /\ Cardinality(overtaken') <= MaxOvertaken

-----------------------------------------------------------------------------
(* claimBatch *)

\* Mutant: expired slots are skipped, not evicted.
ScanSkipping(k) ==
    /\ kpc[k] = "idle"
    /\ kpc' = [kpc EXCEPT ![k] = "evict"]
    /\ busy' = [busy EXCEPT ![k] = {t \in Tasks : slot[t] = "fresh"}]
    /\ UNCHANGED <<setup, overtaken, rowVars, slot, todo, got, cur, seen, runVars, ghostVars, faults>>

\* HGETALL: which slots have expired and which are active, at this moment.
Scan(k) ==
    /\ kpc[k] = "idle"
    /\ kpc' = [kpc EXCEPT ![k] = "evict"]
    /\ todo' = [todo EXCEPT ![k] = {t \in Tasks : slot[t] = "stale"}]
    /\ busy' = [busy EXCEPT ![k] = {t \in Tasks : slot[t] = "fresh"}]
    /\ UNCHANGED <<setup, overtaken, rowVars, slot, got, cur, seen, runVars, ghostVars, faults>>

\* HDEL of a slot the snapshot showed expired, whatever it is by now.
Evict(k) ==
    /\ kpc[k] = "evict"
    /\ \E t \in todo[k] :
          /\ slot' = [slot EXCEPT ![t] = "none"]
          /\ todo' = [todo EXCEPT ![k] = @ \ {t}]
          /\ cur' = [cur EXCEPT ![k] = t]
          /\ Overtake({t} \cap {u \in Tasks : k # Loop /\ UnderWay(u)})
    /\ kpc' = [kpc EXCEPT ![k] = "expiredRead"]
    /\ UNCHANGED <<setup, rowVars, busy, got, seen, runVars, ghostVars, faults>>

\* handleExpiredSlot only looks at a row that is running.
ExpiredRead(k) ==
    /\ kpc[k] = "expiredRead"
    /\ IF status[cur[k]] = "running"
       THEN /\ kpc' = [kpc EXCEPT ![k] = "expiredWrite"]
            /\ seen' = [seen EXCEPT ![k] = attempts[cur[k]]]
            /\ cur' = cur
       ELSE /\ kpc' = [kpc EXCEPT ![k] = "evict"]
            /\ cur' = [cur EXCEPT ![k] = Nobody]
            /\ seen' = seen
    /\ UNCHANGED <<setup, overtaken, rowVars, slot, todo, busy, got, runVars, ghostVars, faults>>

ExpiredWrite(k) ==
    /\ kpc[k] = "expiredWrite"
    /\ IF status[cur[k]] = "running"
       THEN IF seen[k] + 1 >= MaxAttempts
            THEN Row(cur[k], "blocked", seen[k] + 1, TRUE, "null")
            ELSE Row(cur[k], "queued", seen[k] + 1, FALSE, "null")
       ELSE UNCHANGED rowVars
    /\ kpc' = [kpc EXCEPT ![k] = "evict"]
    /\ cur' = [cur EXCEPT ![k] = Nobody]
    /\ seen' = [seen EXCEPT ![k] = 0]
    /\ UNCHANGED <<setup, overtaken, slot, todo, busy, got, runVars, ghostVars, faults>>

Return(k) ==
    /\ kpc' = [kpc EXCEPT ![k] = "idle"]
    /\ todo' = [todo EXCEPT ![k] = {}]
    /\ busy' = [busy EXCEPT ![k] = {}]
    /\ got' = [got EXCEPT ![k] = {}]
    /\ cur' = [cur EXCEPT ![k] = Nobody]
    /\ seen' = [seen EXCEPT ![k] = 0]

\* SELECT the queued rows that are due, unless every slot is taken.
Select(k) ==
    /\ kpc[k] = "evict"
    /\ todo[k] = {}
    /\ IF Cardinality(busy[k]) >= MaxSlots
       THEN Return(k)
       ELSE /\ kpc' = [kpc EXCEPT ![k] = "claim"]
            /\ todo' = [todo EXCEPT ![k] = {t \in Tasks : status[t] = "queued" /\ due[t]}]
            /\ UNCHANGED <<busy, got, cur, seen>>
    /\ UNCHANGED <<setup, overtaken, rowVars, slot, runVars, ghostVars, faults>>

\* Mutant: `<=` for `<`.
RoomForOneMore(k) == Cardinality(got[k]) + Cardinality(busy[k]) <= MaxSlots

Room(k) == Cardinality(got[k]) + Cardinality(busy[k]) < MaxSlots

\* Mutant: only what this call claimed is looked at.
RepoFreeInBatch(k, t) ==
    Repo[t] = NoRepo \/ \A u \in got[k] : Repo[u] # Repo[t]

RepoFree(k, t) ==
    Repo[t] = NoRepo \/ \A u \in busy[k] \cup got[k] : Repo[u] # Repo[t]

Candidates(k) == {t \in todo[k] : Room(k) /\ RepoFree(k, t)}

\* UPDATE .. WHERE status = 'queued': a row somebody else took is skipped.
Claim(k) ==
    /\ kpc[k] = "claim"
    /\ \E t \in Candidates(k) :
          /\ todo' = [todo EXCEPT ![k] = @ \ {t}]
          /\ IF status[t] = "queued"
             THEN /\ SetStatus(t, "claimed", "young")
                  /\ got' = [got EXCEPT ![k] = @ \cup {t}]
                  /\ cur' = [cur EXCEPT ![k] = t]
                  /\ kpc' = [kpc EXCEPT ![k] = "store"]
                  /\ Overtake({t} \cap {u \in Tasks : k = Loop /\ Evicting(u)})
             ELSE UNCHANGED <<overtaken, rowVars, got, cur, kpc>>
    /\ UNCHANGED <<setup, slot, busy, seen, runVars, ghostVars, faults>>

\* Mutant: the slot is stored without its TTL.
StoreExpired(k) ==
    /\ kpc[k] = "store"
    /\ slot' = [slot EXCEPT ![cur[k]] = "stale"]
    /\ kpc' = [kpc EXCEPT ![k] = "claim"]
    /\ cur' = [cur EXCEPT ![k] = Nobody]
    /\ UNCHANGED <<setup, overtaken, rowVars, todo, busy, got, seen, runVars, ghostVars, faults>>

Store(k) ==
    /\ kpc[k] = "store"
    /\ slot' = [slot EXCEPT ![cur[k]] = "fresh"]
    /\ kpc' = [kpc EXCEPT ![k] = "claim"]
    /\ cur' = [cur EXCEPT ![k] = Nobody]
    /\ UNCHANGED <<setup, overtaken, rowVars, todo, busy, got, seen, runVars, ghostVars, faults>>

\* A route reports its batch; nobody runs it.
Report(k) ==
    /\ k \in Routes
    /\ kpc[k] = "claim"
    /\ Candidates(k) = {}
    /\ Return(k)
    /\ UNCHANGED <<setup, overtaken, rowVars, slot, runVars, ghostVars, faults>>

\* The poll loop starts buildTaskContext for every task of its batch and does
\* not wait for any of them.
Start ==
    /\ kpc[Loop] = "claim"
    /\ Candidates(Loop) = {}
    /\ \E crew \in SUBSET {w \in Workers : at[w] = "free" /\ beat[w] = Nobody} :
          /\ Cardinality(crew) = Cardinality(got[Loop])
          /\ \E pick \in [crew -> got[Loop]] :
                /\ \A t \in got[Loop] : \E w \in crew : pick[w] = t
                /\ at' = [w \in Workers |-> IF w \in crew THEN "preflight" ELSE at[w]]
                /\ job' = [w \in Workers |-> IF w \in crew THEN pick[w] ELSE job[w]]
    /\ starts' = [t \in Tasks |-> IF t \in got[Loop] THEN starts[t] + 1 ELSE starts[t]]
    /\ Return(Loop)
    /\ UNCHANGED <<setup, overtaken, rowVars, slot, read, active, beat, ghostVars, faults>>

\* Postgres fails under handleExpiredSlot: the slot is gone, the row as it was,
\* and claimBatch goes on.
ExpiredThrows(k) ==
    /\ kpc[k] \in {"expiredRead", "expiredWrite"}
    /\ faults < MaxFaults
    /\ faults' = faults + 1
    /\ kpc' = [kpc EXCEPT ![k] = "evict"]
    /\ cur' = [cur EXCEPT ![k] = Nobody]
    /\ seen' = [seen EXCEPT ![k] = 0]
    /\ UNCHANGED <<setup, overtaken, rowVars, slot, todo, busy, got, runVars, ghostVars>>

\* Redis or Postgres fails under claimBatch: what it has claimed is forgotten.
ClaimThrows(k) ==
    /\ kpc[k] \in {"evict", "claim", "store"}
    /\ faults < MaxFaults
    /\ faults' = faults + 1
    /\ Return(k)
    /\ UNCHANGED <<setup, overtaken, rowVars, slot, runVars, ghostVars>>

-----------------------------------------------------------------------------
(* buildTaskContext: one run *)

RunGoes(w, where) == at' = [at EXCEPT ![w] = where]

\* No credential, or the weekly cost ceiling: failed before it is registered.
PreflightRefuses(w) ==
    /\ at[w] = "preflight"
    /\ SetStatus(job[w], "failed", "null")
    /\ RunGoes(w, "refused")
    /\ UNCHANGED <<setup, overtaken, slot, claimVars, job, read, active, beat, starts, ghostVars, faults>>

\* What follows markTaskFailed throws.  The ceiling's refusal is in a try
\* whose catch block goes on with the run of the task that failed.
RefusalIgnored(w) ==
    /\ at[w] = "refused"
    /\ faults < MaxFaults
    /\ faults' = faults + 1
    /\ RunGoes(w, "clone")
    /\ UNCHANGED <<setup, overtaken, rowVars, slot, claimVars, job, read, active, beat, starts, ghostVars>>

\* A statement before the try block fails: the run just ends.
PreflightThrows(w) ==
    /\ at[w] \in {"preflight", "clone"}
    /\ faults < MaxFaults
    /\ faults' = faults + 1
    /\ RunGoes(w, "free")
    /\ job' = [job EXCEPT ![w] = Nobody]
    /\ UNCHANGED <<setup, overtaken, rowVars, slot, claimVars, read, active, beat, starts, ghostVars>>

\* activeTasks.set and the heartbeat's setInterval, after the repo is cloned.
Register(w) ==
    /\ at[w] \in {"preflight", "clone"}
    /\ active' = [active EXCEPT ![job[w]] = w]
    /\ RunGoes(w, "start")
    /\ UNCHANGED <<setup, overtaken, rowVars, slot, claimVars, job, read, beat, starts, ghostVars, faults>>

\* status = running, whatever it was.
MarkRunning(w) ==
    /\ at[w] = "start"
    /\ SetStatus(job[w], "running", "young")
    /\ RunGoes(w, "work")
    /\ UNCHANGED <<setup, overtaken, slot, claimVars, job, read, active, beat, starts, ghostVars, faults>>

Ends(w, s, next) ==
    /\ at[w] = "work"
    /\ SetStatus(job[w], s, claimed[job[w]])
    /\ RunGoes(w, next)
    /\ UNCHANGED <<setup, overtaken, slot, claimVars, job, read, active, beat, starts, ghostVars, faults>>

\* completeTask; nothing that fails after it reaches the catch block.
Completes(w) == Ends(w, "complete", "finish")

\* blockTask, when the planner asks back; the question is stored next.
Clarifies(w) == Ends(w, "blocked", "ask")

StoresQuestion(w) ==
    /\ at[w] = "ask"
    /\ RunGoes(w, "finish")
    /\ UNCHANGED <<setup, overtaken, rowVars, slot, claimVars, job, read, active, beat, starts, ghostVars, faults>>

\* Where an error ends in the catch block.
Tried == {"start", "work", "ask"}

\* A transient error: requeueForRetry reads the attempt count.
FailsTransiently(w) ==
    /\ at[w] \in Tried
    /\ read' = [read EXCEPT ![w] = attempts[job[w]]]
    /\ RunGoes(w, "retry")
    /\ UNCHANGED <<setup, overtaken, rowVars, slot, claimVars, job, active, beat, starts, ghostVars, faults>>

\* Out of attempts, markTaskFailed follows with its escalation summary.
Requeues(w) ==
    /\ at[w] = "retry"
    /\ Requeue(job[w], read[w])
    /\ RunGoes(w, IF read[w] + 1 > MaxAttempts THEN "fail" ELSE "finish")
    /\ read' = [read EXCEPT ![w] = 0]
    /\ UNCHANGED <<setup, overtaken, slot, claimVars, job, active, beat, starts, ghostVars, faults>>

FailsForGood(w) ==
    /\ at[w] \in Tried
    /\ RunGoes(w, "fail")
    /\ UNCHANGED <<setup, overtaken, rowVars, slot, claimVars, job, read, active, beat, starts, ghostVars, faults>>

MarksFailed(w) ==
    /\ at[w] = "fail"
    /\ SetStatus(job[w], "failed", "null")
    /\ RunGoes(w, "finish")
    /\ UNCHANGED <<setup, overtaken, slot, claimVars, job, read, active, beat, starts, ghostVars, faults>>

\* The catch block's own statement fails: the row stays as it is.
CatchThrows(w) ==
    /\ at[w] \in {"retry", "fail"}
    /\ faults < MaxFaults
    /\ faults' = faults + 1
    /\ RunGoes(w, "finish")
    /\ read' = [read EXCEPT ![w] = 0]
    /\ UNCHANGED <<setup, overtaken, rowVars, slot, claimVars, job, active, beat, starts, ghostVars>>

\* Mutant: the registration is left behind.
UnregisterNothing(w) ==
    /\ at[w] = "finish"
    /\ RunGoes(w, "release")
    /\ UNCHANGED <<setup, overtaken, rowVars, slot, claimVars, job, read, active, beat, starts, ghostVars, faults>>

\* finally: the interval and the registration go, by the task's id.
Unregister(w) ==
    /\ at[w] = "finish"
    /\ active' = [active EXCEPT ![job[w]] = Nobody]
    /\ RunGoes(w, "release")
    /\ UNCHANGED <<setup, overtaken, rowVars, slot, claimVars, job, read, beat, starts, ghostVars, faults>>

\* releaseSlot: HDEL, by the task's id.
Release(w) ==
    /\ at[w] \in {"release", "refused"}
    /\ slot' = [slot EXCEPT ![job[w]] = "none"]
    /\ RunGoes(w, "free")
    /\ job' = [job EXCEPT ![w] = Nobody]
    /\ UNCHANGED <<setup, overtaken, rowVars, claimVars, read, active, beat, starts, ghostVars, faults>>

\* Redis fails, after finally or the refusal for want of a credential: the
\* run is over, its slot stays until it expires.
ReleaseThrows(w) ==
    /\ at[w] \in {"release", "refused"}
    /\ faults < MaxFaults
    /\ faults' = faults + 1
    /\ RunGoes(w, "free")
    /\ job' = [job EXCEPT ![w] = Nobody]
    /\ UNCHANGED <<setup, overtaken, rowVars, slot, claimVars, read, active, beat, starts, ghostVars>>

\* extendSlot is HGET and then HSET of the whole field.
HeartbeatReads(w) ==
    /\ at[w] \in Tried \cup {"retry", "fail", "finish"}
    /\ beat[w] = Nobody
    /\ slot[job[w]] # "none"
    /\ beat' = [beat EXCEPT ![w] = job[w]]
    /\ UNCHANGED <<setup, overtaken, rowVars, slot, claimVars, at, job, read, active, starts, ghostVars, faults>>

HeartbeatWrites(w) ==
    /\ beat[w] # Nobody
    /\ slot' = [slot EXCEPT ![beat[w]] = "fresh"]
    /\ beat' = [beat EXCEPT ![w] = Nobody]
    /\ UNCHANGED <<setup, overtaken, rowVars, claimVars, at, job, read, active, starts, ghostVars, faults>>

-----------------------------------------------------------------------------
(* recoverGhostTasks *)

\* The SELECT; activeTasks is looked at when it has returned.
GhostsSelected ==
    /\ gpc = "idle"
    /\ ghosts' = {t \in Tasks : status[t] = "running" /\ claimed[t] = "old"}
    /\ gpc' = IF ghosts' = {} THEN "idle" ELSE "filter"
    /\ UNCHANGED <<setup, overtaken, rowVars, slot, claimVars, runVars, gcur, gseen, faults>>

\* Mutant: the runs of this process are not spared.
GhostsAnyone ==
    /\ gpc = "filter"
    /\ gpc' = "clear"
    /\ UNCHANGED <<setup, overtaken, rowVars, slot, claimVars, runVars, ghosts, gcur, gseen, faults>>

GhostsFound ==
    /\ gpc = "filter"
    /\ ghosts' = {t \in ghosts : active[t] = Nobody}
    /\ gpc' = IF ghosts' = {} THEN "idle" ELSE "clear"
    /\ UNCHANGED <<setup, overtaken, rowVars, slot, claimVars, runVars, gcur, gseen, faults>>

GhostsCleared ==
    /\ gpc = "clear"
    /\ claimed' = [t \in Tasks |-> IF t \in ghosts /\ status[t] = "running"
                                   THEN "null" ELSE claimed[t]]
    /\ gpc' = "read"
    /\ UNCHANGED <<setup, overtaken, status, attempts, due, slot, claimVars, runVars, ghosts, gcur, gseen, faults>>

\* requeueForRetry of one ghost after the other.
GhostRead ==
    /\ gpc = "read"
    /\ IF ghosts = {}
       THEN gpc' = "idle" /\ UNCHANGED <<gcur, gseen>>
       ELSE \E t \in ghosts : gpc' = "write" /\ gcur' = t /\ gseen' = attempts[t]
    /\ UNCHANGED <<setup, overtaken, rowVars, slot, claimVars, runVars, ghosts, faults>>

\* Out of attempts, markTaskFailed follows at once: it asks no model here.
GhostRequeued ==
    /\ gpc = "write"
    /\ Requeue(gcur, gseen)
    /\ gpc' = "read"
    /\ ghosts' = ghosts \ {gcur}
    /\ gcur' = Nobody
    /\ gseen' = 0
    /\ UNCHANGED <<setup, overtaken, slot, claimVars, runVars, faults>>

SweepIsOver == gpc' = "idle" /\ ghosts' = {} /\ gcur' = Nobody /\ gseen' = 0

SweepThrows ==
    /\ gpc # "idle"
    /\ faults < MaxFaults
    /\ faults' = faults + 1
    /\ SweepIsOver
    /\ UNCHANGED <<setup, overtaken, rowVars, slot, claimVars, runVars>>

-----------------------------------------------------------------------------
(* Around the process *)

\* POST /tasks/:id/cancel and DELETE: one guarded update.  The abort signal
\* that follows only makes the run end in one of the ways it may end anyway.
Cancel(t) ==
    /\ status[t] \in {"queued", "claimed", "running", "blocked"}
    /\ Row(t, "cancelled", attempts[t], TRUE, "null")
    /\ UNCHANGED <<setup, overtaken, slot, claimVars, runVars, ghostVars, faults>>

Crash ==
    /\ faults < MaxFaults
    /\ faults' = faults + 1
    /\ kpc' = [k \in Claimers |-> "idle"]
    /\ todo' = [k \in Claimers |-> {}]
    /\ busy' = [k \in Claimers |-> {}]
    /\ got' = [k \in Claimers |-> {}]
    /\ cur' = [k \in Claimers |-> Nobody]
    /\ seen' = [k \in Claimers |-> 0]
    /\ at' = [w \in Workers |-> "free"]
    /\ job' = [w \in Workers |-> Nobody]
    /\ read' = [w \in Workers |-> 0]
    /\ active' = [t \in Tasks |-> Nobody]
    /\ beat' = [w \in Workers |-> Nobody]
    /\ SweepIsOver
    /\ UNCHANGED <<setup, overtaken, rowVars, slot, starts>>

\* 90 seconds since the claim or a heartbeat.  A run has heartbeats from
\* Register on; before, it may spend 120 seconds on the repo's clone alone.
SlotExpires(t) ==
    /\ slot[t] = "fresh"
    /\ slot' = [slot EXCEPT ![t] = "stale"]
    /\ Overtake({t} \cap {u \in Tasks : UnderWay(u)})
    /\ UNCHANGED <<setup, rowVars, claimVars, runVars, ghostVars, faults>>

\* retry_after passes: half a minute or more after a row was requeued, when
\* the run that requeued it and the sweeps that saw it should have moved on.
RetryDue(t) ==
    /\ ~due[t]
    /\ due' = [due EXCEPT ![t] = TRUE]
    /\ Overtake({t} \cap {u \in Tasks : Ending(u) \/ Recovering(u)})
    /\ UNCHANGED <<setup, status, attempts, claimed, slot, claimVars, runVars, ghostVars, faults>>

\* Three minutes since claimed_at.
ClaimAges(t) ==
    /\ claimed[t] = "young"
    /\ status[t] = "running"
    /\ claimed' = [claimed EXCEPT ![t] = "old"]
    /\ UNCHANGED <<setup, overtaken, status, attempts, due, slot, claimVars, runVars, ghostVars, faults>>

ClaimerMoves(k) ==
    \/ Scan(k) \/ Evict(k) \/ ExpiredRead(k) \/ ExpiredWrite(k)
    \/ Select(k) \/ Claim(k) \/ Store(k) \/ Report(k)

RunMoves(w) ==
    \/ PreflightRefuses(w) \/ Register(w) \/ MarkRunning(w)
    \/ Completes(w) \/ Clarifies(w) \/ StoresQuestion(w) \/ FailsTransiently(w) \/ Requeues(w)
    \/ FailsForGood(w) \/ MarksFailed(w) \/ Unregister(w) \/ Release(w)
    \/ HeartbeatWrites(w)

GhostMoves == GhostsSelected \/ GhostsFound \/ GhostsCleared \/ GhostRead \/ GhostRequeued

Next ==
    \/ \E k \in Claimers : ClaimerMoves(k) \/ ExpiredThrows(k) \/ ClaimThrows(k)
    \/ Start
    \/ \E w \in Workers : \/ RunMoves(w) \/ HeartbeatReads(w)
                         \/ RefusalIgnored(w) \/ PreflightThrows(w)
                         \/ CatchThrows(w) \/ ReleaseThrows(w)
    \/ GhostMoves \/ SweepThrows
    \/ \E t \in Tasks : Cancel(t) \/ SlotExpires(t) \/ RetryDue(t) \/ ClaimAges(t)
    \/ Crash

\* The poll loop and the ghost interval keep going, statements return, and
\* time passes.  Nothing makes a route call claimBatch or a user cancel.
Fairness ==
    /\ WF_vars(ClaimerMoves(Loop) \/ Start)
    /\ WF_vars(GhostMoves)
    /\ \A w \in Workers : WF_vars(RunMoves(w))
    /\ \A t \in Tasks : /\ WF_vars(SlotExpires(t))
                        /\ WF_vars(RetryDue(t))
                        /\ WF_vars(ClaimAges(t))

Spec == Init /\ [][Next]_vars /\ Fairness

-----------------------------------------------------------------------------
(* Properties *)

Live == {w \in Workers : at[w] # "free"}

\* A task is overtaken when its slot expires, or a route evicts it, while the
\* loop has claimed or runs it; when its retry falls due before the run that
\* queued it again, or its recovery, is over; and when the loop claims it while
\* a route still handles its eviction.  The code does all of these (a clone may
\* take longer than a slot lives; POST /parallel/claim-batch evicts beside the
\* loop), and what the five properties below say of the other tasks then fails
\* of it.

\* agent-loop.ts:2060 "The Claim step ensures we won't oversubscribe": never
\* are more runs in flight than there are slots, not counting those of tasks
\* that were overtaken, although slots expire and are evicted from a snapshot,
\* a second caller claims, statements fail and the process crashes.
RunsWithinCap == Cardinality({w \in Live : job[w] \notin overtaken}) <= MaxSlots

\* parallel-executor.ts:136 "prevents double-claim races": only a task that was
\* overtaken has two runs at once, whatever the sweepers, the evictions and
\* the retries of its earlier runs do to its row.
OneRunPerTask == \A v, w \in Live : job[v] = job[w] /\ v # w => job[v] \in overtaken

\* parallel-executor.ts:134 "Git tasks have strict repo invariant": two runs
\* work on one repo only if the task of one of them was overtaken.
RepoIsExclusive ==
    \A v, w \in Live :
        Repo[job[v]] = Repo[job[w]] /\ Repo[job[v]] # NoRepo /\ v # w
            => {job[v], job[w]} \cap overtaken # {}

\* No run is free of charge: a task that was not overtaken starts at most once
\* more than its attempt count says, and never more than once after its last
\* attempt, so no lost update and no eviction lets a task that keeps crashing
\* start for ever.  handleExpiredSlot gives up at MaxAttempts and
\* requeueForRetry one later; mixed, they count to MaxAttempts + 1 and no further.
StartsAreCounted ==
    \A t \in Tasks \ overtaken : /\ starts[t] <= attempts[t] + 1
                                 /\ starts[t] <= MaxAttempts + 1
                                 /\ attempts[t] <= MaxAttempts + 1

\* What all this amounts to for those who queue tasks (TaskDispatch): batches
\* of tasks start, side by side and counted, and end, or are lost when they
\* are overtaken.
RunningView == {job[w] : w \in Live} \ overtaken
StartsView == [t \in Tasks |-> IF t \in overtaken THEN 0 ELSE starts[t]]

Promise == INSTANCE TaskDispatch WITH
    slots <- MaxSlots, repo <- Repo, running <- RunningView, starts <- StartsView,
    lost <- overtaken, MaxStarts <- MaxAttempts + 1

ImplementsDispatch == Promise!Spec

\* A slot nobody's run holds is evicted or taken over.
SlotsDrain ==
    \A t \in Tasks : slot[t] # "none" /\ RunsOn(t) = {}
                        ~> slot[t] = "none" \/ RunsOn(t) # {} \/ t \in got[Loop]

\* A crash does not strand a task that was running: it is queued again, or
\* gives up (handleExpiredSlot, recoverGhostTasks), unless it was overtaken.
GhostsAreRequeued ==
    \A t \in Tasks : status[t] = "running" /\ RunsOn(t) = {}
                        ~> status[t] # "running" \/ t \in overtaken

(* What the code says of itself and does not keep (see the README). *)

\* agent-loop.ts:1791 "Claim expired (status in 'claimed'|'running' ..): requeue
\* or fail": a task that was claimed does not stay so without a run.
ClaimsAreRecovered ==
    \A t \in Tasks : status[t] = "claimed" /\ RunsOn(t) = {}
                        ~> status[t] # "claimed" \/ RunsOn(t) # {}
=============================================================================
