----------------------------- MODULE CronDispatch -----------------------------
(***************************************************************************)
(* apps/api/src/cron-dispatch.ts: a tick reads the jobs that are due,      *)
(* fires them one after the other, and after each writes its row.  The     *)
(* SELECT takes its row locks outside a transaction, so that they are gone *)
(* when it returns; and setInterval does not wait for the last tick.  Each *)
(* Dispatcher is one line of ticks: two stand for two replicas, or for a   *)
(* tick of one process that outlasts the interval and the next.            *)
(*                                                                         *)
(* Time counts the occurrences of a recurring schedule.                    *)
(***************************************************************************)
EXTENDS Naturals, FiniteSets

CONSTANTS Jobs, Dispatchers,
          Null,       \* nextRunAt is not set; no job is being fired
          MaxTime,    \* bound on the clock
          Setups      \* what a run may start with, see SetupShape

Times == 0 .. MaxTime + 1
Runs == Times \cup {Null}

\* jobs: kind, schedule and first nextRunAt of each row; full: jobs of a
\* workspace whose queue is full, so that push throws; active: the
\* dispatchers at work; limit: MAX_JOBS_PER_TICK; faults: a bound on failed
\* statements, lost answers and deaths of a process.
SetupShape(s) ==
    /\ s.jobs \in [Jobs -> [kind : {"internal", "task", "reminder"},
                            schedule : {"once", "recurring", "invalid"},
                            next : Runs]]
    /\ s.full \subseteq Jobs
    /\ s.active \in (SUBSET Dispatchers) \ {{}}
    /\ s.limit \in Nat \ {0} /\ s.faults \in Nat

ASSUME CronAssumption ==
    /\ IsFiniteSet(Jobs) /\ IsFiniteSet(Dispatchers)
    /\ MaxTime \in Nat /\ Null \notin Nat \cup [job : Jobs, ok : BOOLEAN]
    /\ \A s \in Setups : SetupShape(s)

VARIABLES now,
          enabled, nextRun, failures,   \* columns of cron_jobs
          batch,      \* rows each tick has read and not yet handled
          seen,       \* consecutive_failures and next_run_at as it read them
          clock,      \* the tick's `now`
          doing,      \* the job fired last, whose row is still to be written
          starting,   \* rows initNextRunAt has read and not yet written
          startClock, \* its `now`
          firedFor,   \* values of next_run_at a job was fired for
          doubled,    \* jobs fired twice for one value of next_run_at
          crossed,    \* jobs read by one tick while another held them, or the
                      \* record of whose firing was lost or overwritten
          attempts,   \* times a one-shot was tried
          setup, faults

rowVars == <<enabled, nextRun, failures>>
tickVars == <<batch, seen, clock, doing>>
startVars == <<starting, startClock>>
history == <<firedFor, doubled, crossed, attempts>>
vars == <<now, rowVars, tickVars, startVars, history, setup, faults>>

Kind(j) == setup.jobs[j].kind
Schedule(j) == setup.jobs[j].schedule
OneShots == {j \in Jobs : Schedule(j) = "once"}

TypeOK ==
    /\ now \in 0 .. MaxTime
    /\ enabled \in [Jobs -> BOOLEAN]
    /\ nextRun \in [Jobs -> Runs]
    /\ failures \in [Jobs -> Nat]
    /\ batch \in [Dispatchers -> SUBSET Jobs]
    /\ seen \in [Dispatchers -> [Jobs -> [failures : Nat, next : Runs]]]
    /\ clock \in [Dispatchers -> 0 .. MaxTime]
    /\ doing \in [Dispatchers -> {Null} \cup [job : Jobs, ok : BOOLEAN]]
    /\ starting \subseteq Jobs /\ startClock \in 0 .. MaxTime
    /\ firedFor \in [Jobs -> SUBSET Runs]
    /\ doubled \subseteq Jobs /\ crossed \subseteq Jobs
    /\ attempts \in [Jobs -> Nat]
    /\ setup \in Setups
    /\ faults \in 0 .. setup.faults

Init ==
    /\ setup \in Setups
    /\ now = 0
    /\ enabled = [j \in Jobs |-> TRUE]
    /\ nextRun = [j \in Jobs |-> setup.jobs[j].next]
    /\ failures = [j \in Jobs |-> 0]
    /\ batch = [d \in Dispatchers |-> {}]
    /\ seen = [d \in Dispatchers |-> [j \in Jobs |-> [failures |-> 0, next |-> Null]]]
    /\ clock = [d \in Dispatchers |-> 0]
    /\ doing = [d \in Dispatchers |-> Null]
    \* initNextRunAt of the starting process has made its SELECT.
    /\ starting = {j \in Jobs : setup.jobs[j].next = Null}
    /\ startClock = 0
    /\ firedFor = [j \in Jobs |-> {}]
    /\ doubled = {} /\ crossed = {}
    /\ attempts = [j \in Jobs |-> 0]
    /\ faults = 0

-----------------------------------------------------------------------------

\* Mutant: the run after the next one.
NextRunButOne(j, t) == IF Schedule(j) = "recurring" THEN t + 2 ELSE Null

\* nextRunAfter
NextRunAfter(j, t) == IF Schedule(j) = "recurring" THEN t + 1 ELSE Null

Due(j) == enabled[j] /\ (nextRun[j] = Null \/ nextRun[j] <= now)

\* The tick of d has tried j and not written its row yet.
Trying(d, j) == doing[d] # Null /\ doing[d].job = j

\* The ticks that have read the row and are not done with it.
Holders(j) == {d \in Dispatchers : j \in batch[d] \/ Trying(d, j)}

Cross(jobs) == crossed' = crossed \cup jobs

Fault == faults < setup.faults /\ faults' = faults + 1
NoFault == UNCHANGED faults

Tick ==
    /\ now < MaxTime
    /\ now' = now + 1
    /\ UNCHANGED <<rowVars, tickVars, startVars, history, setup, faults>>

\* initNextRunAt writes a row it has read as uninitialised, whatever the row
\* holds by now; a schedule with no next run is passed over.
Initialises(j) ==
    /\ j \in starting
    /\ starting' = starting \ {j}
    /\ LET next == NextRunAfter(j, startClock) IN
       /\ nextRun' = [nextRun EXCEPT ![j] = IF next = Null THEN @ ELSE next]
       /\ Cross({j} \cap {i \in Jobs : next # Null /\ (nextRun[i] # Null \/ Holders(i) # {})})
    /\ UNCHANGED <<now, enabled, failures, tickVars, startClock, firedFor, doubled, attempts,
                   setup, faults>>

\* Mutant: jobs that have failed are left to the user.
UnfailedDue == {j \in Jobs : Due(j) /\ failures[j] = 0}

\* The WHERE of the SELECT.
DueJobs == {j \in Jobs : Due(j)}

\* dispatchDueJobs: the SELECT, with a LIMIT and no ORDER BY.
Select(d) ==
    LET due == DueJobs IN
    /\ d \in setup.active
    /\ batch[d] = {} /\ doing[d] = Null
    /\ \E read \in SUBSET due :
          /\ Cardinality(read) = IF Cardinality(due) < setup.limit
                                 THEN Cardinality(due) ELSE setup.limit
          /\ read # {}
          /\ batch' = [batch EXCEPT ![d] = read]
    /\ seen' = [seen EXCEPT ![d] =
                  [j \in Jobs |-> IF j \in batch'[d]
                                  THEN [failures |-> failures[j], next |-> nextRun[j]]
                                  ELSE [failures |-> 0, next |-> Null]]]
    /\ clock' = [clock EXCEPT ![d] = now]
    /\ Cross({j \in batch'[d] : Holders(j) # {}})
    /\ UNCHANGED <<now, rowVars, doing, startVars, firedFor, doubled, attempts, setup, faults>>

\* A job of INTERNAL_JOB_NAMES is not fired here; its next run moves on.
SkipsInternal(d, j) ==
    /\ j \in batch[d] /\ doing[d] = Null
    /\ Kind(j) = "internal"
    /\ batch' = [batch EXCEPT ![d] = @ \ {j}]
    /\ \/ /\ LET next == NextRunAfter(j, clock[d]) IN
             nextRun' = [nextRun EXCEPT ![j] = IF next = Null THEN @ ELSE next]
          /\ NoFault
       \/ Fault /\ UNCHANGED nextRun
    /\ UNCHANGED <<now, enabled, failures, seen, clock, doing, startVars, history, setup>>

\* The job leaves the batch with this outcome, and waits for its UPDATE.
Tried(d, j, ok) ==
    /\ j \in batch[d] /\ doing[d] = Null
    /\ batch' = [batch EXCEPT ![d] = @ \ {j}]
    /\ doing' = [doing EXCEPT ![d] = [job |-> j, ok |-> ok]]
    /\ attempts' = IF j \in OneShots THEN [attempts EXCEPT ![j] = @ + 1] ELSE attempts
    /\ UNCHANGED <<now, rowVars, seen, clock, startVars, setup>>

\* The task is in the queue, or the message delivered.
Took(d, j) ==
    LET run == seen[d][j].next IN
    /\ firedFor' = [firedFor EXCEPT ![j] = @ \cup {run}]
    /\ doubled' = IF run \in firedFor[j] THEN doubled \cup {j} ELSE doubled

Fires(d, j) ==
    /\ Kind(j) # "internal" /\ j \notin setup.full
    /\ Tried(d, j, TRUE)
    /\ Took(d, j)
    /\ UNCHANGED <<crossed, faults>>

\* A reminder that reaches nobody is a success: no channel or chat id, no
\* enabled channel, a failed lookup, or a delivery whose error
\* deliverToOriginChannel has caught and logged.
ReachesNobody(d, j) ==
    /\ Kind(j) = "reminder"
    /\ Tried(d, j, TRUE)
    /\ UNCHANGED <<firedFor, doubled, crossed, faults>>

\* push throws: the queue is full, or a statement fails, before the task is
\* inserted or after (the answer is lost).
PushThrows(d, j) ==
    /\ Kind(j) = "task"
    /\ Tried(d, j, FALSE)
    /\ \/ j \in setup.full /\ NoFault /\ UNCHANGED <<firedFor, doubled, crossed>>
       \/ j \notin setup.full /\ Fault /\ UNCHANGED <<firedFor, doubled, crossed>>
       \/ j \notin setup.full /\ Fault /\ Took(d, j) /\ Cross({j})

\* Mutant: `>` for `>=`.
GivesUpLater == 4

\* The failures after which a one-shot is given up.
GivesUpAt == 3

\* Mutant: the UPDATE writes the whole row as it was read.
EnabledAsRead(d, j, ok) ==
    j \in OneShots => ~ok /\ seen[d][j].failures + 1 < GivesUpAt

\* The enabled column after the UPDATE for this outcome.
EnabledAfter(d, j, ok) ==
    /\ enabled[j]
    /\ j \in OneShots => ~ok /\ seen[d][j].failures + 1 < GivesUpAt

\* Mutant: the next run is left as it was.
NextRunKept(d, j) == nextRun[j]

NextRunOnSuccess(d, j) == NextRunAfter(j, clock[d])

\* The UPDATE, from the failures the tick has read.  Those of a recurring job
\* only choose a warning: they are counted up to one.
Records(d) ==
    /\ doing[d] # Null
    /\ LET j == doing[d].job  ok == doing[d].ok IN
       /\ enabled' = [enabled EXCEPT ![j] = EnabledAfter(d, j, ok)]
       /\ failures' = [failures EXCEPT ![j] = IF ok THEN 0 ELSE
                          IF j \in OneShots THEN seen[d][j].failures + 1 ELSE 1]
       /\ nextRun' = [nextRun EXCEPT ![j] = IF ok THEN NextRunOnSuccess(d, j) ELSE @]
    /\ doing' = [doing EXCEPT ![d] = Null]
    /\ UNCHANGED <<now, batch, seen, clock, startVars, history, setup, faults>>

\* What goes with the tick of d: the record of a job it has fired.
Unrecorded(d) == {j \in Jobs : Trying(d, j) /\ doing[d].ok}

\* The UPDATE fails and is only logged.
RecordFails(d) ==
    /\ doing[d] # Null
    /\ Fault
    /\ Cross(Unrecorded(d))
    /\ doing' = [doing EXCEPT ![d] = Null]
    /\ UNCHANGED <<now, rowVars, batch, seen, clock, startVars, firedFor, doubled, attempts, setup>>

\* The process of the dispatcher dies in the middle of a tick.
Dies(d) ==
    /\ batch[d] # {} \/ doing[d] # Null
    /\ Fault
    /\ Cross(Unrecorded(d))
    /\ batch' = [batch EXCEPT ![d] = {}]
    /\ doing' = [doing EXCEPT ![d] = Null]
    /\ UNCHANGED <<now, rowVars, seen, clock, startVars, firedFor, doubled, attempts, setup>>

Handles(d) ==
    \E j \in Jobs : SkipsInternal(d, j) \/ Fires(d, j) \/ ReachesNobody(d, j) \/ PushThrows(d, j)

Next ==
    \/ Tick
    \/ \E j \in Jobs : Initialises(j)
    \/ \E d \in Dispatchers :
          Select(d) \/ Handles(d) \/ Records(d) \/ RecordFails(d) \/ Dies(d)

\* The interval fires again and again and a tick that was begun goes on; time
\* passes.
Fairness ==
    /\ WF_vars(Tick)
    /\ \A d \in Dispatchers : WF_vars(Select(d) \/ Handles(d)) /\ WF_vars(Records(d))

Spec == Init /\ [][Next]_vars /\ Fairness

-----------------------------------------------------------------------------
(* Properties *)

Alone == Cardinality(setup.active) = 1

\* cron-dispatch.ts:59 "Safe to call concurrently": it is for a job no two
\* ticks hold at once.  Whatever ticks overlap, statements fail and processes
\* die, a job fires twice for one value of next_run_at, a one-shot therefore
\* twice in all, only if it was crossed: read while another tick held it (the
\* locks of the SELECT are gone by then), fired without a record of it, or
\* written late by initNextRunAt.  An unparsable schedule is due at every tick.
FiresOncePerRun == \A j \in doubled : Schedule(j) = "invalid" \/ j \in crossed

\* A one-shot that fails and fails is tried three times by one line of ticks.
\* Two lines write back counts they have read earlier and undo each other's:
\* seven tries, and no more.
AttemptsAreBounded ==
    \A j \in OneShots :
        setup.faults = 0 /\ Cardinality(setup.active) <= 2
            => attempts[j] <= IF Alone THEN 3 ELSE 7

\* A retired one-shot stays retired, whatever a tick that read it earlier
\* writes back.
RetiredStaysRetired ==
    [][\A j \in OneShots : ~enabled[j] => ~enabled'[j]]_enabled

\* A one-shot that is due is retired in the end, fired or given up (or, as a
\* reminder, taken for fired though it reached nobody), unless it is one of
\* more due jobs than a tick reads.
OneShotsEnd ==
    []<>(\A j \in OneShots : Cardinality(Jobs) <= setup.limit => ~Due(j))
=============================================================================
