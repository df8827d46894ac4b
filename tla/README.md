# Plexo: a TLA+ verification project

TLA+ models of the concurrent core of Plexo, checked with TLC on small
instances, and theorems about them checked with TLAPS for every value of the
constants. Paths are relative to the repository root (`src/` in `PROJECT.json`).

To run it, in this directory:

    tlc -workers 2 -config MCSessionLease.cfg MCSessionLease   # any run of PROJECT.json
    tlapm SessionLeaseProofs.tla                               # the proofs, likewise the other *Proofs

## 1. The system

Plexo is an agent platform: an API process (Express, TypeScript) over Postgres
and Redis, with a task loop that lets language models plan and execute tasks,
and the *Session Fabric*, event-sourced sessions that runners on several
machines drive. JavaScript runs one callback at a time, so the unit of
interleaving is the stretch between two `await`s; several requests, timers and
task runs are always in flight, and a second process may share both stores.

| component | state | operations | what must be right |
|---|---|---|---|
| Session store (`apps/api/.../session-fabric.repository.ts`) | rows of `leases`, `session_events` | one SQL statement each | the unique constraint on seq and the guards of the upserts are all the atomicity there is |
| Session Fabric use cases (`packages/session-fabric/src/use-cases.ts`) | none between awaits | claim, renew, release, append | gap-free log, exclusive terms, bounded seq retries |
| Supervisor, usage (`supervisor.ts`, `usage.ts`) | none | read lease, read log, release | halts only the runner that overspent |
| Event stream (`apps/api/src/routes/sessions.ts`) | a cursor per client | poll | no event skipped |
| Plan/verify runner (`runner.ts`) | the request's loop, the log | drive, approve | no step without its approval, calls and results recorded once, lease given back |
| Parallel executor (`apps/api/src/parallel-executor.ts`) | slots in Redis | claimBatch, extendSlot, releaseSlot, eviction | cap on runs, one run per task and per repo |
| Agent loop (`apps/api/src/agent-loop.ts`) | `activeTasks`, heartbeats | poll, run of a task, sweepers, listener | tasks are recovered, attempts are counted |
| Task queue (`packages/queue`), terminal failure (`packages/agent/src/tasks`) | rows of `tasks` | complete, block, cancel, requeue, fail | as above |
| One-way-door approvals (`packages/agent/src/one-way-door.ts`), event bus | Redis records, events | request, wait, resolve, publish | nothing runs unapproved, no wait is for ever |
| Tool policy (`policy.ts`, `tiers.ts`) | none | evaluatePolicy, tierAtLeast | a step the tier does not reach waits for a human |
| Escalation manager (`packages/agent/src/escalation/manager.ts`) | rows of `escalation_requests`, waiters and timers in memory | request, approve, reject, time out, sweep, recover | the promise and the row agree, no request stays undecided |
| Extension pool and tool bridge (`packages/agent/src/plugins/persistent-pool.ts`, `bridge.ts`) | one worker entry per extension, pending calls | acquire, invoke, crash, exit, time out, terminate | no unapproved call, no repeated side effect, every call ends |
| Cron dispatch (`apps/api/src/cron-dispatch.ts`) | rows of `cron_jobs` | tick, fire, record, initialise | a job fires once per occurrence, one-shots end |
| Cost gate, fabric guards, connect client, provider router, the rest | counters, caches | see `PROJECT.json` | not modelled, section 7 |

The parts interact through the two stores (rows and Redis keys, no transaction
spans two statements), through `activeTasks` in memory, and through events of
the bus. What is hard: values read before an `await` and used after it; guards
that sit in one statement and the write they guard in another; a slot in Redis
and a row in Postgres that must agree without a transaction; crashes between
any two statements; sweepers that repair what they believe is dead; expiries
that race the work they bound; events that come twice, late or never.
`PROJECT.json` lists these hazards at their lines with the property that covers
each, or the reason why none does.

## 2. The modules

    SingleWriterLog        what a session promises (abstract)
      ^ implemented by
    SessionLease           use cases, supervisor, stream   <- SessionStore (rows, statements)
      ^ proved about in SessionLeaseProofs; instances in MCSessionLease
    SessionRunner          drive and approve over such a log
    TaskDispatch           what the poll loop promises (abstract)
      ^ implemented by
    TaskSlots              queue, slots, runs, sweepers
    TaskApproval           the planner gate
    ToolCalls              a tool call from gate to result  <- Escalation, ExtensionPool
                           (both over ToolHints)
    CronDispatch           ticks and jobs

`MCx` has the instances TLC checks of module `x`, `xProofs` its theorems
(`ExtensionPoolProofs` has lemmas that `ToolCallsProofs` uses).

**SessionStore** has the two tables (`rows`, `lease`), the clock, and one
operator per SQL statement: `ClaimWins`, `RenewWins`, `ReleaseWins` are the
`WHERE` clauses, `SeqTaken` the unique constraint, `ListEvents` the page limit.

**SessionLease** has one process per HTTP request in flight (`Calls`). `pc[c]`
is the statement the request issues next; `at[c]` the clock reading it took,
`base[c]` its maxSeq, `tries[c]` its conflicts, `reply[c]` its last answer. A
claim carries a clock reading taken before the statement, so the statement may
arrive late. An append is three steps: gate, `maxSeq`, `INSERT`. A poll of the
stream is two, and polls overlap because `setInterval` does not wait. `Usage` is
signed: the route takes any numbers for an event's cost and tokens
(`sessions.ts:128-130`), so an event may cost or refund. A request may vanish between two steps (crash).

**SingleWriterLog** is what that amounts to: admissions by the holder, each
worth one append at the end of a sequence. It deliberately does not say that
the admitted runner still holds the session when its entry is written: the code
does not guarantee it (run `single_writer`).

**SessionRunner** puts `runPlanVerify`, `driveFrom` and `resumeRun` on top of
that interface (an append is a gate step and a write step). `pc[p]` is the
await a request stands at; `plan[p]`, `idx[p]`, `approved[p]`, `attempt[p]` are
`steps`, `i`, `approvedGateStepId` and the dispatch count. `EvaluatePolicy` is
the policy: the first rule that matches a step decides, an `allow` above the
session's tier becomes a gate (`TierAtLeast`), and so does a step too long to be
matched. A drive may bring its own tier in its body, an approval resumes under
the session's; `tier[p]` is the one the request works under.

**TaskSlots** follows a task from its row through `claimBatch` (scan of slots,
eviction of expired ones, select, compare-and-set claim, slot), the run from
preflight to the `finally` block with its status writes, the heartbeat
(read, then write), retries, cancels, crashes, and `recoverGhostTasks`. Row
state is `status`, `attempts`, `due` (`retry_after`), `claimed` (`claimed_at`);
`setup` says which tasks share a repo and how many slots there are, `slot[t]` is
the Redis field, `active[t]` the entry in `activeTasks`. `starts` counts the runs
a task has had. `overtaken` has the tasks for which an expiry, or a second caller
of `claimBatch`, came before work the code counts on being over: the slot expires
while the loop has claimed or runs the task (a clone may take 120 s, a slot lives
90 s), `retry_after` passes before the run that requeued it or its recovery has
ended, a route evicts it under way, or the loop claims it while a route still
handles its eviction. All of this may happen at any time; `overtaken` only
remembers it. Nothing reads either but the properties. Two steps of the code look
like one and are not: `recoverGhostTasks` awaits its `SELECT` and looks at
`activeTasks` when it has returned (`GhostsSelected`, `GhostsFound`), and a
refusal by the cost ceiling that throws after `markTaskFailed` is caught by a block
that goes on with the run (`RefusalIgnored`).

**TaskDispatch** is what that amounts to for those who queue tasks: a batch of
tasks starts if they are compatible with those that run (slots, repos), none of
them runs, and each has a start left; runs end one by one or in a crash; a task
may be lost, and nothing is promised about it from then on. It has no rows,
expiries or sweepers. It does not say that a task which is complete or failed
never starts again: the code does not guarantee it (section 3).

**TaskApproval** is one task at the planner gate: the run that plans, asks, and
either waits or (with `OWD_RELEASE_SLOT=planner_only`) leaves a resume marker
and ends; the decision as a read and a write of the Redis record; confirm,
cancel and DELETE; the events and their listener; the sweeper's
`awaiting_approval` branch; the resume with its hash check. `vetoed` has the
approvals that cancels reject, until a run comes to wait again: with two
overlapping runs of one task and three plans, the second run may come to wait
after the cancel, put the task back to `awaiting_approval`, and be failed by the
rejection that was written for the first; the code lets it, and the property
`CancelIsNoFailure` excepts it.

**ToolHints** is what a tool declares of itself and the two decisions taken from
it (`ShouldEscalate`, `CanReplay`). **Escalation** has the row of each call,
`waiting` (the map of waiters) and `timer`. Every decision is an `UPDATE` that
looks for `pending`, and a continuation in a later step (`deciding`, `sweeping`,
`timer` won or lost), because the answers of the database to two parties come
in either order. `DecideElsewhere` and `SweepElsewhere` are the same updates by
another replica, which touch the row only. **ExtensionPool** numbers the worker
threads in the order they are spawned; `pool` is the one entry of the
extension, `on[c]` the thread a call waits for, `ran[c]` the threads it was sent
to, `busy[c]` those whose handler has not finished. `Fail` is what `execute`
does when an invocation fails: with no worker in the pool it acquires another.
A worker's crash fails the invocations on *all* workers of the extension, and
its exit removes the entry *by name*. **ToolCalls** is `execute`: gate, then
workers; the process may die.

**CronDispatch** has the rows (`enabled`, `nextRun`, `failures`) and, for each
line of ticks, what it has read (`batch`, `seen`, `clock`) and the job whose row
it still has to write (`doing`). `crossed` has the jobs two ticks held at once, or
the record of whose firing was lost or overwritten; only the properties read it. Two lines are two replicas, or a tick that
outlasts the interval and the one after it. `Initialises` is the late write of
`initNextRunAt`.

## 3. The runs

All exhaustive, with 2 workers.

| run | question | bounds, and why they are enough |
|---|---|---|
| `lease` | Is the log gap-free, are terms exclusive, does a conflict mean progress, do halts hit the right runner, is it a single-writer log; does a stream skip an event? | 2 requests, 2 runners, 3 events that cost or refund, pages of 2 events, clock to 2, TTL 1 or 2: a stale reading, an expiry between any two statements, a conflict on each append, a refund between a supervisor's read and its delete, and an event beyond the page all occur. The third event comes before the clock moves (`LongLogEarly`). 2 overlapping polls; while a poll is open only appends run beside it (`StreamBesideAppends`: a poll reads nothing but the log) |
| `single_writer` | Does only the holder append? **No.** | as `lease` |
| `runner` | Are calls permitted under the tier and the policy, logged once, outcomes complete, leases accounted for; does an approval leak into another plan; does every request end? | 2 drives whose plans share a step id and 2 approvals, of which 3 requests in all arrive (`ThreeRequests`): plans that pause twice or are denied after an approval, drives with a tier of their own, 2 dispatch attempts as in the code |
| `decided_once` | Is a step decided once? **No.** | 1 drive, 2 approvals |
| `task_slots` | Are there never more runs than slots; one run per repo and per task; do starts cost attempts; is it TaskDispatch? | 2 tasks: they compete for 1 slot, share a repo with 2 slots, or share nothing with 2 slots (so that one task would have room to run twice). Nine instances divide the rest (`Contended`, `WithinInstance`): the sweep, heartbeats and cancels beside the loop; a route as a second caller; a crash (`OneFaultIsACrash`); a task that is overtaken while the other must still be served as promised; and one task alone with everything and two faults, so that a statement of a sweep may fail after a crash. `MaxAttempts` 1, so that eviction and retry, which give up one apart, both reach their limit |
| `task_recovery` | Do slots drain, are stranded runs recovered? | 1 task, 2 slots, a second caller of `claimBatch`, `MaxAttempts` 2, 1 fault, in behaviours that overtake no task (`NeverOvertaken`; the steps that would overtake one stay enabled, so no action waits for the bound) |
| `task_claim_lost` | Is a claimed task recovered? **No.** | 1 task, 1 slot, 1 fault |
| `approval` | Nothing runs without an approval of its own plan; a cancel stays a cancel; no wait is for ever? | 2 plans of the task, 2 overlapping runs, one deciding and one cancelling user, both modes, 1 fault |
| `tool_calls` | Does a call's promise agree with its row; is nothing unapproved run, no side effect repeated, no abandoned worker reused; are requests decided; do calls end? | 2 calls: both at the gate with a failing statement and a death of the process; both at the workers, none, one or both replayable, with 2 crashes, terminations or failed activations; one irreversible and one not. A call spawns at most 2 workers, so 5 threads are all there can be |
| `escalation_settles` | Does a promise settle when its row is decided? **No.** | 1 escalated call, no fault |
| `cron` | Does a job that no two ticks held fire once per occurrence, how often is a failing one tried, do one-shots end? | 2 jobs (one-shot, recurring, internal, reminder, unparsable schedule, a full queue) under 1 line of ticks, under 2, and with 1 or 2 faults; 3 instants; a tick that reads fewer jobs than are due |
| `plan_hash` | Is a resume refused only for a modified plan? **No.** | 1 plan, no fault |

`CHECK_DEADLOCK FALSE` stands where a model ends by design: requests that have
ended (SessionRunner), a task in a final status (TaskApproval). Symmetry is
used in safety-only instances and where no action names an element.

### What does not hold

* **An append can land in another runner's term** (`single_writer`). The lease
  is checked once, then `maxSeq` and `INSERT` are statements of their own
  (`use-cases.ts:217-247`), while line 206 promises that only the active holder
  appends. The log stays a single-writer log in the weaker sense of
  SingleWriterLog.
* **A step can be decided and executed twice** (`decided_once`). Two approvals
  by one runner both read the log before either writes (`runner.ts:304-355`);
  the claim of the same runner always wins. Line 294 promises idempotence.
* **A claimed task can be lost** (`task_claim_lost`). A crash between claim and
  start leaves `claimed`; no sweeper looks at it because `claimBatch` does not
  set `claimed_until` (`parallel-executor.ts:139`, `agent-loop.ts:1791-1806`).
* **Every resume in `planner_only` mode is refused** (`plan_hash`). The hash is
  taken of the planner's object and compared with that of the row, but
  `tasks.plan` is `jsonb`, which orders keys its own way
  (`agent-loop.ts:855-859`, `1134`, `schema.ts:350`). The refusal also hides a
  second problem: the listener requeues by task and not by approval, so a late
  approval of an earlier plan resumes a task that waits for another. The mutant
  of `approval` that resumes without the hash check shows that execution.

* **A tool call can wait for ever at the escalation gate** (`escalation_settles`).
  `handleTimeout` drops the waiter without resolving it when the row is already
  decided (`manager.ts:168-175`); that is so after a decision by another
  replica, and after one made here whose continuation the timer overtakes.
  Lines 8-10 promise that the promise resolves. `ForgottenWereDecided` says that
  this is all that is lost: the row of such a call was decided.

More of what the code says of itself and does not keep, in the models and without
a run that expects a violation:

* Two ticks fire one cron job twice, in spite of `FOR UPDATE SKIP LOCKED` outside a
  transaction; `cron-dispatch.ts:59-68` and `cron-dispatch-concurrency.test.ts:8-11`
  say they cannot. `FiresOncePerRun` says which jobs that happens to, those that
  are `crossed`, and that it happens to no others.
* A reminder that reaches nobody is recorded as a success and retired, because
  `deliverToOriginChannel` catches what a delivery throws (`ReachesNobody`). The
  comment at `cron-dispatch.ts:209-211` and `cron-dispatch-reminders.test.ts:13-14`
  and `218-262` expect a failure and three tries; the test replaces that function
  by one that throws. `OneShotsEnd` counts such a reminder as ended.
* A clone may take 120 s and a slot lives 90 s without a heartbeat
  (`agent-loop.ts:679`): the task is then overtaken and the slots of
  `parallel-executor.ts`, its strict repo invariant (line 134) included, do not
  hold for it. The properties of TaskSlots say that they hold for all the others.
* A complete task comes back: when a run completes and unregisters between the
  `SELECT` of `recoverGhostTasks` and its look at `activeTasks`
  (`agent-loop.ts:1936-1942`), the requeue, which does not look at the row, queues
  it again. A failed one is run on when a refusal by the cost ceiling throws late
  (lines 518-544).
* A crash and then a failing sweep, two faults, strand a running row: `claimed_at`
  is cleared before the requeue (line 1947) and no sweep finds the row again.

Seen while modelling, part of the models and stated by a property that holds:
two lines of ticks try a failing one-shot up to seven times instead of three
(`AttemptsAreBounded`); the late write of `initNextRunAt` can set a job's next run
back; a crash of one worker fails the calls on another, whose handlers go on
unobserved, though never in a worker that serves new calls
(`AbandonedAreOutOfPool`); two calls that find no worker spawn one each, and the
second takes the place of the first in the pool of "ONE persistent Worker per
enabled extension" (`persistent-pool.ts:7`); a call in flight respawns the
worker of an extension that was just disabled.

Seen while modelling, part of the models, without a run of their own: a losing
claim whose holder released in between answers 500 (`toLease(held!)`); usage and
resume see the first 1000 events only; a plan that repeats a step id lets one
approval pass both; a run halted during a model call claims its lease back; a
supervisor halts a runner although a refund brought usage back under the budget
before its delete; unguarded status writes undo a cancel; a rejected approval and a
granted one may both be reported as successful.

`POST /parallel/claim-batch` makes a second caller of `claimBatch`, and what it does
to the loop's tasks is one of the ways to be overtaken. It deletes the stale slot
of an earlier run of a task, and before it gets to `handleExpiredSlot`
(`parallel-executor.ts:93-96`) the loop claims the task, stores a new slot and starts a run; `handleExpiredSlot` then reads the row of that run,
`running`, and requeues it (lines 42-78), and after `retry_after` the next claim
runs the task beside itself. "Atomic CAS" (line 136) prevents double claims of a
row, not this. With every expiry in time, and without the exception for overtaken
tasks, TLC finds this execution as a violation of `OneRunPerTask`: one task, two slots, no fault, `MaxAttempts = 3`.

## 4. Fairness

* SessionLease has none; everything checked of it is safety.
* SessionRunner: weak fairness of each request's own progress. An `await` on a
  statement or a backend call returns or throws; nobody has to approve, expire
  or crash.
* TaskSlots: weak fairness of the poll loop (it and its claim are one sequential
  process on a timer), of the ghost sweeper (an interval), of each run, and of
  time (a TTL, `retry_after`, three minutes). None of faults, cancels, routes.
* ToolCalls: weak fairness of continuations (the database answers), of time and
  of timers (`setTimeout`), of activations, which succeed, fail or time out, and
  of the sweeper (`setInterval` in whichever process is alive). Nobody has to
  decide, no tool has to answer.
* CronDispatch: weak fairness of time, of the interval and of a tick that was
  begun. Deaths and failures are bounded by `faults`.
* TaskApproval: weak fairness of the stale sweeper only, as one sequential
  process. Decisions, events, and even runs need not come.

## 5. What is proved

Each module of proofs holds for every value of the constants its module's named
assumption allows (`StoreAssumption`, `LeaseAssumption`, `RunnerAssumption`,
`ApprovalAssumption`, `CronAssumption`, ...): any number of requests, runners,
polls, plans, tools, jobs and faults. The assumptions say that numbers are
numbers, that plans and policies are sequences, that a "no value" is no value,
and that tasks, runs in flight, calls and lines of ticks are finitely many. The
bounds of the runs are constants like the others. Every state invariant and every
action property that a run checks is stated by one of these theorems.

| module | theorem | what it says |
|---|---|---|
| `SessionLeaseProofs` | `Invariance` | the inductive invariant `IInv` |
| | `Typing` | `TypeOK` |
| | `GapFreeLog` | the log reads 1..n, no seq twice |
| | `StreamIsComplete` | a stream has sent exactly what is below its cursor |
| | `ConflictsAreProgress` | conflicts are other requests' successes |
| | `ActiveTermsAreExclusive` | a running term is not taken by another runner |
| | `HaltsHitTheRunaway` | a halt takes the lease of the runner it saw, on a page that was over budget since |
| | `LogRefinement` | SessionLease implements SingleWriterLog |
| `SessionRunnerProofs` | `Typing` | `TypeOK`; no request stands outside its plan |
| | `Accounting` | every regular end gives the lease back (`LeaseIsAccountedFor`) |
| | `Coverage` | an outcome covers its plan (`OutcomeCoversPlan`) |
| | `Permission` | if plans name each step once: `ToolCallsArePermitted` |
| | `ExactlyOnce` | `DispatchesAreLogged`, for any number of attempts |
| `TaskSlotsProofs` | `Typing` | `TypeOK` |
| | `OneRunPerTaskAlways` | only an overtaken task has two runs (`OneRunPerTask`) |
| | `RunsWithinCapAlways` | the others keep to the slots (`RunsWithinCap`) |
| | `RepoIsExclusiveAlways` | and to their repos (`RepoIsExclusive`) |
| | `StartsAreCountedAlways` | their starts are paid for (`StartsAreCounted`) |
| | `DispatchRefinement` | TaskSlots implements TaskDispatch |
| `TaskApprovalProofs` | `Typing` | `TypeOK` |
| | `ConsentBeforeExecution` | `ApprovedBeforeExecution` |
| | `CancelsStand` | `CancelIsNoFailure` |
| `ToolCallsProofs` | `Typing` | `TypeOK`: there are threads enough |
| | `Consistency` | a promise agrees with its row (`AnswersMatchRows`) |
| | `NobodyIsForgottenUndecided` | `ForgottenWereDecided` |
| | `DecisionsAreFinal` | `RowsAreFinal` |
| | `ConsentBeforeRun` | `ApprovedBeforeRun` |
| | `SideEffectsOnce` | `EffectsHappenOnce` |
| | `AbandonedStayOut` | `AbandonedAreOutOfPool` |
| `CronDispatchProofs` | `Typing` | `TypeOK` |
| | `Retirement` | `RetiredStaysRetired` |
| | `FiresOnce` | `FiresOncePerRun`, for any overlapping ticks and faults |
| | `TriesAreBounded` | `AttemptsAreBounded`: 3 tries by one line, 7 by two |

**SessionLease.** `IInv` is `TypeOK`, the shape of the log (`LogOK`), what each
request may rely on between two statements (`CallOK`), and the stream
(`StreamOK`). It is needed because none of the properties is inductive alone:
that an insert does not leave a hole needs `base[c] <= LogLength` for a maxSeq
that may be stale (`InsertAppends`: an insert the constraint lets through must
be at the end); that a stream skips nothing needs, for every open poll, that
what its page lacks was sent by another; that a halt is justified needs that the
log grows at its end only, so that the page a supervisor was given stays one the log
has had (`PageIsHistory`), although its sum may have changed since (`OverSince`). The
step case has a lemma per kind of statement: typing (`CallStepTyped`), what a
request's step leaves of the others (`OthersKeep`), its own promise
(`CallStepKeeps`), the stream (`PollStep`). The two action properties use
`IInv` before the step. For the refinement, each statement maps to an admission
(the gate), a write (a successful insert), the end of an admission, a change of
hands, or a stutter.

**SessionRunner.** `Shape` is typing with the phases of a request: at a step of
its plan, or with all of them done. `Accounting` needs no more: only `Released`
takes a request to a regular end, and it frees the lease if that is its
runner's. The two properties about calls and outcomes need what the *log* says
(`EntryOK`: of the request that wrote an entry, by what was written before it)
and what it says when a request is about to write (`RequestOK`); both are stated
with prefixes of the log and so survive whatever other requests append
(`Grows`, `KnownStays`). The delicate step is the approval that reads the log
(`ResumeReads`): because it finds exactly one plan, whoever asked for the
approval did so under that plan, with all earlier steps done. A drive that logs
a second plan later does no harm. A step denied under the approving tier was
denied under the asking tier too (`DenialIsForAll`), which is why a step that
asked and was approved is not denied; that argument identifies the step by its
id, hence the premise `DistinctIds`. `CountInv` is for `ExactlyOnce`: all calls and
results a request has in the log are of steps before its index, but for the call
it is answering.

**TaskSlots.** Nothing in the code ties a slot, a row and a run together; `IInv`
says what does. `Holds(w, t)` is what a run has of a task that was not overtaken: a
fresh slot until it releases it, the registration while it is registered, a row that
is running only while it is under way and queued only behind its own retry, before
`retry_after`, no eviction, and no sweep holding the task, once it has looked at
`activeTasks`, but when the run is about to release. `BatchOK` protects what the loop has
selected and claimed but not stored or started: a claimed task has its slot, its row
is neither queued nor running, no sweep or eviction holds it. `GhostOK` says that a
task a sweep has found is not claimable before the sweep has written its row. From this
`OneRunPerTask` is inductive. There is no premise on durations or on who calls
`claimBatch`: each of these conjuncts excepts the tasks in `overtaken`, and the proof
shows that only the steps which put a task there break them, for that task. Evictions
by the loop put no task there (`WhatTheLoopEvicts`): what the loop evicts it does not
run, or the slot had expired under it before. The cap and repo exclusivity (`Fits`) need the batch too: what was
busy at the scan and what was claimed since never exceed the slots, and no two of
them share a repo (`BatchFits`); the step that uses it is `Start`, where every
run in flight turns out to hold a slot the scan had found. `Counted` is about
lost updates of `attempt_count`: whoever has read a count and will write it pays
for the latest start with what it read (`ReadPays`, `EvictionPays`, `SweepPays`),
and the one attempt that eviction counts beyond the retry's last is of a task that
nobody runs or has claimed (`GivenUp`).

For the refinement `Quiet`, `Ends1` and `Loses` are the three things a step may
amount to, besides `Start` and `Crash`, and each kind of step has a lemma. `Start` is
where `Fits` and `Counted` are needed: the whole batch is compatible with every run
in flight, those of lost tasks not counted, and each of its tasks has a start left.

**TaskApproval.** `Inv` has for each run what it was granted (`RunOK`), for each
record that it reads as approved only if somebody granted it, and for a task one
of whose approvals a cancel rejects that it is not waiting (`RecordsOK`).
`KeysOK` says that a plan read from the row has the keys in the order of `jsonb`
and a marker's hash is of a plan in memory. So no resume gets past the hash
check, and what `ConsentBeforeExecution` shows of execution it shows of runs that
waited; with the check repaired the theorem would have to be proved anew, and
the mutant that skips the check shows that it would then fail.

**ToolCalls.** `GateInv` says what a timer, a sweep and a decision that is under
way know of their row; it makes the order of their continuations irrelevant.
`CallInv` says that a call which reached the workers left the gate as it should,
and that one which may not be replayed was sent to one of them at most. Type
correctness is not obvious here: workers are numbered in the order they are
spawned, so that they are numbers at all means that calls never spawn more than
two workers each and one to start with. `PoolInv` (ExtensionPoolProofs) has it as
a budget: the threads left pay for what the calls that are still at the gate or
have one more to spawn may ask for. `PoolOK` says that a handler left behind runs
on a worker outside the pool, also while its call is at its second worker
(`rerunning`), which is what `AbandonedStayOut` needs one step later.

**CronDispatch.** `FiresOnce` rests on `LineInv`, for each job that is not crossed:
one tick at most has read its row, and the row is as it read it (`ReadIsFresh`);
what was fired is before the run in the row, or before the one that the tick which
fired it will write (`FiredIsPast`). Steps of other ticks and for other jobs leave
it alone (`Elsewhere`). `TriesAreBounded` rests on `TryInv`,
which adds to the tries that were made those of rows already read (`Coming`) and
the reads that can still follow (`LeftToOne`, `LeftToTwo`). The latter are a
table: two lines of ticks write back counts they have read earlier and undo each
other's, so what is left depends on the count in the row, on who holds a read of
it, and on which count was read. It starts at seven and no step raises the sum;
TLC checked the table before it was proved, and finds executions of `cron` with
all seven tries.

Only model-checked: liveness under fairness (`RequestsEnd`, `SlotsDrain`,
`GhostsAreRequeued`, `WaitsEnd`, `RowsAreDecided`, `CallsEnd`, `OneShotsEnd`),
which is out of the prover's reach. The runs that expect a violation stay with
TLC as well.

## 6. Abstractions

*Sessions.* One session. The wall clock does not go back. An event's body costs one
(`costly`) or takes one off (`refund`), usage is their difference on one page. In SessionRunner the end of a term comes
at any moment, the clock reading and the gate are one step, the replay's page
limit is left out; which actions a rule matches is a set of tools per rule.
A closed stream is one that polls no more.

*Tasks.* Any order of the queue (priorities, LIMIT 20). `expiresAt` is computed
per batch; here a slot expires some time after it was stored. The abort signal
only makes a run end, which it may anyway. Not modelled: corrupted slot values,
operator overrides (`/parallel/release`, `/clear`), the retry route (it pushes a
new task), `cleanupStaleTasks` but for approvals. One API process runs the loop.
Every expiry may come at any time; `overtaken` remembers for which tasks it came
before work the code counts on being over (section 2), and `MaxOvertaken` bounds how
many there are in a run. The theorems have no bound but finiteness.

*Approvals.* A plan is named by the approval its run asks for. A claim and the
start of its run are one step (TaskSlots has them apart). A task may have any
age, so the sweeper may find it any time. At most two deliveries of one decision
are in flight. A pending record may expire; that a decided one does too is left
out, because a run may miss a decision anyway (`WaitEnds`). Left out: plans that need no approval, the gate inside the
executor, the approval guard of tools.

*Tool calls.* One extension, whose calls are independent but for its workers.
Calls past the gate have no identity beyond their hints. A call that has its
decision goes on in a step of its own, where the code goes on at once: more
interleavings, not fewer. A thread that answers after it was told to stop may
still be heard. What an extension calls back into the host, its event
subscriptions and the audit log are left out. A timer of an invocation may fire
at any moment.

*Cron.* Time is counted in occurrences of a recurring schedule. The failure
count of a recurring job, which only chooses a warning, stops at one. Internal
jobs move on their row; their work is elsewhere.

Names of the models: `MaxTime`, `MaxRows` (SessionLease), `Workers`, `MaxFaults`
(TaskSlots, TaskApproval), `MaxOvertaken` (TaskSlots), `MaxIds`, `Deciders`, `Cancellers` (TaskApproval),
`MaxTime`, `faults` (CronDispatch), `gateFaults`, `poolFaults`, `restarts`
(ToolCalls) are bounds; every other constant is a parameter of the code.

## 7. Not modelled, and what could come next

The planner, the executor and the judge are prompts, tools and the
interpretation of what a model returns; memory and behaviour are searches and
scores; the front ends, the federation and most routes read or write one row per
request; the Inngest functions keep their state in an external engine. They have
little control that a model checker could tell apart from its data. These could
be modelled:

1. `CostGate` (`packages/agent/src/cost-gate.ts`): a counter seeded by `SET` from
   a sum read before, behind two caches. Its ceiling is advisory, so the
   question is how far over it a workspace gets.
2. The guards of the Session Fabric (tokens, grants, kill switch) in front of the
   requests of SessionRunner. Each is one read, and a drive under way takes no
   note of what changes after it.
3. Claim and start in TaskApproval as a use of `TaskDispatch`, which would join
   the two models of a task's life.
4. The fallback chains of the provider router and the reconnect of the SDK
   client.

Theorems still worth proving: what is left of `StartsAreCounted` for a task that was
overtaken (a bound on the starts per attempt, once TLC knows which); the
answers of the escalation gate as a refinement of a request that is decided once;
the refinement of `TaskDispatch` by TaskApproval.
