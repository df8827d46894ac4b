--------------------------- MODULE TaskSlotsProofs ---------------------------
(***************************************************************************)
(* Proofs about TaskSlots for any tasks, routes, slots, repos, attempts    *)
(* and faults.  Whatever expires early and whoever calls claimBatch, the   *)
(* loop keeps its promises about every task that was not overtaken.        *)
(***************************************************************************)
EXTENDS TaskSlots, FiniteSetTheorems, TLAPS

-----------------------------------------------------------------------------
(* Types *)

\* A run that is under way has a task, and so has a caller of handleExpiredSlot.
Typed ==
    /\ TypeOK
    /\ \A w \in Workers : at[w] # "free" => job[w] \in Tasks
    /\ \A k \in Claimers : kpc[k] \in {"expiredRead", "expiredWrite", "store"} => cur[k] \in Tasks
    /\ gpc = "write" => gcur \in Tasks

RowOK ==
    /\ status \in [Tasks -> Statuses]
    /\ attempts \in [Tasks -> Nat]
    /\ due \in [Tasks -> BOOLEAN]
    /\ claimed \in [Tasks -> {"null", "young", "old"}]

\* What else may happen to a run: a statement of its own fails.
Faults(w) ==
    RefusalIgnored(w) \/ PreflightThrows(w) \/ CatchThrows(w) \/ ReleaseThrows(w)

LEMMA RowTyped ==
    ASSUME RowOK, NEW t \in Tasks, NEW s \in Statuses, NEW n \in Nat, NEW d \in BOOLEAN,
           NEW c \in {"null", "young", "old"}, Row(t, s, n, d, c)
    PROVE  RowOK'
BY DEF RowOK, Row

LEMMA StatusTyped ==
    ASSUME RowOK, NEW t \in Tasks, NEW s \in Statuses, NEW c \in {"null", "young", "old"},
           SetStatus(t, s, c)
    PROVE  RowOK'
<1>1. attempts[t] \in Nat /\ due[t] \in BOOLEAN
  BY DEF RowOK
<1>2. QED BY <1>1, RowTyped DEF SetStatus

LEMMA RequeueTyped ==
    ASSUME RowOK, NEW t \in Tasks, NEW n \in Nat, Requeue(t, n)
    PROVE  RowOK'
<1>1. n + 1 \in Nat /\ FALSE \in BOOLEAN /\ {"failed", "queued"} \subseteq Statuses
  BY DEF Statuses
<1>2. SetStatus(t, "failed", "null") \/ Row(t, "queued", n + 1, FALSE, "null")
  BY DEF Requeue
<1>3. QED BY <1>1, <1>2, RowTyped, StatusTyped

CallsOK ==
    /\ kpc \in [Claimers -> {"idle", "evict", "expiredRead", "expiredWrite", "claim", "store"}]
    /\ todo \in [Claimers -> SUBSET Tasks]
    /\ busy \in [Claimers -> SUBSET Tasks]
    /\ got \in [Claimers -> SUBSET Tasks]
    /\ cur \in [Claimers -> Tasks \cup {Nobody}]
    /\ seen \in [Claimers -> Nat]
    /\ \A k \in Claimers : kpc[k] \in {"expiredRead", "expiredWrite", "store"} => cur[k] \in Tasks

LEMMA ReturnTyped ==
    ASSUME CallsOK, NEW k \in Claimers, Return(k)
    PROVE  CallsOK'
BY DEF CallsOK, Return

LEMMA ClaimersTyped ==
    ASSUME Typed, NEW k \in Claimers, ClaimerMoves(k) \/ ExpiredThrows(k) \/ ClaimThrows(k)
    PROVE  Typed'
<1> USE DEF Typed, TypeOK, runVars, ghostVars
<1>1. CASE Scan(k)
  BY <1>1 DEF Scan, rowVars
<1>2. CASE Evict(k)
  <2>1. PICK t \in todo[k] :
            /\ slot' = [slot EXCEPT ![t] = "none"]
            /\ todo' = [todo EXCEPT ![k] = @ \ {t}]
            /\ cur' = [cur EXCEPT ![k] = t]
            /\ Overtake({t} \cap {u \in Tasks : k # Loop /\ UnderWay(u)})
    BY <1>2 DEF Evict
  <2>2. t \in Tasks /\ overtaken' \subseteq Tasks
    BY <2>1 DEF Overtake
  <2>3. QED BY <1>2, <2>1, <2>2 DEF Evict, rowVars
<1>3. CASE ExpiredRead(k)
  BY <1>3 DEF ExpiredRead, rowVars
<1>4. CASE ExpiredWrite(k)
  <2>1. RowOK'
    <3>1. cur[k] \in Tasks /\ seen[k] + 1 \in Nat /\ {"blocked", "queued"} \subseteq Statuses
      BY <1>4 DEF ExpiredWrite, Statuses
    <3>2. \/ Row(cur[k], "blocked", seen[k] + 1, TRUE, "null")
          \/ Row(cur[k], "queued", seen[k] + 1, FALSE, "null")
          \/ UNCHANGED rowVars
      BY <1>4 DEF ExpiredWrite
    <3>3. RowOK
      BY DEF RowOK
    <3>4. CASE UNCHANGED rowVars
      BY <3>3, <3>4 DEF RowOK, rowVars
    <3>5. QED BY <3>1, <3>2, <3>3, <3>4, RowTyped
  <2>2. QED BY <1>4, <2>1 DEF RowOK, ExpiredWrite
<1>5. CASE Select(k)
  <2>1. CallsOK
    BY DEF CallsOK
  <2>2. CallsOK'
    <3>1. CASE Return(k)
      BY <2>1, <3>1, ReturnTyped
    <3>2. CASE /\ kpc' = [kpc EXCEPT ![k] = "claim"]
               /\ todo' = [todo EXCEPT ![k] = {t \in Tasks : status[t] = "queued" /\ due[t]}]
               /\ UNCHANGED <<busy, got, cur, seen>>
      BY <2>1, <3>2 DEF CallsOK
    <3>3. QED BY <1>5, <3>1, <3>2 DEF Select
  <2>3. QED BY <1>5, <2>2 DEF Select, CallsOK, rowVars
<1>6. CASE Claim(k)
  <2>1. PICK t \in todo[k] :
            /\ todo' = [todo EXCEPT ![k] = @ \ {t}]
            /\ IF status[t] = "queued"
               THEN /\ SetStatus(t, "claimed", "young")
                    /\ got' = [got EXCEPT ![k] = @ \cup {t}]
                    /\ cur' = [cur EXCEPT ![k] = t]
                    /\ kpc' = [kpc EXCEPT ![k] = "store"]
               ELSE UNCHANGED <<rowVars, got, cur, kpc>>
    BY <1>6 DEF Claim, Candidates
  <2>2. t \in Tasks /\ RowOK
    BY DEF RowOK
  <2>3. RowOK'
    BY <2>1, <2>2, StatusTyped DEF RowOK, rowVars, Statuses
  <2>4. CallsOK'
    <3>1. CallsOK
      BY DEF CallsOK
    <3>2. UNCHANGED <<busy, seen>>
      BY <1>6 DEF Claim
    <3>3. CASE status[t] = "queued"
      <4>1. /\ todo' = [todo EXCEPT ![k] = @ \ {t}]
            /\ got' = [got EXCEPT ![k] = @ \cup {t}]
            /\ cur' = [cur EXCEPT ![k] = t]
            /\ kpc' = [kpc EXCEPT ![k] = "store"]
        BY <2>1, <3>3
      <4>2. QED BY <2>2, <3>1, <3>2, <4>1 DEF CallsOK
    <3>4. CASE status[t] # "queued"
      BY <2>1, <2>2, <3>1, <3>2, <3>4 DEF CallsOK
    <3>5. QED BY <3>3, <3>4
  <2>5. overtaken' \subseteq Tasks
    BY <1>6 DEF Claim, Overtake
  <2>6. UNCHANGED <<setup, slot, busy, seen, runVars, ghostVars, faults>>
    BY <1>6 DEF Claim
  <2>7. QED BY <2>3, <2>4, <2>5, <2>6 DEF RowOK, CallsOK
<1>7. CASE Store(k)
  BY <1>7 DEF Store, rowVars
<1>8. CASE Report(k)
  BY <1>8 DEF Report, Return, rowVars
<1>9. CASE ExpiredThrows(k)
  BY <1>9, SlotsAssumption DEF ExpiredThrows, rowVars
<1>10. CASE ClaimThrows(k)
  BY <1>10, SlotsAssumption DEF ClaimThrows, Return, rowVars
<1>11. QED BY <1>1, <1>2, <1>3, <1>4, <1>5, <1>6, <1>7, <1>8, <1>9, <1>10 DEF ClaimerMoves

LEMMA StartTyped ==
    ASSUME Typed, Start
    PROVE  Typed'
BY SlotsAssumption DEF Typed, TypeOK, Start, Return, rowVars, ghostVars, Claimers

LEMMA RunsTyped ==
    ASSUME Typed, NEW w \in Workers,
           RunMoves(w) \/ HeartbeatReads(w) \/ Faults(w)
    PROVE  Typed'
<1> USE DEF Typed, TypeOK, claimVars, ghostVars, RunGoes
<1>1. CASE PreflightRefuses(w) \/ MarkRunning(w) \/ MarksFailed(w) \/ Completes(w) \/ Clarifies(w)
  <2>1. RowOK'
    BY <1>1, StatusTyped DEF RowOK, PreflightRefuses, MarkRunning, MarksFailed, Completes,
                             Clarifies, Ends, Statuses
  <2>2. /\ at[w] # "free"
        /\ \E where \in {"refused", "work", "finish", "ask"} : at' = [at EXCEPT ![w] = where]
        /\ UNCHANGED <<setup, overtaken, slot, claimVars, job, read, active, beat, starts,
                       ghostVars, faults>>
    BY <1>1 DEF PreflightRefuses, MarkRunning, MarksFailed, Completes, Clarifies, Ends
  <2>3. QED BY <2>1, <2>2 DEF RowOK
<1>2. CASE Requeues(w)
  <2>1. RowOK'
    BY <1>2, RequeueTyped DEF RowOK, Requeues
  <2>2. QED BY <1>2, <2>1 DEF RowOK, Requeues
<1>3. CASE Register(w) \/ Unregister(w)
  <2>1. /\ at' \in [Workers -> {"free", "preflight", "refused", "clone", "start", "work", "ask",
                                "retry", "fail", "finish", "release"}]
        /\ active' \in [Tasks -> Workers \cup {Nobody}]
        /\ \A v \in Workers : at'[v] # "free" => job[v] \in Tasks
    BY <1>3 DEF Register, Unregister
  <2>2. QED BY <1>3, <2>1 DEF Register, Unregister, rowVars
<1>4. CASE StoresQuestion(w) \/ FailsTransiently(w) \/ FailsForGood(w)
  BY <1>4 DEF StoresQuestion, FailsTransiently, FailsForGood, Tried, rowVars
<1>5. CASE Release(w)
  BY <1>5 DEF Release, rowVars
<1>6. CASE HeartbeatReads(w) \/ HeartbeatWrites(w)
  BY <1>6 DEF HeartbeatReads, HeartbeatWrites, Tried, rowVars
<1>7. CASE PreflightThrows(w) \/ CatchThrows(w) \/ ReleaseThrows(w)
  BY <1>7, SlotsAssumption DEF PreflightThrows, CatchThrows, ReleaseThrows, rowVars
<1>8. CASE RefusalIgnored(w)
  BY <1>8, SlotsAssumption DEF RefusalIgnored, rowVars
<1>9. QED BY <1>1, <1>2, <1>3, <1>4, <1>5, <1>6, <1>7, <1>8 DEF RunMoves, Faults

LEMMA SweepTyped ==
    ASSUME Typed, GhostMoves \/ SweepThrows
    PROVE  Typed'
<1> USE DEF Typed, TypeOK, claimVars, runVars
<1>1. CASE GhostsSelected \/ GhostsFound
  BY <1>1 DEF GhostsSelected, GhostsFound, rowVars
<1>2. CASE GhostsCleared
  BY <1>2 DEF GhostsCleared
<1>3. CASE GhostRead
  BY <1>3 DEF GhostRead, rowVars
<1>4. CASE GhostRequeued
  <2>1. RowOK'
    BY <1>4, RequeueTyped DEF RowOK, GhostRequeued
  <2>2. QED BY <1>4, <2>1 DEF RowOK, GhostRequeued
<1>5. CASE SweepThrows
  BY <1>5, SlotsAssumption DEF SweepThrows, SweepIsOver, rowVars
<1>6. QED BY <1>1, <1>2, <1>3, <1>4, <1>5 DEF GhostMoves

LEMMA WorldTyped ==
    ASSUME Typed,
           \/ \E t \in Tasks : Cancel(t) \/ SlotExpires(t) \/ RetryDue(t) \/ ClaimAges(t)
           \/ Crash
           \/ UNCHANGED vars
    PROVE  Typed'
<1> USE DEF Typed, TypeOK
<1>1. ASSUME NEW t \in Tasks, Cancel(t) PROVE Typed'
  <2>1. RowOK'
    BY <1>1, RowTyped DEF RowOK, Cancel, Statuses
  <2>2. QED BY <1>1, <2>1 DEF RowOK, Cancel, claimVars, runVars, ghostVars
<1>2. ASSUME NEW t \in Tasks, SlotExpires(t) \/ RetryDue(t) \/ ClaimAges(t) PROVE Typed'
  <2>1. CASE SlotExpires(t)
    BY <2>1 DEF SlotExpires, Overtake, rowVars, claimVars, runVars, ghostVars
  <2>2. CASE RetryDue(t)
    BY <2>2 DEF RetryDue, Overtake, claimVars, runVars, ghostVars
  <2>3. CASE ClaimAges(t)
    BY <2>3 DEF ClaimAges, claimVars, runVars, ghostVars
  <2>4. QED BY <1>2, <2>1, <2>2, <2>3
<1>3. CASE Crash
  BY <1>3, SlotsAssumption DEF Crash, SweepIsOver, rowVars
<1>4. CASE UNCHANGED vars
  BY <1>4 DEF vars, rowVars, claimVars, runVars, ghostVars
<1>5. QED BY <1>1, <1>2, <1>3, <1>4

LEMMA Typing0 == Spec => []Typed
<1>1. Init => Typed
  BY SlotsAssumption DEF Init, Typed, TypeOK, Statuses
<1>2. Typed /\ [Next]_vars => Typed'
  BY ClaimersTyped, StartTyped, RunsTyped, SweepTyped, WorldTyped DEF Next, Faults
<1>3. QED BY <1>1, <1>2, PTL DEF Spec

\* The variables keep their types whatever is overtaken, and whoever calls
\* claimBatch.
THEOREM Typing == Spec => []TypeOK
BY Typing0, PTL DEF Typed


-----------------------------------------------------------------------------
(* What the runs, the batch and the sweep hold *)

\* The phases in which activeTasks has the run.
Registered == {"start", "work", "ask", "retry", "fail", "finish"}

\* Run w has task t: it has its slot and its registration, the loop, which saw
\* the slot, does not claim the task, and nobody evicts it.  A sweep that has
\* looked at activeTasks holds the task only when the run had nothing left but
\* its slot, and a row that is queued again is not due before the run has ended.
Holds(w, t) ==
    /\ slot[t] = "fresh"
    /\ kpc[Loop] # "idle" => t \in busy[Loop]
    /\ t \notin todo[Loop] \cup got[Loop]
    /\ ~Evicting(t)
    /\ at[w] \in Registered => active[t] = w
    /\ status[t] = "running" => at[w] \in Registered \cup {"release"}
    /\ status[t] = "queued" => at[w] \in {"finish", "release"} /\ ~due[t]
    /\ t \in ghosts => /\ at[w] \in Registered \cup {"release"}
                       /\ gpc # "filter" => at[w] = "release"

RunOK(w) ==
    /\ at[w] = "free" <=> job[w] = Nobody
    /\ at[w] # "free" /\ job[w] \notin overtaken => Holds(w, job[w])

\* Where the calls of claimBatch keep what they work on.
PhasesOK ==
    /\ \A k \in Claimers : kpc[k] \in {"idle", "evict", "claim"} => cur[k] = Nobody
    /\ kpc[Loop] = "idle" => todo[Loop] = {}
    /\ kpc[Loop] \notin {"claim", "store"} => got[Loop] = {}
    /\ kpc[Loop] = "store" => cur[Loop] \in got[Loop]

\* What the loop has yet to claim no sweep holds; what it has claimed is left
\* alone by everybody.
BatchOK ==
    kpc[Loop] \in {"claim", "store"} =>
        /\ \A t \in todo[Loop] \ overtaken : status[t] # "running" /\ t \notin ghosts
        /\ \A t \in got[Loop] \ overtaken :
              /\ status[t] \notin {"queued", "running"}
              /\ t \notin ghosts /\ ~Evicting(t)
              /\ slot[t] = "fresh" \/ (kpc[Loop] = "store" /\ cur[Loop] = t)

\* A task a sweep has found is not due before the sweep is done with it.
GhostOK ==
    /\ gpc = "write" => gcur \in ghosts
    /\ \A t \in ghosts \ overtaken : ~(status[t] = "queued" /\ due[t])

IInv ==
    /\ Typed
    /\ OneRunPerTask
    /\ \A w \in Workers : RunOK(w)
    /\ PhasesOK
    /\ BatchOK
    /\ GhostOK

\* A step of run w touches nothing but its own task, which it alone has.
LEMMA RunStepKeeps ==
    ASSUME IInv, Typed', NEW w \in Workers, at[w] # "free",
           UNCHANGED <<overtaken, claimVars, ghostVars>>,
           \A v \in Workers : v # w => at'[v] = at[v] /\ job'[v] = job[v],
           job'[w] = IF at'[w] = "free" THEN Nobody ELSE job[w],
           \A t \in Tasks : t # job[w] =>
                /\ status'[t] = status[t] /\ due'[t] = due[t]
                /\ slot'[t] = slot[t] /\ active'[t] = active[t],
           at'[w] # "free" /\ job[w] \notin overtaken => Holds(w, job[w])',
           job[w] \in ghosts \ overtaken => ~(status'[job[w]] = "queued" /\ due'[job[w]])
    PROVE  IInv'
<1>1. /\ job[w] \in Tasks /\ Nobody \notin Tasks
      /\ job[w] \notin overtaken => job[w] \notin todo[Loop] \cup got[Loop]
      /\ \A v \in Workers : v # w /\ at[v] # "free" /\ job[v] \notin overtaken
                                => job[v] \in Tasks /\ job[v] # job[w]
      /\ todo[Loop] \subseteq Tasks /\ got[Loop] \subseteq Tasks
      /\ ghosts \subseteq Tasks
  BY SlotsAssumption DEF IInv, Typed, TypeOK, RunOK, Holds, OneRunPerTask, Live, Claimers
<1>2. OneRunPerTask'
  <2>1. \A v \in Workers : at'[v] # "free" => at[v] # "free" /\ job'[v] = job[v]
    OBVIOUS
  <2>2. QED BY <2>1 DEF IInv, OneRunPerTask, Live
<1>3. \A t : Evicting(t)' <=> Evicting(t)
  BY DEF Evicting, claimVars
<1>4. ASSUME NEW v \in Workers PROVE RunOK(v)'
  <2>1. CASE v = w
    BY <1>1, <2>1 DEF RunOK
  <2>2. CASE v # w /\ (at[v] = "free" \/ job[v] \in overtaken)
    BY <2>2 DEF IInv, RunOK
  <2>3. CASE v # w /\ at[v] # "free" /\ job[v] \notin overtaken
    <3>1. Holds(v, job[v]) /\ job[v] \in Tasks /\ job[v] # job[w] /\ job'[v] = job[v] /\ at'[v] = at[v]
      BY <1>1, <2>3 DEF IInv, RunOK
    <3>2. Holds(v, job[v])'
      BY <1>3, <3>1 DEF Holds, claimVars, ghostVars
    <3>3. QED BY <1>1, <2>3, <3>1, <3>2 DEF RunOK
  <2>4. QED BY <2>1, <2>2, <2>3
<1>5. BatchOK'
  BY <1>1, <1>3 DEF IInv, BatchOK, claimVars, ghostVars
<1>6. GhostOK'
  BY <1>1 DEF IInv, GhostOK, ghostVars
<1>7. PhasesOK'
  BY DEF IInv, PhasesOK, claimVars
<1>8. QED BY <1>2, <1>4, <1>5, <1>6, <1>7 DEF IInv

\* A write of the row of run w's task, and nothing else but the run's step.
LEMMA RunWritesKeep ==
    ASSUME IInv, Typed', NEW w \in Workers, at[w] # "free",
           NEW where \in Registered \cup {"refused"},
           NEW s, NEW n, NEW d, NEW c, Row(job[w], s, n, d, c), RunGoes(w, where),
           UNCHANGED <<overtaken, slot, claimVars, job, active, ghostVars>>,
           IF where = "refused" THEN at[w] = "preflight" ELSE at[w] \in Registered,
           s = "running" => where \in Registered,
           s = "queued" => where \in {"finish", "release"} /\ ~d
    PROVE  IInv'
<1>1. /\ job[w] \in Tasks /\ where # "free"
      /\ job[w] \notin overtaken => Holds(w, job[w])
  BY DEF IInv, Typed, RunOK, Registered
<1>2. /\ status'[job[w]] = s /\ due'[job[w]] = d /\ at'[w] = where
      /\ \A t \in Tasks : t # job[w] => status'[t] = status[t] /\ due'[t] = due[t]
      /\ \A v \in Workers : v # w => at'[v] = at[v]
  BY <1>1 DEF Row, RunGoes, IInv, Typed, TypeOK
<1>3. job[w] \notin overtaken => Holds(w, job[w])'
  <2>1. \A t : Evicting(t)' <=> Evicting(t)
    BY DEF Evicting, claimVars
  <2>2. QED BY <1>1, <1>2, <2>1 DEF Holds, claimVars, ghostVars, Registered
<1>4. QED BY <1>1, <1>2, <1>3, RunStepKeeps

\* The run moves on, and the rows stay as they are; it may come to be, or cease
\* to be, registered.
LEMMA RunGoesKeep ==
    ASSUME IInv, Typed', NEW w \in Workers, at[w] # "free", NEW where, where # "free",
           RunGoes(w, where),
           UNCHANGED <<overtaken, rowVars, slot, claimVars, job, ghostVars>>,
           \A t \in Tasks : t # job[w] => active'[t] = active[t],
           where \in Registered
               => active'[job[w]] = w \/ (at[w] \in Registered /\ active' = active),
           at[w] \in Registered \cup {"release"} => where \in Registered \cup {"release"},
           at[w] \in {"finish", "release"} => where = "release"
    PROVE  IInv'
<1>1. /\ job[w] \in Tasks
      /\ job[w] \notin overtaken => Holds(w, job[w])
  BY DEF IInv, Typed, RunOK
<1>2. at'[w] = where /\ \A v \in Workers : v # w => at'[v] = at[v]
  BY DEF RunGoes, IInv, Typed, TypeOK
<1>3. job[w] \notin overtaken => Holds(w, job[w])'
  <2>1. \A t : Evicting(t)' <=> Evicting(t)
    BY DEF Evicting, claimVars
  <2>2. QED BY <1>1, <1>2, <2>1 DEF Holds, rowVars, claimVars, ghostVars, Registered
<1>4. job[w] \in ghosts \ overtaken => ~(status'[job[w]] = "queued" /\ due'[job[w]])
  BY DEF IInv, GhostOK, rowVars
<1>5. QED BY <1>1, <1>2, <1>3, <1>4, RunStepKeeps DEF rowVars

\* The run is over; its slot may be left behind.
LEMMA RunIsOverKeeps ==
    ASSUME IInv, Typed', NEW w \in Workers, at[w] # "free", RunGoes(w, "free"),
           job' = [job EXCEPT ![w] = Nobody],
           UNCHANGED <<overtaken, rowVars, claimVars, active, ghostVars>>,
           UNCHANGED slot \/ slot' = [slot EXCEPT ![job[w]] = "none"]
    PROVE  IInv'
<1>1. job[w] \in Tasks
  BY DEF IInv, Typed
<1>2. /\ at'[w] = "free" /\ job'[w] = Nobody
      /\ \A v \in Workers : v # w => at'[v] = at[v] /\ job'[v] = job[v]
      /\ \A t \in Tasks : t # job[w] => slot'[t] = slot[t]
  BY DEF RunGoes, IInv, Typed, TypeOK
<1>3. job[w] \in ghosts \ overtaken => ~(status'[job[w]] = "queued" /\ due'[job[w]])
  BY DEF IInv, GhostOK, rowVars
<1>4. QED BY <1>1, <1>2, <1>3, RunStepKeeps DEF rowVars

\* A heartbeat, or nothing, happens to the slots.
LEMMA BeatKeeps ==
    ASSUME IInv, Typed', UNCHANGED <<overtaken, rowVars, claimVars, at, job, active, ghostVars>>,
           \A t \in Tasks : slot[t] = "fresh" => slot'[t] = "fresh"
    PROVE  IInv'
<1>1. \A t : Evicting(t)' <=> Evicting(t)
  BY DEF Evicting, claimVars
<1>2. todo[Loop] \subseteq Tasks /\ got[Loop] \subseteq Tasks
  BY DEF IInv, Typed, TypeOK, Claimers
<1>3. ASSUME NEW v \in Workers PROVE RunOK(v)'
  <2>1. at[v] # "free" => job[v] \in Tasks
    BY DEF IInv, Typed
  <2>2. QED BY <1>1, <2>1 DEF IInv, RunOK, Holds, rowVars, claimVars, ghostVars
<1>4. BatchOK'
  BY <1>1, <1>2 DEF IInv, BatchOK, rowVars, claimVars, ghostVars
<1>5. QED BY <1>3, <1>4 DEF IInv, OneRunPerTask, Live, PhasesOK, GhostOK,
                            rowVars, claimVars, ghostVars

LEMMA RunsKeep ==
    ASSUME IInv, Typed', NEW w \in Workers, RunMoves(w) \/ HeartbeatReads(w) \/ Faults(w)
    PROVE  IInv'
<1>1. at[w] # "free" => job[w] \in Tasks
  BY DEF IInv, Typed
<1>2. CASE PreflightRefuses(w)
  BY <1>2, RunWritesKeep DEF PreflightRefuses, SetStatus, Registered
<1>3. CASE MarkRunning(w)
  BY <1>3, RunWritesKeep DEF MarkRunning, SetStatus, Registered
<1>4. CASE MarksFailed(w)
  BY <1>4, RunWritesKeep DEF MarksFailed, SetStatus, Registered
<1>5. CASE Completes(w) \/ Clarifies(w)
  BY <1>5, RunWritesKeep DEF Completes, Clarifies, Ends, SetStatus, Registered
<1>6. CASE Requeues(w)
  BY <1>6, RunWritesKeep DEF Requeues, Requeue, SetStatus, Registered
<1>7. CASE StoresQuestion(w)
  BY <1>7, RunGoesKeep DEF StoresQuestion, Registered
<1>8. CASE FailsTransiently(w) \/ FailsForGood(w)
  BY <1>8, RunGoesKeep DEF FailsTransiently, FailsForGood, Tried, Registered
<1>9. CASE CatchThrows(w)
  BY <1>9, RunGoesKeep DEF CatchThrows, Registered
<1>10. CASE RefusalIgnored(w)
  BY <1>10, RunGoesKeep DEF RefusalIgnored, Registered
<1>11. CASE Register(w)
  <2>1. /\ active'[job[w]] = w
        /\ \A t \in Tasks : t # job[w] => active'[t] = active[t]
    BY <1>1, <1>11 DEF Register, IInv, Typed, TypeOK
  <2>2. QED BY <1>11, <2>1, RunGoesKeep DEF Register, Registered
<1>12. CASE Unregister(w)
  <2>1. \A t \in Tasks : t # job[w] => active'[t] = active[t]
    BY <1>1, <1>12 DEF Unregister, IInv, Typed, TypeOK
  <2>2. QED BY <1>12, <2>1, RunGoesKeep DEF Unregister, Registered
<1>13. CASE PreflightThrows(w) \/ Release(w) \/ ReleaseThrows(w)
  BY <1>13, RunIsOverKeeps DEF PreflightThrows, Release, ReleaseThrows
<1>14. CASE HeartbeatReads(w)
  BY <1>14, BeatKeeps DEF HeartbeatReads
<1>15. CASE HeartbeatWrites(w)
  <2>1. \A t \in Tasks : slot[t] = "fresh" => slot'[t] = "fresh"
    BY <1>15 DEF HeartbeatWrites, IInv, Typed, TypeOK
  <2>2. QED BY <1>15, <2>1, BeatKeeps DEF HeartbeatWrites
<1>16. QED BY <1>2, <1>3, <1>4, <1>5, <1>6, <1>7, <1>8, <1>9, <1>10, <1>11, <1>12, <1>13, <1>14,
              <1>15 DEF RunMoves, Faults

\* What a call of claimBatch, of whoever, does to the tasks that are not
\* overtaken by it: it takes slots only of those the loop neither claimed nor
\* runs, claims what is queued, and requeues only what it has evicted.
Effect ==
    /\ overtaken \subseteq overtaken'
    /\ \A t \in Tasks \ overtaken' :
          /\ slot'[t] \in {slot[t], "fresh"} \/ ~UnderWay(t)
          /\ \/ status'[t] = status[t] /\ due'[t] = due[t]
             \/ status[t] = "queued" /\ status'[t] = "claimed"
             \/ /\ Evicting(t) /\ status[t] = "running"
                /\ status'[t] = "blocked" \/ (status'[t] = "queued" /\ ~due'[t])
          /\ Evicting(t)' => Evicting(t) \/ ~UnderWay(t)

LEMMA OthersStay ==
    ASSUME Typed, NEW k \in Claimers, ClaimerMoves(k) \/ ExpiredThrows(k) \/ ClaimThrows(k),
           NEW j \in Claimers, j # k
    PROVE  /\ kpc'[j] = kpc[j] /\ todo'[j] = todo[j] /\ busy'[j] = busy[j]
           /\ got'[j] = got[j] /\ cur'[j] = cur[j] /\ seen'[j] = seen[j]
<1> USE DEF Typed, TypeOK
<1>1. CASE Scan(k) \/ Select(k) \/ Report(k) \/ ClaimThrows(k)
  BY <1>1 DEF Scan, Select, Report, ClaimThrows, Return
<1>2. CASE Evict(k)
  BY <1>2 DEF Evict
<1>3. CASE ExpiredRead(k) \/ ExpiredWrite(k) \/ ExpiredThrows(k)
  BY <1>3 DEF ExpiredRead, ExpiredWrite, ExpiredThrows
<1>4. CASE Claim(k) \/ Store(k)
  BY <1>4 DEF Claim, Store
<1>5. QED BY <1>1, <1>2, <1>3, <1>4 DEF ClaimerMoves

\* Nobody is evicted by the step but, if at all, what k was evicting.
LEMMA NoNewEviction ==
    ASSUME NEW k \in Claimers, NEW t \in Tasks, Evicting(t)',
           \A j \in Claimers : j # k => kpc'[j] = kpc[j] /\ cur'[j] = cur[j],
           cur'[k] = t /\ kpc'[k] # "store" => cur[k] = t /\ kpc[k] # "store"
    PROVE  Evicting(t)
BY DEF Evicting

\* The loop's snapshot has the slot of every run as active.
LEMMA WhatTheLoopEvicts ==
    ASSUME IInv, kpc[Loop] = "evict", NEW t \in todo[Loop] \ overtaken
    PROVE  ~UnderWay(t)
<1>1. got[Loop] = {}
  BY DEF IInv, PhasesOK
<1>2. ASSUME NEW w \in Workers, job[w] = t PROVE FALSE
  <2>1. t \in Tasks /\ Nobody \notin Tasks
    BY SlotsAssumption DEF IInv, Typed, TypeOK, Claimers
  <2>2. Holds(w, t)
    BY <1>2, <2>1 DEF IInv, RunOK
  <2>3. QED BY <2>2 DEF Holds
<1>3. QED BY <1>1, <1>2 DEF UnderWay, RunsOn

LEMMA ClaimerEffect ==
    ASSUME IInv, NEW k \in Claimers, ClaimerMoves(k) \/ ExpiredThrows(k) \/ ClaimThrows(k)
    PROVE  Effect
<1>1. /\ \A j \in Claimers : j # k => kpc'[j] = kpc[j] /\ cur'[j] = cur[j]
      /\ Nobody \notin Tasks /\ todo[k] \subseteq Tasks
      /\ kpc[k] \in {"idle", "evict", "claim"} => cur[k] = Nobody
      /\ kpc[k] \in {"expiredRead", "expiredWrite", "store"} => cur[k] \in Tasks
  BY OthersStay, SlotsAssumption DEF IInv, Typed, TypeOK, PhasesOK
<1>2. CASE Scan(k) \/ ExpiredRead(k) \/ Select(k) \/ Report(k) \/ ExpiredThrows(k) \/ ClaimThrows(k)
  <2>1. UNCHANGED <<overtaken, rowVars, slot>>
    BY <1>2 DEF Scan, ExpiredRead, Select, Report, ExpiredThrows, ClaimThrows
  <2>2. cur'[k] \in {cur[k], Nobody} /\ (kpc[k] = "store" => cur'[k] = Nobody)
    BY <1>2 DEF Scan, ExpiredRead, Select, Report, ExpiredThrows, ClaimThrows, Return,
                IInv, Typed, TypeOK
  <2>3. \A t \in Tasks : Evicting(t)' => Evicting(t)
    BY <1>1, <2>2, NoNewEviction
  <2>4. QED BY <2>1, <2>3 DEF Effect, rowVars
<1>3. CASE Evict(k)
  <2>1. PICK t \in todo[k] :
            /\ slot' = [slot EXCEPT ![t] = "none"]
            /\ cur' = [cur EXCEPT ![k] = t]
            /\ Overtake({t} \cap {u \in Tasks : k # Loop /\ UnderWay(u)})
    BY <1>3 DEF Evict
  <2>2. /\ \A u \in Tasks : u # t => slot'[u] = slot[u]
        /\ cur'[k] = t /\ t \in Tasks
        /\ overtaken \subseteq overtaken'
        /\ k # Loop /\ UnderWay(t) => t \in overtaken'
    BY <1>1, <2>1 DEF IInv, Typed, TypeOK, Overtake
  <2>3. \A u \in Tasks : Evicting(u)' /\ u # t => Evicting(u)
    BY <1>1, <2>2, NoNewEviction
  <2>4. UNCHANGED rowVars
    BY <1>3 DEF Evict
  <2>5. t \notin overtaken' => ~UnderWay(t)
    BY <1>3, <2>1, <2>2, WhatTheLoopEvicts DEF Evict
  <2>6. QED BY <2>2, <2>3, <2>4, <2>5 DEF Effect, rowVars
<1>4. CASE ExpiredWrite(k)
  <2>1. /\ kpc[k] = "expiredWrite" /\ cur'[k] = Nobody /\ UNCHANGED <<overtaken, slot>>
        /\ cur[k] \in Tasks /\ Evicting(cur[k])
    BY <1>1, <1>4 DEF ExpiredWrite, Evicting, IInv, Typed, TypeOK
  <2>2. /\ \A u \in Tasks : u # cur[k] => status'[u] = status[u] /\ due'[u] = due[u]
        /\ \/ UNCHANGED <<status, due>>
           \/ /\ status[cur[k]] = "running"
              /\ status'[cur[k]] = "blocked" \/ (status'[cur[k]] = "queued" /\ ~due'[cur[k]])
    BY <1>4, <2>1 DEF ExpiredWrite, Row, rowVars, IInv, Typed, TypeOK
  <2>3. \A t \in Tasks : Evicting(t)' => Evicting(t)
    BY <1>1, <2>1, NoNewEviction
  <2>4. QED BY <2>1, <2>2, <2>3 DEF Effect
<1>5. CASE Claim(k)
  <2>1. PICK t \in todo[k] :
            IF status[t] = "queued"
            THEN /\ SetStatus(t, "claimed", "young")
                 /\ kpc' = [kpc EXCEPT ![k] = "store"]
                 /\ Overtake({t} \cap {u \in Tasks : k = Loop /\ Evicting(u)})
            ELSE UNCHANGED <<overtaken, rowVars, cur, kpc>>
    BY <1>5 DEF Claim, Candidates
  <2>2. UNCHANGED slot /\ kpc[k] = "claim" /\ t \in Tasks
    BY <1>1, <1>5 DEF Claim
  <2>3. overtaken \subseteq overtaken'
    BY <2>1 DEF Overtake
  <2>4. kpc'[k] = "store" \/ cur' = cur
    BY <2>1 DEF IInv, Typed, TypeOK
  <2>5. \A u \in Tasks : Evicting(u)' => Evicting(u)
    BY <1>1, <2>2, <2>4, NoNewEviction
  <2>6. \A u \in Tasks : \/ status'[u] = status[u] /\ due'[u] = due[u]
                         \/ status[u] = "queued" /\ status'[u] = "claimed"
    BY <2>1, <2>2 DEF SetStatus, Row, rowVars, IInv, Typed, TypeOK
  <2>7. QED BY <2>2, <2>3, <2>5, <2>6 DEF Effect
<1>6. CASE Store(k)
  <2>1. /\ UNCHANGED <<overtaken, rowVars>> /\ cur'[k] = Nobody
        /\ \A u \in Tasks : slot'[u] \in {slot[u], "fresh"}
    BY <1>1, <1>6 DEF Store, IInv, Typed, TypeOK
  <2>2. \A t \in Tasks : Evicting(t)' => Evicting(t)
    BY <1>1, <2>1, NoNewEviction
  <2>3. QED BY <2>1, <2>2 DEF Effect, rowVars
<1>7. QED BY <1>2, <1>3, <1>4, <1>5, <1>6 DEF ClaimerMoves

\* Such a step keeps the invariant if the loop's batch stays in order and does
\* not come to hold what is running.
LEMMA ClaimStepKeeps ==
    ASSUME IInv, Typed', Effect, UNCHANGED <<at, job, active, ghostVars>>,
           PhasesOK', BatchOK',
           \A t \in Tasks \ overtaken' :
               /\ slot[t] = "fresh" /\ t \notin todo[Loop] \cup got[Loop]
               /\ kpc[Loop] # "idle" => t \in busy[Loop]
               /\ ~(status[t] = "queued" /\ due[t])
               => /\ t \notin todo'[Loop] \cup got'[Loop]
                  /\ kpc'[Loop] # "idle" => t \in busy'[Loop]
    PROVE  IInv'
<1>1. OneRunPerTask'
  BY DEF IInv, OneRunPerTask, Live, Effect
<1>2. ASSUME NEW w \in Workers PROVE RunOK(w)'
  <2>1. CASE at[w] = "free" \/ job[w] \in overtaken'
    BY <2>1 DEF IInv, RunOK
  <2>2. CASE at[w] # "free" /\ job[w] \notin overtaken'
    <3>1. /\ job[w] \in Tasks /\ job[w] \notin overtaken /\ Holds(w, job[w])
          /\ UnderWay(job[w])
      BY <2>2 DEF IInv, RunOK, Typed, Effect, UnderWay, RunsOn
    <3>2. /\ slot'[job[w]] = "fresh" /\ ~Evicting(job[w])'
          /\ \/ status'[job[w]] = status[job[w]] /\ due'[job[w]] = due[job[w]]
             \/ status'[job[w]] = "claimed"
      BY <2>2, <3>1 DEF Effect, Holds
    <3>3. /\ job[w] \notin todo'[Loop] \cup got'[Loop]
          /\ kpc'[Loop] # "idle" => job[w] \in busy'[Loop]
      BY <2>2, <3>1 DEF Holds
    <3>4. Holds(w, job[w])'
      BY <3>1, <3>2, <3>3 DEF Holds, ghostVars
    <3>5. QED BY <3>1, <3>4 DEF IInv, RunOK
  <2>3. QED BY <2>1, <2>2
<1>3. GhostOK'
  <2>1. ghosts \subseteq Tasks
    BY DEF IInv, Typed, TypeOK
  <2>2. QED BY <2>1 DEF IInv, GhostOK, Effect, ghostVars
<1>4. QED BY <1>1, <1>2, <1>3 DEF IInv

\* A batch nobody adds to stays in order.
LEMMA BatchStays ==
    ASSUME IInv, Effect, UNCHANGED ghostVars,
           kpc'[Loop] \in {"claim", "store"} =>
               /\ kpc'[Loop] = kpc[Loop] /\ cur'[Loop] = cur[Loop]
               /\ todo'[Loop] = todo[Loop] /\ got'[Loop] = got[Loop]
    PROVE  BatchOK'
<1>1. todo[Loop] \subseteq Tasks /\ got[Loop] \subseteq Tasks
  BY DEF IInv, Typed, TypeOK, Claimers
<1>2. SUFFICES ASSUME kpc[Loop] \in {"claim", "store"}, kpc'[Loop] = kpc[Loop],
                      cur'[Loop] = cur[Loop], todo'[Loop] = todo[Loop], got'[Loop] = got[Loop]
               PROVE  BatchOK'
  BY DEF BatchOK
<1>3. ASSUME NEW t \in todo'[Loop] \ overtaken' PROVE status'[t] # "running" /\ t \notin ghosts'
  BY <1>1, <1>2, <1>3 DEF IInv, BatchOK, Effect, ghostVars
<1>4. ASSUME NEW t \in got'[Loop] \ overtaken'
      PROVE  /\ status'[t] \notin {"queued", "running"}
             /\ t \notin ghosts' /\ ~Evicting(t)'
             /\ slot'[t] = "fresh" \/ (kpc'[Loop] = "store" /\ cur'[Loop] = t)
  <2>1. /\ t \in Tasks /\ t \in got[Loop] \ overtaken /\ UnderWay(t)
        /\ status[t] \notin {"queued", "running"} /\ t \notin ghosts /\ ~Evicting(t)
        /\ slot[t] = "fresh" \/ (kpc[Loop] = "store" /\ cur[Loop] = t)
    BY <1>1, <1>2, <1>4 DEF IInv, BatchOK, Effect, UnderWay
  <2>2. QED BY <1>2, <1>4, <2>1 DEF Effect, ghostVars
<1>5. QED BY <1>3, <1>4 DEF BatchOK

LEMMA ClaimersKeep ==
    ASSUME IInv, Typed', NEW k \in Claimers, ClaimerMoves(k) \/ ExpiredThrows(k) \/ ClaimThrows(k)
    PROVE  IInv'
<1>1. /\ Effect /\ Loop \in Claimers /\ Nobody \notin Tasks
      /\ UNCHANGED <<at, job, active, ghostVars>>
      /\ todo[Loop] \subseteq Tasks /\ got[Loop] \subseteq Tasks
      /\ PhasesOK /\ BatchOK
  BY ClaimerEffect, SlotsAssumption
     DEF ClaimerMoves, Scan, Evict, ExpiredRead, ExpiredWrite, Select, Claim, Store, Report,
         ExpiredThrows, ClaimThrows, runVars, IInv, Typed, TypeOK, Claimers
<1>2. \A j \in Claimers : kpc'[j] \in {"idle", "evict", "claim"} => cur'[j] = Nobody
  <2>1. kpc'[k] \in {"idle", "evict", "claim"} => cur'[k] = Nobody
    <3>1. kpc[k] \in {"idle", "evict", "claim"} => cur[k] = Nobody
      BY <1>1 DEF PhasesOK
    <3> USE DEF IInv, Typed, TypeOK
    <3>2. CASE Scan(k)
      BY <3>1, <3>2 DEF Scan
    <3>3. CASE Select(k)
      BY <3>1, <3>3 DEF Select, Return
    <3>4. CASE Report(k) \/ ClaimThrows(k)
      BY <3>4 DEF Report, ClaimThrows, Return
    <3>5. CASE Evict(k)
      BY <3>5 DEF Evict
    <3>6. CASE ExpiredRead(k)
      BY <3>6 DEF ExpiredRead
    <3>7. CASE ExpiredWrite(k) \/ ExpiredThrows(k)
      BY <3>7 DEF ExpiredWrite, ExpiredThrows
    <3>8. CASE Claim(k)
      BY <3>1, <3>8 DEF Claim
    <3>9. CASE Store(k)
      BY <3>9 DEF Store
    <3>10. QED BY <3>2, <3>3, <3>4, <3>5, <3>6, <3>7, <3>8, <3>9 DEF ClaimerMoves
  <2>2. QED BY <1>1, <2>1, OthersStay DEF IInv, PhasesOK
<1>3. ASSUME kpc'[Loop] = kpc[Loop], todo'[Loop] = todo[Loop], busy'[Loop] = busy[Loop],
             got'[Loop] = got[Loop], cur'[Loop] = cur[Loop]
      PROVE  IInv'
  BY <1>1, <1>2, <1>3, BatchStays, ClaimStepKeeps DEF PhasesOK
<1>4. CASE k # Loop
  <2>1. /\ kpc'[Loop] = kpc[Loop] /\ todo'[Loop] = todo[Loop] /\ busy'[Loop] = busy[Loop]
        /\ got'[Loop] = got[Loop] /\ cur'[Loop] = cur[Loop]
    BY <1>1, <1>4, OthersStay DEF IInv
  <2>2. QED BY <1>3, <2>1
<1>5. ASSUME k = Loop, Return(Loop) PROVE IInv'
  <2>1. kpc'[Loop] = "idle" /\ todo'[Loop] = {} /\ got'[Loop] = {} /\ cur'[Loop] = Nobody
    BY <1>1, <1>5 DEF Return, IInv, Typed, TypeOK
  <2>2. QED BY <1>1, <1>2, <2>1, BatchStays, ClaimStepKeeps DEF PhasesOK
<1>6. CASE k = Loop /\ Scan(Loop)
  <2>1. /\ kpc[Loop] = "idle" /\ kpc'[Loop] = "evict" /\ got' = got /\ cur' = cur
        /\ todo'[Loop] = {t \in Tasks : slot[t] = "stale"}
        /\ busy'[Loop] = {t \in Tasks : slot[t] = "fresh"}
    BY <1>1, <1>6 DEF Scan, IInv, Typed, TypeOK
  <2>2. got[Loop] = {}
    BY <1>1, <2>1 DEF PhasesOK
  <2>3. PhasesOK' /\ BatchOK'
    BY <1>1, <1>2, <2>1, <2>2 DEF PhasesOK, BatchOK
  <2>4. QED BY <1>1, <2>1, <2>2, <2>3, ClaimStepKeeps
<1>7. CASE k = Loop /\ (Evict(Loop) \/ ExpiredRead(Loop) \/ ExpiredWrite(Loop) \/ ExpiredThrows(Loop))
  <2>1. /\ kpc[Loop] \in {"evict", "expiredRead", "expiredWrite"}
        /\ kpc'[Loop] \in {"evict", "expiredRead", "expiredWrite"}
        /\ UNCHANGED <<busy, got>> /\ todo'[Loop] \subseteq todo[Loop]
    <3> USE DEF IInv, Typed, TypeOK
    <3>1. CASE Evict(Loop)
      BY <1>1, <3>1 DEF Evict
    <3>2. CASE ExpiredRead(Loop)
      BY <1>1, <3>2 DEF ExpiredRead
    <3>3. CASE ExpiredWrite(Loop) \/ ExpiredThrows(Loop)
      BY <1>1, <3>3 DEF ExpiredWrite, ExpiredThrows
    <3>4. QED BY <1>7, <3>1, <3>2, <3>3
  <2>2. got[Loop] = {}
    BY <1>1, <2>1 DEF PhasesOK
  <2>3. PhasesOK' /\ BatchOK'
    BY <1>1, <1>2, <2>1, <2>2 DEF PhasesOK, BatchOK
  <2>4. QED BY <1>1, <2>1, <2>2, <2>3, ClaimStepKeeps
<1>8. CASE k = Loop /\ Select(Loop)
  <2>1. CASE Return(Loop)
    BY <1>5, <1>8, <2>1
  <2>2. CASE ~Return(Loop)
    <3>1. /\ kpc[Loop] = "evict" /\ kpc'[Loop] = "claim"
          /\ todo'[Loop] = {t \in Tasks : status[t] = "queued" /\ due[t]}
          /\ UNCHANGED <<overtaken, rowVars, busy, got, cur>>
      BY <1>1, <1>8, <2>2 DEF Select, IInv, Typed, TypeOK
    <3>2. got[Loop] = {}
      BY <1>1, <3>1 DEF PhasesOK
    <3>3. PhasesOK'
      BY <1>1, <1>2, <3>1 DEF PhasesOK
    <3>4. BatchOK'
      BY <1>1, <3>1, <3>2 DEF BatchOK, rowVars, ghostVars, IInv, GhostOK
    <3>5. QED BY <1>1, <3>1, <3>2, <3>3, <3>4, ClaimStepKeeps
  <2>3. QED BY <2>1, <2>2
<1>9. CASE k = Loop /\ Claim(Loop)
  <2>1. PICK t \in todo[Loop] :
            /\ todo' = [todo EXCEPT ![Loop] = @ \ {t}]
            /\ IF status[t] = "queued"
               THEN /\ SetStatus(t, "claimed", "young")
                    /\ got' = [got EXCEPT ![Loop] = @ \cup {t}]
                    /\ cur' = [cur EXCEPT ![Loop] = t]
                    /\ kpc' = [kpc EXCEPT ![Loop] = "store"]
                    /\ Overtake({t} \cap {u \in Tasks : Loop = Loop /\ Evicting(u)})
               ELSE UNCHANGED <<overtaken, rowVars, got, cur, kpc>>
    BY <1>9 DEF Claim, Candidates
  <2>2. /\ UNCHANGED <<slot, busy, ghostVars>> /\ kpc[Loop] = "claim"
        /\ todo'[Loop] = todo[Loop] \ {t} /\ t \in Tasks
    BY <1>1, <1>9, <2>1 DEF Claim, IInv, Typed, TypeOK
  <2>3. CASE status[t] = "queued"
    <3>1. /\ kpc'[Loop] = "store" /\ cur'[Loop] = t /\ got'[Loop] = got[Loop] \cup {t}
          /\ status'[t] = "claimed"
          /\ t \notin overtaken' => ~Evicting(t)
      BY <1>1, <2>1, <2>2, <2>3 DEF SetStatus, Row, IInv, Typed, TypeOK, Overtake
    <3>2. PhasesOK'
      BY <1>1, <1>2, <3>1 DEF PhasesOK
    <3>3. ASSUME NEW u \in todo'[Loop] \ overtaken' PROVE status'[u] # "running" /\ u \notin ghosts'
      BY <1>1, <2>2, <3>3 DEF BatchOK, Effect, ghostVars
    <3>4. ASSUME NEW u \in got'[Loop] \ overtaken'
          PROVE  /\ status'[u] \notin {"queued", "running"}
                 /\ u \notin ghosts' /\ ~Evicting(u)'
                 /\ slot'[u] = "fresh" \/ u = t
      <4>1. CASE u = t
        <5>1. t \notin ghosts /\ ~Evicting(t)
          BY <1>1, <2>2, <3>1, <3>4, <4>1 DEF BatchOK, Effect
        <5>2. ~Evicting(t)'
          <6>1. \A j \in Claimers : j # Loop => kpc'[j] = kpc[j] /\ cur'[j] = cur[j]
            BY <1>9, OthersStay DEF IInv
          <6>2. QED BY <2>2, <3>1, <5>1, <6>1, NoNewEviction, <1>1
        <5>3. QED BY <2>2, <3>1, <4>1, <5>1, <5>2 DEF ghostVars
      <4>2. CASE u # t
        <5>1. u \in got[Loop] /\ u \in Tasks /\ u \notin overtaken /\ UnderWay(u)
          BY <1>1, <3>1, <3>4, <4>2 DEF UnderWay, Effect
        <5>2. QED BY <1>1, <2>2, <3>4, <5>1 DEF BatchOK, Effect, ghostVars
      <4>3. QED BY <4>1, <4>2
    <3>5. BatchOK'
      BY <3>1, <3>3, <3>4 DEF BatchOK
    <3>6. \A u \in Tasks : ~(u \in todo[Loop]) => u \notin todo'[Loop] /\ u # t
      BY <2>2
    <3>7. QED BY <1>1, <2>2, <3>1, <3>2, <3>5, <3>6, ClaimStepKeeps
  <2>4. CASE status[t] # "queued"
    <3>1. UNCHANGED <<overtaken, rowVars, got, cur, kpc>>
      BY <2>1, <2>4
    <3>2. PhasesOK'
      BY <1>1, <1>2, <2>2, <3>1 DEF PhasesOK
    <3>3. \A u : Evicting(u)' <=> Evicting(u)
      BY <3>1 DEF Evicting
    <3>4. BatchOK'
      BY <1>1, <2>2, <3>1, <3>3 DEF BatchOK, rowVars, ghostVars
    <3>5. QED BY <1>1, <2>2, <3>1, <3>2, <3>4, ClaimStepKeeps
  <2>5. QED BY <2>3, <2>4
<1>10. CASE k = Loop /\ Store(Loop)
  <2>1. /\ UNCHANGED <<overtaken, rowVars, todo, busy, got, ghostVars>>
        /\ kpc[Loop] = "store" /\ kpc'[Loop] = "claim"
        /\ cur[Loop] \in Tasks /\ slot'[cur[Loop]] = "fresh"
        /\ \A u \in Tasks : u # cur[Loop] => slot'[u] = slot[u]
    BY <1>1, <1>10 DEF Store, IInv, Typed, TypeOK
  <2>2. PhasesOK'
    BY <1>1, <1>2, <2>1 DEF PhasesOK
  <2>3. \A u \in got[Loop] : UnderWay(u)
    BY DEF UnderWay
  <2>4. BatchOK'
    BY <1>1, <2>1, <2>3 DEF BatchOK, rowVars, ghostVars, Effect
  <2>5. QED BY <1>1, <2>1, <2>2, <2>4, ClaimStepKeeps
<1>11. CASE k = Loop /\ (Report(Loop) \/ ClaimThrows(Loop))
  BY <1>5, <1>11 DEF Report, ClaimThrows
<1>12. QED BY <1>4, <1>6, <1>7, <1>8, <1>9, <1>10, <1>11 DEF ClaimerMoves

\* A batch of as many runs as tasks gives each run a task of its own.
LEMMA PickInjective ==
    ASSUME NEW crew, NEW S, IsFiniteSet(crew), IsFiniteSet(S), Cardinality(crew) = Cardinality(S),
           NEW pick \in [crew -> S], \A t \in S : \E w \in crew : pick[w] = t,
           NEW v \in crew, NEW w \in crew, pick[v] = pick[w]
    PROVE  v = w
<1>1. pick \in Surjection(crew, S)
  BY DEF Surjection
<1>2. pick \in Injection(crew, S)
  BY <1>1, FS_SurjSameCardinalityImpliesInj
<1>3. QED BY <1>2 DEF Injection, IsInjective

\* The runs a start adds: one for each task of the batch.
LEMMA StartAdds ==
    ASSUME Typed, Start
    PROVE  \E crew \in SUBSET Workers :
              /\ Cardinality(crew) = Cardinality(got[Loop])
              /\ \A w \in crew : /\ at[w] = "free" /\ at'[w] = "preflight"
                                 /\ job'[w] \in got[Loop]
              /\ \A v, w \in crew : job'[v] = job'[w] => v = w
              /\ \A t \in got[Loop] : \E w \in crew : job'[w] = t
              /\ \A w \in Workers \ crew : at'[w] = at[w] /\ job'[w] = job[w]
<1>1. PICK crew \in SUBSET {w \in Workers : at[w] = "free" /\ beat[w] = Nobody} :
          /\ Cardinality(crew) = Cardinality(got[Loop])
          /\ \E pick \in [crew -> got[Loop]] :
                /\ \A t \in got[Loop] : \E w \in crew : pick[w] = t
                /\ at' = [w \in Workers |-> IF w \in crew THEN "preflight" ELSE at[w]]
                /\ job' = [w \in Workers |-> IF w \in crew THEN pick[w] ELSE job[w]]
  BY DEF Start
<1>2. PICK pick \in [crew -> got[Loop]] :
          /\ \A t \in got[Loop] : \E w \in crew : pick[w] = t
          /\ at' = [w \in Workers |-> IF w \in crew THEN "preflight" ELSE at[w]]
          /\ job' = [w \in Workers |-> IF w \in crew THEN pick[w] ELSE job[w]]
  BY <1>1
<1>3. crew \in SUBSET Workers /\ got[Loop] \subseteq Tasks
  BY DEF Typed, TypeOK, Claimers
<1>4. \A v \in crew, w \in crew : pick[v] = pick[w] => v = w
  <2>1. IsFiniteSet(crew) /\ IsFiniteSet(got[Loop])
    BY <1>3, SlotsAssumption, FS_Subset
  <2>2. QED BY <1>1, <1>2, <2>1, PickInjective
<1>5. \A w \in crew : w \in Workers /\ at[w] = "free" /\ at'[w] = "preflight" /\ job'[w] = pick[w]
  BY <1>2
<1>6. \A w \in Workers \ crew : at'[w] = at[w] /\ job'[w] = job[w]
  BY <1>2
<1>7. QED BY <1>1, <1>2, <1>3, <1>4, <1>5, <1>6

LEMMA StartKeeps ==
    ASSUME IInv, Typed', Start
    PROVE  IInv'
<1>1. PICK crew \in SUBSET Workers :
          /\ \A w \in crew : /\ at[w] = "free" /\ at'[w] = "preflight"
                             /\ job'[w] \in got[Loop]
          /\ \A v, w \in crew : job'[v] = job'[w] => v = w
          /\ \A w \in Workers \ crew : at'[w] = at[w] /\ job'[w] = job[w]
  BY StartAdds DEF IInv
<1>2. /\ kpc[Loop] = "claim" /\ BatchOK
      /\ kpc'[Loop] = "idle" /\ todo'[Loop] = {} /\ got'[Loop] = {} /\ cur'[Loop] = Nobody
      /\ UNCHANGED <<overtaken, rowVars, slot, active, ghostVars>>
      /\ Nobody \notin Tasks /\ got[Loop] \subseteq Tasks
      /\ \A k \in Claimers : k # Loop => kpc'[k] = kpc[k] /\ cur'[k] = cur[k]
  BY SlotsAssumption DEF Start, Return, IInv, Typed, TypeOK, Claimers
<1>3. \A w \in Workers : at[w] # "free" /\ job[w] \notin overtaken
                             => Holds(w, job[w]) /\ job[w] \in Tasks
  BY DEF IInv, RunOK, Typed
<1>4. \A t \in Tasks : Evicting(t)' => Evicting(t)
  BY <1>2, NoNewEviction DEF Claimers
<1>5. OneRunPerTask'
  <2>1. \A w \in Workers : at[w] # "free" /\ job[w] \notin overtaken => job[w] \notin got[Loop]
    BY <1>3 DEF Holds
  <2>2. QED BY <1>1, <1>2, <2>1 DEF IInv, OneRunPerTask, Live
<1>6. ASSUME NEW w \in Workers PROVE RunOK(w)'
  <2>1. CASE w \in crew
    <3>1. CASE job'[w] \in overtaken
      BY <1>1, <1>2, <2>1, <3>1 DEF RunOK
    <3>2. CASE job'[w] \notin overtaken
      <4>1. /\ job'[w] \in got[Loop] /\ job'[w] \in Tasks /\ at'[w] = "preflight"
            /\ slot[job'[w]] = "fresh" /\ status[job'[w]] \notin {"queued", "running"}
            /\ job'[w] \notin ghosts /\ ~Evicting(job'[w])
        BY <1>1, <1>2, <2>1, <3>2 DEF BatchOK
      <4>2. Holds(w, job[w])'
        BY <1>2, <1>4, <4>1 DEF Holds, Registered, rowVars, ghostVars
      <4>3. QED BY <1>2, <4>1, <4>2 DEF RunOK
    <3>3. QED BY <3>1, <3>2
  <2>2. CASE w \notin crew /\ (at[w] = "free" \/ job[w] \in overtaken)
    BY <1>1, <1>2, <2>2 DEF IInv, RunOK
  <2>3. CASE w \notin crew /\ at[w] # "free" /\ job[w] \notin overtaken
    <3>1. Holds(w, job[w]) /\ job[w] \in Tasks /\ at'[w] = at[w] /\ job'[w] = job[w]
      BY <1>1, <1>3, <2>3
    <3>2. Holds(w, job[w])'
      BY <1>2, <1>4, <3>1 DEF Holds, rowVars, ghostVars
    <3>3. QED BY <2>3, <3>1, <3>2 DEF IInv, RunOK
  <2>4. QED BY <2>1, <2>2, <2>3
<1>7. BatchOK' /\ PhasesOK'
  BY <1>2 DEF BatchOK, PhasesOK, IInv
<1>8. GhostOK'
  BY <1>2 DEF IInv, GhostOK, rowVars, ghostVars
<1>9. QED BY <1>5, <1>6, <1>7, <1>8 DEF IInv

\* The sweep writes only rows it has found, and finds only those of runs that
\* are registered or have nothing left but their slots.
LEMMA SweepStepKeeps ==
    ASSUME IInv, Typed', UNCHANGED <<overtaken, claimVars, runVars, slot>>,
           \A t \in Tasks \ ghosts : status'[t] = status[t] /\ due'[t] = due[t],
           \A t \in ghosts \cap ghosts' : status'[t] = status[t] /\ due'[t] = due[t],
           \A t \in ghosts \ ghosts' : \/ status'[t] = status[t] /\ due'[t] = due[t]
                                       \/ /\ gpc # "filter"
                                          /\ status'[t] = "failed" \/ (status'[t] = "queued" /\ ~due'[t]),
           \A t \in ghosts' \ ghosts : status[t] = "running" /\ gpc' = "filter",
           \A t \in ghosts' \cap ghosts :
               gpc' # "filter" => gpc # "filter" \/ active[t] = Nobody,
           gpc' = "write" => gcur' \in ghosts'
    PROVE  IInv'
<1>1. /\ ghosts \subseteq Tasks /\ ghosts' \subseteq Tasks /\ Nobody \notin Workers
      /\ todo[Loop] \subseteq Tasks /\ got[Loop] \subseteq Tasks
  BY SlotsAssumption DEF IInv, Typed, TypeOK, Claimers
<1>2. \A t : Evicting(t)' <=> Evicting(t)
  BY DEF Evicting, claimVars
<1>3. ASSUME NEW w \in Workers PROVE RunOK(w)'
  <2>1. CASE at[w] = "free" \/ job[w] \in overtaken
    BY <2>1 DEF IInv, RunOK, runVars
  <2>2. CASE at[w] # "free" /\ job[w] \notin overtaken
    <3>1. Holds(w, job[w]) /\ job[w] \in Tasks /\ at' = at /\ job' = job /\ active' = active
      BY <2>2 DEF IInv, RunOK, Typed, runVars
    <3>2. status'[job[w]] = "running" => at[w] \in Registered \cup {"release"}
      BY <1>1, <3>1 DEF Holds
    <3>3. status'[job[w]] = "queued" => at[w] \in {"finish", "release"} /\ ~due'[job[w]]
      BY <1>1, <3>1 DEF Holds
    <3>4. job[w] \in ghosts' => /\ at[w] \in Registered \cup {"release"}
                                /\ gpc' # "filter" => at[w] = "release"
      BY <1>1, <3>1 DEF Holds
    <3>5. Holds(w, job[w])'
      BY <1>2, <3>1, <3>2, <3>3, <3>4 DEF Holds, claimVars
    <3>6. QED BY <3>1, <3>5 DEF IInv, RunOK
  <2>3. QED BY <2>1, <2>2
<1>4. BatchOK'
  BY <1>1, <1>2 DEF IInv, BatchOK, claimVars
<1>5. GhostOK'
  BY <1>1 DEF IInv, GhostOK
<1>6. QED BY <1>3, <1>4, <1>5 DEF IInv, OneRunPerTask, Live, PhasesOK, claimVars, runVars

LEMMA SweepKeeps ==
    ASSUME IInv, Typed', GhostMoves \/ SweepThrows
    PROVE  IInv'
<1>1. GhostOK /\ ghosts \subseteq Tasks /\ (gpc = "write" => gcur \in Tasks)
  BY DEF IInv, Typed, TypeOK
<1>2. CASE GhostsSelected
  <2>1. /\ UNCHANGED <<overtaken, rowVars, claimVars, runVars, slot>>
        /\ ghosts' = {t \in Tasks : status[t] = "running" /\ claimed[t] = "old"}
        /\ gpc' = IF ghosts' = {} THEN "idle" ELSE "filter"
    BY <1>2 DEF GhostsSelected
  <2>2. QED BY <2>1, SweepStepKeeps DEF rowVars
<1>3. CASE GhostsFound
  <2>1. /\ UNCHANGED <<overtaken, rowVars, claimVars, runVars, slot>>
        /\ gpc = "filter" /\ gpc' # "write"
        /\ ghosts' = {t \in ghosts : active[t] = Nobody}
    BY <1>3 DEF GhostsFound
  <2>2. QED BY <2>1, SweepStepKeeps DEF rowVars
<1>4. CASE GhostsCleared \/ GhostRead \/ SweepThrows
  <2>1. /\ UNCHANGED <<overtaken, status, due, claimVars, runVars, slot>>
        /\ ghosts' \subseteq ghosts
        /\ gpc # "filter" \/ ghosts' = {}
        /\ gpc' = "write" => gcur' \in ghosts'
    BY <1>4 DEF GhostsCleared, GhostRead, SweepThrows, SweepIsOver, rowVars
  <2>2. QED BY <2>1, SweepStepKeeps
<1>5. CASE GhostRequeued
  <2>1. /\ UNCHANGED <<overtaken, claimVars, runVars, slot>> /\ gpc = "write" /\ gpc' = "read"
        /\ gcur \in ghosts /\ ghosts' = ghosts \ {gcur}
    BY <1>1, <1>5 DEF GhostRequeued, GhostOK
  <2>2. /\ \A t \in Tasks : t # gcur => status'[t] = status[t] /\ due'[t] = due[t]
        /\ status'[gcur] = "failed" \/ (status'[gcur] = "queued" /\ ~due'[gcur])
    BY <1>1, <1>5, <2>1 DEF GhostRequeued, Requeue, SetStatus, Row, IInv, Typed, TypeOK
  <2>3. QED BY <1>1, <2>1, <2>2, SweepStepKeeps
<1>6. QED BY <1>2, <1>3, <1>4, <1>5 DEF GhostMoves

\* What is about to be overtaken may do anything: the rows and slots of the
\* others stay as they are, or are cancelled, or are due without being at work.
LEMMA WorldStepKeeps ==
    ASSUME IInv, Typed', overtaken \subseteq overtaken',
           UNCHANGED <<claimVars, at, job, active, ghostVars>>,
           \A t \in Tasks \ overtaken' :
               /\ slot'[t] = slot[t] \/ ~UnderWay(t)
               /\ \/ status'[t] = status[t] /\ due'[t] = due[t]
                  \/ status'[t] = "cancelled"
                  \/ status'[t] = status[t] /\ ~Ending(t) /\ t \notin ghosts
    PROVE  IInv'
<1>1. /\ ghosts \subseteq Tasks /\ todo[Loop] \subseteq Tasks /\ got[Loop] \subseteq Tasks
  BY DEF IInv, Typed, TypeOK, Claimers
<1>2. \A t : Evicting(t)' <=> Evicting(t)
  BY DEF Evicting, claimVars
<1>3. OneRunPerTask'
  BY DEF IInv, OneRunPerTask, Live
<1>4. ASSUME NEW w \in Workers PROVE RunOK(w)'
  <2>1. CASE at[w] = "free" \/ job[w] \in overtaken'
    BY <2>1 DEF IInv, RunOK
  <2>2. CASE at[w] # "free" /\ job[w] \notin overtaken'
    <3>1. /\ Holds(w, job[w]) /\ job[w] \in Tasks /\ UnderWay(job[w])
          /\ at[w] \in {"finish", "release"} => Ending(job[w])
      BY <2>2 DEF IInv, RunOK, Typed, UnderWay, RunsOn, Ending
    <3>2. Holds(w, job[w])'
      BY <1>2, <2>2, <3>1 DEF Holds, claimVars, ghostVars
    <3>3. QED BY <2>2, <3>2 DEF IInv, RunOK
  <2>3. QED BY <2>1, <2>2
<1>5. BatchOK'
  <2>1. \A t \in got[Loop] : UnderWay(t)
    BY DEF UnderWay
  <2>2. QED BY <1>1, <1>2, <2>1 DEF IInv, BatchOK, claimVars, ghostVars
<1>6. GhostOK'
  BY <1>1 DEF IInv, GhostOK, ghostVars
<1>7. QED BY <1>3, <1>4, <1>5, <1>6 DEF IInv, PhasesOK, claimVars

LEMMA WorldKeeps ==
    ASSUME IInv, Typed',
           \/ \E t \in Tasks : Cancel(t) \/ SlotExpires(t) \/ RetryDue(t) \/ ClaimAges(t)
           \/ Crash
           \/ UNCHANGED vars
    PROVE  IInv'
<1>1. ASSUME NEW t \in Tasks, Cancel(t) PROVE IInv'
  <2>1. /\ UNCHANGED <<overtaken, slot, claimVars, runVars, ghostVars>> /\ status'[t] = "cancelled"
        /\ \A u \in Tasks : u # t => status'[u] = status[u] /\ due'[u] = due[u]
    BY <1>1 DEF Cancel, Row, IInv, Typed, TypeOK
  <2>2. QED BY <2>1, WorldStepKeeps DEF runVars
<1>2. ASSUME NEW t \in Tasks, SlotExpires(t) PROVE IInv'
  <2>1. /\ UNCHANGED <<rowVars, claimVars, runVars, ghostVars>>
        /\ overtaken \subseteq overtaken' /\ (t \notin overtaken' => ~UnderWay(t))
        /\ \A u \in Tasks : u # t => slot'[u] = slot[u]
    BY <1>2 DEF SlotExpires, Overtake, IInv, Typed, TypeOK
  <2>2. QED BY <2>1, WorldStepKeeps DEF rowVars, runVars
<1>3. ASSUME NEW t \in Tasks, RetryDue(t) PROVE IInv'
  <2>1. /\ UNCHANGED <<status, slot, claimVars, runVars, ghostVars>>
        /\ overtaken \subseteq overtaken'
        /\ t \notin overtaken' => ~Ending(t) /\ t \notin ghosts
        /\ \A u \in Tasks : u # t => due'[u] = due[u]
    BY <1>3 DEF RetryDue, Overtake, Recovering, IInv, Typed, TypeOK
  <2>2. QED BY <2>1, WorldStepKeeps DEF runVars
<1>4. CASE (\E t \in Tasks : ClaimAges(t)) \/ UNCHANGED vars
  <2>1. UNCHANGED <<overtaken, status, due, slot, claimVars, runVars, ghostVars>>
    BY <1>4 DEF ClaimAges, vars, rowVars
  <2>2. QED BY <2>1, WorldStepKeeps DEF runVars
<1>5. CASE Crash
  <2>1. /\ \A w \in Workers : at'[w] = "free" /\ job'[w] = Nobody
        /\ \A k \in Claimers : kpc'[k] = "idle" /\ todo'[k] = {} /\ got'[k] = {} /\ cur'[k] = Nobody
        /\ gpc' = "idle" /\ ghosts' = {}
    BY <1>5 DEF Crash, SweepIsOver
  <2>2. QED BY <2>1 DEF IInv, OneRunPerTask, Live, RunOK, PhasesOK, BatchOK, GhostOK, Claimers
<1>6. QED BY <1>1, <1>2, <1>3, <1>4, <1>5

LEMMA IInvariance == Spec => []IInv
<1>1. Init => IInv
  <2>1. Init => Typed
    BY SlotsAssumption DEF Init, Typed, TypeOK, Statuses
  <2>2. QED BY <2>1 DEF Init, IInv, OneRunPerTask, Live, RunOK, PhasesOK, BatchOK, GhostOK, Claimers
<1>2. IInv /\ Typed' /\ [Next]_vars => IInv'
  BY ClaimersKeep, StartKeeps, RunsKeep, SweepKeeps, WorldKeeps DEF Next, Faults
<1>3. QED BY <1>1, <1>2, Typing0, PTL DEF Spec

\* "prevents double-claim races": a task that was not overtaken never has two
\* runs at once, whoever else calls claimBatch.  The loop's snapshot holds the
\* slot of every run, a sweep that has looked at activeTasks holds only tasks
\* whose runs have nothing left to do, and a retry waits for its run to end.
THEOREM OneRunPerTaskAlways == Spec => []OneRunPerTask
BY IInvariance, PTL DEF IInv

-----------------------------------------------------------------------------
(* Slots and repos *)

\* The runs of tasks that were not overtaken.
Kept == {w \in Live : job[w] \notin overtaken}

\* The batch of the loop and the runs whose slots it saw fit together.
BatchFits ==
    kpc[Loop] \in {"claim", "store"} =>
        /\ Cardinality(busy[Loop]) + Cardinality(got[Loop]) <= MaxSlots
        /\ \A t \in got[Loop] : \A u \in busy[Loop] \cup got[Loop] :
              t # u /\ Repo[t] # NoRepo => Repo[u] # Repo[t]

Fits == RunsWithinCap /\ RepoIsExclusive /\ BatchFits

\* Nothing starts and the batch does not grow.
LEMMA NothingStartsFits ==
    ASSUME IInv, Fits, UNCHANGED setup, overtaken \subseteq overtaken',
           \A w \in Workers : at'[w] # "free" => at[w] # "free" /\ job'[w] = job[w],
           kpc'[Loop] \in {"claim", "store"} =>
               kpc[Loop] \in {"claim", "store"} /\ busy'[Loop] = busy[Loop] /\ got'[Loop] = got[Loop]
    PROVE  Fits'
<1>1. /\ Live' \subseteq Live /\ \A w \in Live' : job'[w] = job[w]
      /\ Kept' \subseteq Kept
  BY DEF Live, Kept
<1>2. RunsWithinCap'
  <2>1. IsFiniteSet(Kept)
    BY SlotsAssumption, FS_Subset DEF Kept, Live
  <2>2. /\ Cardinality(Kept') <= Cardinality(Kept)
        /\ Cardinality(Kept) \in Nat /\ Cardinality(Kept') \in Nat
    BY <1>1, <2>1, FS_Subset, FS_CardinalityType
  <2>3. MaxSlots \in Nat /\ MaxSlots' = MaxSlots
    BY SlotsAssumption DEF MaxSlots, IInv, Typed, TypeOK
  <2>4. Cardinality(Kept)' = Cardinality(Kept')
    OBVIOUS
  <2>5. Cardinality(Kept) <= MaxSlots
    BY DEF Fits, RunsWithinCap, Kept
  <2>6. Cardinality(Kept') <= MaxSlots'
    BY <2>2, <2>3, <2>5
  <2>7. QED BY <2>6 DEF RunsWithinCap, Kept
<1>3. RepoIsExclusive'
  BY <1>1 DEF Fits, RepoIsExclusive, Repo
<1>4. BatchFits'
  BY DEF Fits, BatchFits, MaxSlots, Repo
<1>5. QED BY <1>2, <1>3, <1>4 DEF Fits

LEMMA RunsFit ==
    ASSUME IInv, Fits, NEW w \in Workers, RunMoves(w) \/ HeartbeatReads(w) \/ Faults(w)
    PROVE  Fits'
<1>1. /\ UNCHANGED <<setup, overtaken, claimVars>>
      /\ \/ UNCHANGED <<at, job>>
         \/ /\ at[w] # "free"
            /\ \E where : RunGoes(w, where)
            /\ UNCHANGED job \/ (RunGoes(w, "free") /\ job' = [job EXCEPT ![w] = Nobody])
  BY DEF RunMoves, PreflightRefuses, Register, MarkRunning, Completes, Clarifies, Ends,
         StoresQuestion, FailsTransiently, Requeues, FailsForGood, MarksFailed, Unregister,
         Release, HeartbeatWrites, HeartbeatReads, Faults, RefusalIgnored, PreflightThrows,
         CatchThrows, ReleaseThrows, Tried
<1>2. \A v \in Workers : at'[v] # "free" => at[v] # "free" /\ job'[v] = job[v]
  BY <1>1 DEF RunGoes, IInv, Typed, TypeOK
<1>3. QED BY <1>1, <1>2, NothingStartsFits DEF claimVars

LEMMA ClaimersFit ==
    ASSUME IInv, Fits, NEW k \in Claimers, ClaimerMoves(k) \/ ExpiredThrows(k) \/ ClaimThrows(k)
    PROVE  Fits'
<1>1. /\ UNCHANGED <<setup, at, job>> /\ overtaken \subseteq overtaken'
      /\ Loop \in Claimers /\ IsFiniteSet(busy[Loop]) /\ IsFiniteSet(got[Loop])
      /\ MaxSlots \in Nat
  <2>1. Loop \in Claimers /\ busy[Loop] \subseteq Tasks /\ got[Loop] \subseteq Tasks
    BY DEF IInv, Typed, TypeOK, Claimers
  <2>2. IsFiniteSet(busy[Loop]) /\ IsFiniteSet(got[Loop])
    BY <2>1, SlotsAssumption, FS_Subset
  <2>3. Effect
    BY ClaimerEffect
  <2>4. QED BY <2>1, <2>2, <2>3, SlotsAssumption
            DEF ClaimerMoves, Scan, Evict, ExpiredRead, ExpiredWrite, Select, Claim, Store, Report,
                ExpiredThrows, ClaimThrows, runVars, MaxSlots, IInv, Typed, TypeOK, Effect
<1>2. ASSUME kpc'[Loop] \notin {"claim", "store"}
             \/ (kpc[Loop] \in {"claim", "store"} /\ busy'[Loop] = busy[Loop] /\ got'[Loop] = got[Loop])
      PROVE  Fits'
  BY <1>1, <1>2, NothingStartsFits
<1>3. ASSUME BatchFits' PROVE Fits'
  <2>1. Kept' \subseteq Kept /\ UNCHANGED <<Live, MaxSlots, Repo>>
    BY <1>1 DEF Kept, Live, MaxSlots, Repo
  <2>2. IsFiniteSet(Kept)
    BY SlotsAssumption, FS_Subset DEF Kept, Live
  <2>3. /\ Cardinality(Kept') <= Cardinality(Kept) /\ Cardinality(Kept) <= MaxSlots
        /\ Cardinality(Kept) \in Nat /\ Cardinality(Kept') \in Nat
    BY <2>1, <2>2, FS_Subset, FS_CardinalityType DEF Fits, RunsWithinCap, Kept
  <2>4. Cardinality(Kept') <= MaxSlots'
    BY <1>1, <2>1, <2>3
  <2>5. RunsWithinCap'
    BY <2>4 DEF RunsWithinCap, Kept
  <2>6. RepoIsExclusive'
    BY <1>1, <2>1 DEF Fits, RepoIsExclusive
  <2>7. QED BY <1>3, <2>5, <2>6 DEF Fits
<1>4. CASE k # Loop
  BY <1>1, <1>2, <1>4, OthersStay DEF IInv
<1>5. CASE k = Loop /\ Select(Loop)
  <2>1. CASE Cardinality(busy[Loop]) >= MaxSlots
    BY <1>1, <1>2, <1>5, <2>1 DEF Select, Return, IInv, Typed, TypeOK
  <2>2. CASE ~(Cardinality(busy[Loop]) >= MaxSlots)
    <3>1. UNCHANGED <<busy, got>> /\ got[Loop] = {}
      BY <1>5, <2>2 DEF Select, IInv, PhasesOK
    <3>2. Cardinality(busy[Loop]) \in Nat /\ Cardinality(got[Loop]) = 0
      BY <1>1, <3>1, FS_CardinalityType, FS_EmptySet
    <3>3. QED BY <1>1, <1>3, <2>2, <3>1, <3>2 DEF BatchFits, MaxSlots
  <2>3. QED BY <2>1, <2>2
<1>6. CASE k = Loop /\ Claim(Loop)
  <2>1. PICK t \in Candidates(Loop) :
            IF status[t] = "queued"
            THEN /\ got' = [got EXCEPT ![Loop] = @ \cup {t}]
                 /\ kpc' = [kpc EXCEPT ![Loop] = "store"]
            ELSE UNCHANGED <<got, kpc>>
    BY <1>6 DEF Claim
  <2>2. /\ busy' = busy /\ kpc[Loop] = "claim" /\ BatchFits
        /\ Room(Loop) /\ RepoFree(Loop, t)
        /\ got'[Loop] = got[Loop] \/ got'[Loop] = got[Loop] \cup {t}
    BY <1>1, <1>6, <2>1 DEF Claim, Candidates, Fits, IInv, Typed, TypeOK
  <2>3. Cardinality(busy[Loop]) + Cardinality(got'[Loop]) <= MaxSlots
    <3>1. /\ Cardinality(busy[Loop]) \in Nat /\ Cardinality(got[Loop]) \in Nat
          /\ Cardinality(got[Loop] \cup {t}) \in {Cardinality(got[Loop]), Cardinality(got[Loop]) + 1}
      BY <1>1, FS_CardinalityType, FS_AddElement
    <3>2. Cardinality(got[Loop]) + Cardinality(busy[Loop]) < MaxSlots
      BY <2>2 DEF Room
    <3>3. Cardinality(got'[Loop]) \in {Cardinality(got[Loop]), Cardinality(got[Loop]) + 1}
      BY <2>2, <3>1
    <3>4. QED BY <1>1, <3>1, <3>2, <3>3
  <2>4. \A u \in got'[Loop] : \A v \in busy[Loop] \cup got'[Loop] :
            u # v /\ Repo[u] # NoRepo => Repo[v] # Repo[u]
    BY <2>2 DEF RepoFree, BatchFits
  <2>5. QED BY <1>1, <1>3, <2>2, <2>3, <2>4 DEF BatchFits, MaxSlots, Repo
<1>7. CASE k = Loop /\ Store(Loop)
  BY <1>1, <1>2, <1>7 DEF Store
<1>8. CASE k = Loop /\ (Scan(Loop) \/ Evict(Loop) \/ Report(Loop) \/ ClaimThrows(Loop))
  BY <1>1, <1>2, <1>8 DEF Scan, Evict, Report, ClaimThrows, Return, IInv, Typed, TypeOK
<1>9. CASE k = Loop /\ (ExpiredRead(Loop) \/ ExpiredWrite(Loop) \/ ExpiredThrows(Loop))
  BY <1>1, <1>2, <1>9 DEF ExpiredRead, ExpiredWrite, ExpiredThrows, IInv, Typed, TypeOK
<1>10. QED BY <1>4, <1>5, <1>6, <1>7, <1>8, <1>9 DEF ClaimerMoves

LEMMA StartFits ==
    ASSUME IInv, Fits, IInv', Start
    PROVE  Fits'
<1>1. PICK crew \in SUBSET Workers :
          /\ Cardinality(crew) = Cardinality(got[Loop])
          /\ \A w \in crew : /\ at[w] = "free" /\ at'[w] = "preflight"
                             /\ job'[w] \in got[Loop]
          /\ \A w \in Workers \ crew : at'[w] = at[w] /\ job'[w] = job[w]
  BY StartAdds DEF IInv
<1>2. /\ kpc[Loop] = "claim" /\ BatchFits /\ UNCHANGED <<setup, overtaken>>
      /\ kpc'[Loop] = "idle"
      /\ busy[Loop] \subseteq Tasks /\ got[Loop] \subseteq Tasks
  BY DEF Start, Return, Fits, IInv, Typed, TypeOK, Claimers
<1>3. /\ \A w \in Kept : at'[w] = at[w] /\ job'[w] = job[w] /\ job[w] \in busy[Loop]
      /\ Kept' \subseteq Kept \cup crew
      /\ Live' = Live \cup crew /\ crew \cap Live = {}
  BY <1>1, <1>2 DEF Kept, Live, IInv, RunOK, Holds
<1>4. IsFiniteSet(Kept) /\ IsFiniteSet(crew) /\ IsFiniteSet(busy[Loop]) /\ IsFiniteSet(got[Loop])
  BY <1>2, SlotsAssumption, FS_Subset DEF Kept, Live
<1>5. RunsWithinCap'
  <2>1. Cardinality(Kept) <= Cardinality(busy[Loop])
    <3>1. [w \in Kept |-> job[w]] \in Injection(Kept, busy[Loop])
      BY <1>3 DEF Injection, IsInjective, IInv, OneRunPerTask, Kept
    <3>2. QED BY <1>4, <3>1, FS_Injection
  <2>2. Cardinality(Kept') <= Cardinality(Kept) + Cardinality(crew)
    <3>1. /\ IsFiniteSet(Kept \cup crew)
          /\ Cardinality(Kept \cup crew)
                 = Cardinality(Kept) + Cardinality(crew) - Cardinality(Kept \cap crew)
      BY <1>4, FS_Union
    <3>2. Cardinality(Kept \cap crew) = 0
      BY <1>3, FS_EmptySet DEF Kept
    <3>3. Cardinality(Kept') <= Cardinality(Kept \cup crew) /\ IsFiniteSet(Kept')
      BY <1>3, <3>1, FS_Subset
    <3>4. QED BY <1>4, <3>1, <3>2, <3>3, FS_CardinalityType
  <2>3. /\ Cardinality(Kept) \in Nat /\ Cardinality(crew) \in Nat /\ Cardinality(Kept') \in Nat
        /\ Cardinality(busy[Loop]) \in Nat /\ MaxSlots \in Nat
    <3>1. IsFiniteSet(Kept')
      BY <1>3, <1>4, FS_Union, FS_Subset
    <3>2. QED BY <1>4, <3>1, FS_CardinalityType, SlotsAssumption DEF MaxSlots, IInv, Typed, TypeOK
  <2>4. Cardinality(Kept') <= MaxSlots
    BY <1>1, <1>2, <2>1, <2>2, <2>3 DEF BatchFits
  <2>5. QED BY <1>2, <2>4 DEF RunsWithinCap, MaxSlots, Kept
<1>6. RepoIsExclusive'
  <2>1. ASSUME NEW v \in Live', NEW w \in Live', v # w,
               Repo[job'[v]] = Repo[job'[w]], Repo[job'[v]] # NoRepo,
               job'[v] \notin overtaken, job'[w] \notin overtaken
        PROVE  FALSE
    <3>1. job'[v] # job'[w]
      BY <1>2, <2>1 DEF IInv, OneRunPerTask
    <3>2. CASE v \in Live /\ w \in Live
      BY <1>1, <1>3, <2>1, <3>2 DEF Fits, RepoIsExclusive, Live
    <3>3. CASE v \in crew \/ w \in crew
      <4>1. \A x \in Live' : x \in crew \/ x \in Live
        BY <1>3
      <4>2. \A x \in Live : job'[x] \notin overtaken => job'[x] \in busy[Loop]
        BY <1>1, <1>3 DEF Kept, Live
      <4>3. \A x \in crew : job'[x] \in got[Loop]
        BY <1>1
      <4>4. QED BY <1>2, <2>1, <3>1, <3>3, <4>1, <4>2, <4>3 DEF BatchFits
    <3>4. QED BY <1>3, <2>1, <3>2, <3>3
  <2>2. Repo' = Repo
    BY <1>2 DEF Repo
  <2>3. QED BY <1>2, <2>1, <2>2 DEF RepoIsExclusive
<1>7. QED BY <1>2, <1>5, <1>6 DEF Fits, BatchFits

LEMMA FitsInvariance == Spec => []Fits
<1>1. Init => Fits
  <2>1. ASSUME Init PROVE Live = {} /\ kpc[Loop] = "idle" /\ MaxSlots \in Nat
    BY <2>1, SlotsAssumption DEF Init, Live, Claimers, MaxSlots
  <2>2. ASSUME Init PROVE {w \in Live : job[w] \notin overtaken} = {}
    BY <2>1, <2>2
  <2>3. QED BY <2>1, <2>2, FS_EmptySet DEF Fits, RunsWithinCap, RepoIsExclusive, BatchFits
<1>2. Fits /\ IInv /\ IInv' /\ [Next]_vars => Fits'
  <2> SUFFICES ASSUME Fits, IInv, IInv', [Next]_vars PROVE Fits'
    OBVIOUS
  <2>1. ASSUME NEW k \in Claimers, ClaimerMoves(k) \/ ExpiredThrows(k) \/ ClaimThrows(k)
        PROVE  Fits'
    BY <2>1, ClaimersFit
  <2>2. CASE Start
    BY <2>2, StartFits
  <2>3. ASSUME NEW w \in Workers, RunMoves(w) \/ HeartbeatReads(w) \/ Faults(w)
        PROVE  Fits'
    BY <2>3, RunsFit
  <2>4. CASE GhostMoves \/ SweepThrows
    BY <2>4, NothingStartsFits DEF GhostMoves, GhostsSelected, GhostsFound, GhostsCleared,
                                   GhostRead, GhostRequeued, SweepThrows, claimVars, runVars
  <2>5. CASE \E t \in Tasks : Cancel(t) \/ SlotExpires(t) \/ RetryDue(t) \/ ClaimAges(t)
    BY <2>5, NothingStartsFits DEF Cancel, SlotExpires, RetryDue, ClaimAges, Overtake,
                                   claimVars, runVars
  <2>6. CASE Crash
    BY <2>6, NothingStartsFits DEF Crash, Claimers
  <2>7. CASE UNCHANGED vars
    BY <2>7, NothingStartsFits DEF vars, claimVars, runVars
  <2>8. QED BY <2>1, <2>2, <2>3, <2>4, <2>5, <2>6, <2>7 DEF Next, Faults
<1>3. QED BY <1>1, <1>2, IInvariance, PTL DEF Spec

\* "The Claim step ensures we won't oversubscribe": however slots expire, are
\* evicted from a snapshot and are stored again, and whatever fails, the runs of
\* tasks that were not overtaken are no more than the slots.
THEOREM RunsWithinCapAlways == Spec => []RunsWithinCap
BY FitsInvariance, PTL DEF Fits

\* The "strict repo invariant": the slots the loop saw are those of all runs of
\* tasks that were not overtaken, so what it claims next to them works on other
\* repos.
THEOREM RepoIsExclusiveAlways == Spec => []RepoIsExclusive
BY FitsInvariance, PTL DEF Fits

-----------------------------------------------------------------------------
(* Attempts *)

\* The attempt that no run has: handleExpiredSlot counted once more than
\* requeueForRetry does, and the task is given up.
GivenUp(t) ==
    /\ attempts[t] = MaxAttempts + 1
    /\ status[t] \in {"blocked", "cancelled", "failed"}
    /\ ~UnderWay(t)

\* The start to come of a task that is queued or claimed is paid for.
Paid(t) ==
    /\ starts[t] <= attempts[t] + 1 /\ starts[t] <= MaxAttempts + 1
    /\ status[t] = "queued" \/ t \in got[Loop] => starts[t] <= attempts[t]
    /\ attempts[t] <= MaxAttempts \/ GivenUp(t)

\* Whoever has read an attempt count pays for the latest start with it, even
\* when the count has changed since.
Pays(t, n) == t \notin overtaken => starts[t] <= n + 1

ReadPays(w) == at[w] = "retry" => Pays(job[w], read[w])

EvictionPays(k) ==
    kpc[k] = "expiredWrite" => /\ Pays(cur[k], seen[k])
                               /\ cur[k] \notin overtaken => seen[k] <= MaxAttempts

SweepPays == gpc = "write" => Pays(gcur, gseen)

Counted ==
    /\ \A t \in Tasks \ overtaken : Paid(t)
    /\ \A w \in Workers : ReadPays(w)
    /\ \A k \in Claimers : EvictionPays(k)
    /\ SweepPays

\* A step of run w counts, if at all, for its own task.
LEMMA RunStepCounts ==
    ASSUME IInv, Typed', Counted, NEW w \in Workers, at[w] # "free",
           UNCHANGED <<overtaken, claimVars, ghostVars, starts>>,
           \A v \in Workers : v # w => at'[v] = at[v] /\ job'[v] = job[v] /\ read'[v] = read[v],
           job'[w] \in {job[w], Nobody},
           \A t \in Tasks : t # job[w] => status'[t] = status[t] /\ attempts'[t] = attempts[t],
           job[w] \notin overtaken =>
               /\ attempts'[job[w]] <= MaxAttempts
               /\ starts[job[w]] <= attempts'[job[w]] + 1
               /\ status'[job[w]] = "queued" => starts[job[w]] <= attempts'[job[w]],
           at'[w] = "retry" => job'[w] = job[w] /\ Pays(job[w], read'[w])
    PROVE  Counted'
<1>1. /\ job[w] \in Tasks /\ Nobody \notin Tasks
      /\ job[w] \notin overtaken => job[w] \notin got[Loop]
  BY SlotsAssumption DEF IInv, Typed, RunOK, Holds
<1>2. ASSUME NEW t \in Tasks \ overtaken PROVE Paid(t)'
  <2>1. CASE t = job[w]
    BY <1>1, <1>2, <2>1 DEF Counted, Paid, claimVars
  <2>2. CASE t # job[w]
    <3>1. GivenUp(t) => GivenUp(t)'
      BY <1>1, <2>2 DEF GivenUp, UnderWay, RunsOn, claimVars
    <3>2. QED BY <2>2, <3>1 DEF Counted, Paid, claimVars
  <2>3. QED BY <2>1, <2>2
<1>3. \A v \in Workers : ReadPays(v)'
  BY DEF Counted, ReadPays, Pays
<1>4. (\A k \in Claimers : EvictionPays(k)') /\ SweepPays'
  BY DEF Counted, EvictionPays, SweepPays, Pays, claimVars, ghostVars
<1>5. QED BY <1>2, <1>3, <1>4 DEF Counted

LEMMA RunsCount ==
    ASSUME IInv, Typed', Counted, NEW w \in Workers,
           RunMoves(w) \/ HeartbeatReads(w) \/ Faults(w)
    PROVE  Counted'
<1>1. at[w] # "free" =>
          /\ job[w] \in Tasks /\ attempts[job[w]] \in Nat /\ starts[job[w]] \in Nat
          /\ job[w] \notin overtaken =>
                /\ attempts[job[w]] <= MaxAttempts
                /\ starts[job[w]] <= attempts[job[w]] + 1
                /\ status[job[w]] = "queued" => starts[job[w]] <= attempts[job[w]]
  BY DEF IInv, Typed, TypeOK, Counted, Paid, GivenUp, UnderWay, RunsOn
<1>2. CASE PreflightRefuses(w) \/ MarkRunning(w) \/ Completes(w) \/ Clarifies(w) \/ MarksFailed(w)
  <2>1. \E s \in Statuses \ {"queued"} : \E c, where :
            SetStatus(job[w], s, c) /\ RunGoes(w, where) /\ where # "retry"
    BY <1>2 DEF PreflightRefuses, MarkRunning, Completes, Clarifies, Ends, MarksFailed, Statuses
  <2>2. /\ at[w] # "free" /\ UNCHANGED <<overtaken, claimVars, ghostVars, starts, job, read>>
    BY <1>2 DEF PreflightRefuses, MarkRunning, Completes, Clarifies, Ends, MarksFailed
  <2>3. /\ at'[w] # "retry" /\ status'[job[w]] # "queued" /\ attempts' = attempts
        /\ \A v \in Workers : v # w => at'[v] = at[v]
        /\ \A t \in Tasks : t # job[w] => status'[t] = status[t]
    BY <1>1, <2>1, <2>2 DEF SetStatus, Row, RunGoes, IInv, Typed, TypeOK
  <2>4. QED BY <1>1, <2>2, <2>3, RunStepCounts
<1>3. CASE \/ Register(w) \/ StoresQuestion(w) \/ FailsForGood(w) \/ Unregister(w) \/ CatchThrows(w)
           \/ RefusalIgnored(w)
  <2>1. /\ at[w] # "free" /\ UNCHANGED <<overtaken, claimVars, ghostVars, starts, rowVars, job>>
        /\ \A v \in Workers : v # w => at'[v] = at[v] /\ read'[v] = read[v]
        /\ at'[w] # "retry"
    BY <1>3 DEF Register, StoresQuestion, FailsForGood, Unregister, CatchThrows, RefusalIgnored,
                Tried, RunGoes, IInv, Typed, TypeOK
  <2>2. QED BY <1>1, <2>1, RunStepCounts DEF rowVars
<1>4. CASE FailsTransiently(w)
  <2>1. /\ at[w] # "free" /\ UNCHANGED <<overtaken, claimVars, ghostVars, starts, rowVars, job>>
        /\ \A v \in Workers : v # w => at'[v] = at[v] /\ read'[v] = read[v]
        /\ read'[w] = attempts[job[w]]
    BY <1>4 DEF FailsTransiently, Tried, RunGoes, IInv, Typed, TypeOK
  <2>2. QED BY <1>1, <2>1, RunStepCounts DEF rowVars, Pays
<1>5. CASE Release(w) \/ ReleaseThrows(w) \/ PreflightThrows(w)
  <2>1. /\ at[w] # "free" /\ UNCHANGED <<overtaken, claimVars, ghostVars, starts, rowVars, read>>
        /\ \A v \in Workers : v # w => at'[v] = at[v] /\ job'[v] = job[v]
        /\ job'[w] = Nobody /\ at'[w] = "free"
    BY <1>5 DEF Release, ReleaseThrows, PreflightThrows, RunGoes, IInv, Typed, TypeOK
  <2>2. QED BY <1>1, <2>1, RunStepCounts DEF rowVars
<1>6. CASE Requeues(w)
  <2>1. /\ at[w] = "retry" /\ UNCHANGED <<overtaken, claimVars, ghostVars, starts, job>>
        /\ at'[w] # "retry" /\ read[w] \in Nat
        /\ \A v \in Workers : v # w => at'[v] = at[v] /\ read'[v] = read[v]
    BY <1>6 DEF Requeues, RunGoes, IInv, Typed, TypeOK
  <2>2. job[w] \notin overtaken => starts[job[w]] <= read[w] + 1
    BY <2>1 DEF Counted, ReadPays, Pays
  <2>3. /\ \A t \in Tasks : t # job[w] => status'[t] = status[t] /\ attempts'[t] = attempts[t]
        /\ \/ status'[job[w]] = "failed" /\ attempts'[job[w]] = attempts[job[w]]
           \/ attempts'[job[w]] = read[w] + 1 /\ read[w] + 1 <= MaxAttempts
    BY <1>1, <1>6, <2>1, SlotsAssumption DEF Requeues, Requeue, SetStatus, Row, IInv, Typed, TypeOK
  <2>4. QED BY <1>1, <2>1, <2>2, <2>3, RunStepCounts
<1>7. CASE HeartbeatReads(w) \/ HeartbeatWrites(w)
  BY <1>7 DEF HeartbeatReads, HeartbeatWrites, Counted, Paid, GivenUp, UnderWay, RunsOn, ReadPays,
              EvictionPays, SweepPays, Pays, rowVars, claimVars, ghostVars
<1>8. QED BY <1>2, <1>3, <1>4, <1>5, <1>6, <1>7 DEF RunMoves, Faults

\* What a call of claimBatch changes no count.
LEMMA ClaimStepCounts ==
    ASSUME IInv, Counted, UNCHANGED <<at, job, read, starts, attempts, ghostVars>>,
           overtaken \subseteq overtaken', got'[Loop] \subseteq got[Loop],
           \A t \in Tasks : status'[t] = status[t] \/ (status[t] = "queued" /\ status'[t] = "claimed"),
           \A k \in Claimers : EvictionPays(k)'
    PROVE  Counted'
<1>1. ASSUME NEW t \in Tasks \ overtaken' PROVE Paid(t)'
  <2>1. Paid(t) /\ t \in Tasks
    BY <1>1 DEF Counted
  <2>2. GivenUp(t) => GivenUp(t)'
    BY <2>1 DEF GivenUp, UnderWay, RunsOn
  <2>3. QED BY <2>1, <2>2 DEF Paid
<1>2. (\A w \in Workers : ReadPays(w)') /\ SweepPays'
  BY DEF Counted, ReadPays, SweepPays, Pays, ghostVars
<1>3. QED BY <1>1, <1>2 DEF Counted

LEMMA ClaimersCount ==
    ASSUME IInv, Typed', Counted, NEW k \in Claimers,
           ClaimerMoves(k) \/ ExpiredThrows(k) \/ ClaimThrows(k)
    PROVE  Counted'
<1>1. /\ UNCHANGED <<at, job, read, starts, ghostVars>>
      /\ Loop \in Claimers
      /\ kpc[k] \in {"expiredRead", "expiredWrite", "store"} => cur[k] \in Tasks
      /\ attempts \in [Tasks -> Nat] /\ starts \in [Tasks -> Nat] /\ seen[k] \in Nat
      /\ MaxAttempts \in Nat /\ todo[k] \subseteq Tasks
  BY SlotsAssumption
     DEF ClaimerMoves, Scan, Evict, ExpiredRead, ExpiredWrite, Select, Claim, Store, Report,
         ExpiredThrows, ClaimThrows, runVars, IInv, Typed, TypeOK, Claimers
<1>2. overtaken \subseteq overtaken'
  BY ClaimerEffect DEF Effect
<1>3. ASSUME NEW j \in Claimers, j # k PROVE EvictionPays(j)'
  BY <1>1, <1>2, <1>3, OthersStay DEF IInv, Counted, EvictionPays, Pays
<1>4. CASE \/ Scan(k) \/ Evict(k) \/ Select(k) \/ Store(k) \/ Report(k)
           \/ ExpiredThrows(k) \/ ClaimThrows(k)
  <2>1. UNCHANGED rowVars /\ kpc'[k] # "expiredWrite"
    BY <1>4 DEF Scan, Evict, Select, Store, Report, ExpiredThrows, ClaimThrows, Return,
                IInv, Typed, TypeOK
  <2>2. got'[Loop] \subseteq got[Loop]
    BY <1>1, <1>4 DEF Scan, Evict, Select, Store, Report, ExpiredThrows, ClaimThrows, Return,
                      IInv, Typed, TypeOK
  <2>3. \A j \in Claimers : EvictionPays(j)'
    BY <1>3, <2>1 DEF EvictionPays
  <2>4. QED BY <1>1, <1>2, <2>1, <2>2, <2>3, ClaimStepCounts DEF rowVars
<1>5. CASE ExpiredRead(k)
  <2>1. UNCHANGED <<overtaken, rowVars, got>> /\ cur[k] \in Tasks
    BY <1>1, <1>5 DEF ExpiredRead
  <2>2. EvictionPays(k)'
    <3>1. CASE status[cur[k]] = "running"
      <4>1. cur' = cur /\ seen'[k] = attempts[cur[k]]
        BY <1>1, <1>5, <3>1 DEF ExpiredRead, IInv, Typed, TypeOK
      <4>2. cur[k] \notin overtaken =>
                attempts[cur[k]] <= MaxAttempts /\ starts[cur[k]] <= attempts[cur[k]] + 1
        BY <2>1, <3>1 DEF Counted, Paid, GivenUp
      <4>3. QED BY <1>1, <2>1, <4>1, <4>2 DEF EvictionPays, Pays
    <3>2. CASE status[cur[k]] # "running"
      BY <1>1, <1>5, <3>2 DEF ExpiredRead, EvictionPays, IInv, Typed, TypeOK
    <3>3. QED BY <3>1, <3>2
  <2>3. \A j \in Claimers : EvictionPays(j)'
    BY <1>3, <2>2
  <2>4. QED BY <1>1, <2>1, <2>3, ClaimStepCounts DEF rowVars
<1>6. CASE ExpiredWrite(k)
  <2>1. /\ kpc[k] = "expiredWrite" /\ kpc'[k] = "evict" /\ UNCHANGED <<overtaken, got>>
        /\ cur[k] \in Tasks /\ Evicting(cur[k])
        /\ cur[k] \notin overtaken => starts[cur[k]] <= seen[k] + 1 /\ seen[k] <= MaxAttempts
    BY <1>1, <1>6 DEF ExpiredWrite, Evicting, IInv, Typed, TypeOK, Counted, EvictionPays, Pays
  <2>2. cur[k] \notin overtaken => ~UnderWay(cur[k])
    <3>1. ASSUME NEW w \in Workers, job[w] = cur[k] PROVE cur[k] \in overtaken
      BY <2>1, <3>1, SlotsAssumption DEF IInv, RunOK, Holds
    <3>2. ASSUME cur[k] \in got[Loop] PROVE cur[k] \in overtaken
      BY <2>1, <3>2 DEF IInv, BatchOK, PhasesOK
    <3>3. QED BY <3>1, <3>2 DEF UnderWay, RunsOn
  <2>3. /\ \A t \in Tasks : t # cur[k] => status'[t] = status[t] /\ attempts'[t] = attempts[t]
        /\ \/ UNCHANGED rowVars
           \/ /\ attempts'[cur[k]] = seen[k] + 1
              /\ \/ status'[cur[k]] = "blocked"
                 \/ status'[cur[k]] = "queued" /\ seen[k] + 1 <= MaxAttempts
    BY <1>1, <1>6, <2>1 DEF ExpiredWrite, Row, rowVars, IInv, Typed, TypeOK
  <2>4. ASSUME NEW t \in Tasks \ overtaken' PROVE Paid(t)'
    <3>1. UnderWay(t)' <=> UnderWay(t)
      BY <1>1, <2>1 DEF UnderWay, RunsOn
    <3>2. CASE t = cur[k] /\ ~UNCHANGED rowVars
      <4>1. ~UnderWay(t) /\ t \notin got[Loop]
        BY <2>1, <2>2, <2>4, <3>2 DEF UnderWay
      <4>2. QED BY <1>1, <2>1, <2>3, <2>4, <3>1, <3>2, <4>1 DEF Paid, GivenUp
    <3>3. CASE t # cur[k] \/ UNCHANGED rowVars
      BY <1>1, <2>1, <2>3, <2>4, <3>1, <3>3 DEF Counted, Paid, GivenUp, rowVars
    <3>4. QED BY <3>2, <3>3
  <2>5. EvictionPays(k)'
    BY <2>1 DEF EvictionPays
  <2>6. (\A w \in Workers : ReadPays(w)') /\ SweepPays'
    BY <1>1, <2>1 DEF Counted, ReadPays, SweepPays, Pays, ghostVars
  <2>7. \A j \in Claimers : EvictionPays(j)'
    BY <1>3, <2>5
  <2>8. QED BY <2>4, <2>6, <2>7 DEF Counted
<1>7. CASE Claim(k)
  <2>1. PICK t \in todo[k] :
            IF status[t] = "queued"
            THEN /\ SetStatus(t, "claimed", "young")
                 /\ got' = [got EXCEPT ![k] = @ \cup {t}]
                 /\ kpc' = [kpc EXCEPT ![k] = "store"]
            ELSE UNCHANGED <<rowVars, got, kpc>>
    BY <1>7 DEF Claim, Candidates
  <2>2. kpc'[k] # "expiredWrite" /\ kpc[k] = "claim"
    BY <1>1, <1>7, <2>1 DEF Claim, IInv, Typed, TypeOK
  <2>3. \A j \in Claimers : EvictionPays(j)'
    BY <1>3, <2>2 DEF EvictionPays
  <2>4. CASE status[t] = "queued"
    <3>1. /\ attempts' = attempts /\ status'[t] = "claimed"
          /\ got'[Loop] \subseteq got[Loop] \cup {t}
          /\ \A v \in Tasks : v # t => status'[v] = status[v]
      <4>1. got'[Loop] \subseteq got[Loop] \cup {t}
        <5>1. got' = [got EXCEPT ![k] = @ \cup {t}]
          BY <2>1, <2>4
        <5>2. QED BY <1>1, <5>1 DEF IInv, Typed, TypeOK
      <4>2. QED BY <1>1, <2>1, <2>4, <4>1 DEF SetStatus, Row, IInv, Typed, TypeOK
    <3>2. ASSUME NEW u \in Tasks \ overtaken' PROVE Paid(u)'
      <4>1. Paid(u) /\ u \in Tasks
        BY <1>2, <3>2 DEF Counted
      <4>2. CASE u = t
        BY <1>1, <2>4, <3>1, <4>1, <4>2 DEF Paid, GivenUp
      <4>3. CASE u # t
        <5>1. GivenUp(u) => GivenUp(u)'
          BY <1>1, <3>1, <4>3 DEF GivenUp, UnderWay, RunsOn
        <5>2. QED BY <1>1, <3>1, <4>1, <4>3, <5>1 DEF Paid
      <4>4. QED BY <4>2, <4>3
    <3>3. (\A w \in Workers : ReadPays(w)') /\ SweepPays'
      BY <1>1, <1>2 DEF Counted, ReadPays, SweepPays, Pays, ghostVars
    <3>4. QED BY <2>3, <3>2, <3>3 DEF Counted
  <2>5. CASE status[t] # "queued"
    BY <1>1, <1>2, <2>1, <2>3, <2>5, ClaimStepCounts DEF rowVars
  <2>6. QED BY <2>4, <2>5
<1>8. QED BY <1>4, <1>5, <1>6, <1>7 DEF ClaimerMoves

LEMMA StartCounts ==
    ASSUME IInv, Typed', Counted, Start
    PROVE  Counted'
<1>1. PICK crew \in SUBSET Workers :
          /\ \A w \in crew : at'[w] = "preflight" /\ job'[w] \in got[Loop]
          /\ \A w \in Workers \ crew : at'[w] = at[w] /\ job'[w] = job[w]
  BY StartAdds DEF IInv
<1>2. /\ starts' = [t \in Tasks |-> IF t \in got[Loop] THEN starts[t] + 1 ELSE starts[t]]
      /\ kpc[Loop] = "claim" /\ kpc'[Loop] = "idle" /\ got'[Loop] = {}
      /\ \A k \in Claimers : k # Loop => kpc'[k] = kpc[k] /\ cur'[k] = cur[k] /\ seen'[k] = seen[k]
      /\ UNCHANGED <<overtaken, rowVars, read, ghostVars>>
      /\ starts \in [Tasks -> Nat] /\ attempts \in [Tasks -> Nat] /\ MaxAttempts \in Nat
  BY SlotsAssumption DEF Start, Return, IInv, Typed, TypeOK, Claimers
<1>3. ASSUME NEW t \in Tasks \ overtaken' PROVE Paid(t)'
  <2>1. Paid(t)
    BY <1>2, <1>3 DEF Counted
  <2>2. CASE t \in got[Loop]
    <3>1. /\ starts[t] <= attempts[t] /\ attempts[t] <= MaxAttempts
          /\ starts[t] \in Nat /\ attempts[t] \in Nat
      BY <1>2, <2>1, <2>2 DEF Paid, GivenUp, UnderWay
    <3>2. starts'[t] = starts[t] + 1 /\ attempts'[t] = attempts[t] /\ status'[t] = status[t]
      BY <1>2, <2>2 DEF rowVars
    <3>3. status[t] # "queued"
      BY <1>2, <1>3, <2>2 DEF IInv, BatchOK
    <3>4. QED BY <1>2, <3>1, <3>2, <3>3 DEF Paid
  <2>3. CASE t \notin got[Loop]
    <3>1. GivenUp(t) => GivenUp(t)'
      BY <1>1, <1>2, <2>3 DEF GivenUp, UnderWay, RunsOn, rowVars
    <3>2. QED BY <1>2, <2>1, <2>3, <3>1 DEF Paid, rowVars
  <2>4. QED BY <2>2, <2>3
<1>4. ASSUME NEW w \in Workers PROVE ReadPays(w)'
  <2>1. CASE w \in crew
    BY <1>1, <2>1 DEF ReadPays
  <2>2. CASE w \notin crew
    <3>1. at[w] = "retry" /\ job[w] \notin overtaken => job[w] \in Tasks /\ job[w] \notin got[Loop]
      BY DEF IInv, Typed, RunOK, Holds
    <3>2. QED BY <1>1, <1>2, <2>2, <3>1 DEF Counted, ReadPays, Pays
  <2>3. QED BY <2>1, <2>2
<1>5. ASSUME NEW k \in Claimers PROVE EvictionPays(k)'
  <2>1. kpc[k] = "expiredWrite" /\ cur[k] \notin overtaken => cur[k] \in Tasks /\ cur[k] \notin got[Loop]
    BY <1>2 DEF IInv, Typed, BatchOK, Evicting
  <2>2. QED BY <1>2, <2>1 DEF Counted, EvictionPays, Pays
<1>6. SweepPays'
  <2>1. gpc = "write" /\ gcur \notin overtaken => gcur \in Tasks /\ gcur \notin got[Loop]
    BY <1>2 DEF IInv, Typed, GhostOK, BatchOK
  <2>2. QED BY <1>2, <2>1 DEF Counted, SweepPays, Pays, ghostVars
<1>7. QED BY <1>3, <1>4, <1>5, <1>6 DEF Counted

LEMMA SweepCounts ==
    ASSUME IInv, Typed', Counted, GhostMoves \/ SweepThrows
    PROVE  Counted'
<1>1. /\ UNCHANGED <<overtaken, at, job, read, starts, claimVars>>
      /\ attempts \in [Tasks -> Nat] /\ starts \in [Tasks -> Nat] /\ MaxAttempts \in Nat
      /\ ghosts \subseteq Tasks
  BY SlotsAssumption DEF GhostMoves, GhostsSelected, GhostsFound, GhostsCleared, GhostRead,
                         GhostRequeued, SweepThrows, runVars, IInv, Typed, TypeOK
<1>2. (\A w \in Workers : ReadPays(w)') /\ (\A k \in Claimers : EvictionPays(k)')
  BY <1>1 DEF Counted, ReadPays, EvictionPays, Pays, claimVars
<1>3. CASE GhostsSelected \/ GhostsFound \/ GhostsCleared \/ GhostRead \/ SweepThrows
  <2>1. /\ UNCHANGED <<status, attempts>>
        /\ gpc' = "write" => gcur' \in Tasks /\ gseen' = attempts[gcur']
    BY <1>1, <1>3 DEF GhostsSelected, GhostsFound, GhostsCleared, GhostRead, SweepThrows,
                      SweepIsOver, rowVars
  <2>2. QED BY <1>1, <1>2, <2>1 DEF Counted, Paid, GivenUp, UnderWay, RunsOn, SweepPays, Pays, claimVars
<1>4. CASE GhostRequeued
  <2>1. /\ gcur \in Tasks /\ gseen \in Nat /\ gpc' = "read"
        /\ gcur \notin overtaken => starts[gcur] <= gseen + 1
    BY <1>4 DEF GhostRequeued, IInv, Typed, TypeOK, Counted, SweepPays, Pays
  <2>2. /\ \A t \in Tasks : t # gcur => status'[t] = status[t] /\ attempts'[t] = attempts[t]
        /\ \/ status'[gcur] = "failed" /\ attempts'[gcur] = attempts[gcur]
           \/ attempts'[gcur] = gseen + 1 /\ gseen + 1 <= MaxAttempts
    BY <1>1, <1>4, <2>1 DEF GhostRequeued, Requeue, SetStatus, Row, IInv, Typed, TypeOK
  <2>3. gcur \notin overtaken => gcur \notin got[Loop]
    BY <1>4 DEF GhostRequeued, IInv, GhostOK, BatchOK, PhasesOK
  <2>4. ASSUME NEW t \in Tasks \ overtaken' PROVE Paid(t)'
    <3>1. UnderWay(t)' <=> UnderWay(t)
      BY <1>1 DEF UnderWay, RunsOn, claimVars
    <3>2. Paid(t) /\ got' = got
      BY <1>1, <2>4 DEF Counted, claimVars
    <3>3. CASE t = gcur
      BY <1>1, <2>1, <2>2, <2>3, <2>4, <3>1, <3>2, <3>3 DEF Paid, GivenUp
    <3>4. CASE t # gcur
      BY <1>1, <2>2, <3>1, <3>2, <3>4 DEF Paid, GivenUp
    <3>5. QED BY <3>3, <3>4
  <2>5. QED BY <1>2, <2>1, <2>4 DEF Counted, SweepPays
<1>5. QED BY <1>3, <1>4 DEF GhostMoves

LEMMA WorldCounts ==
    ASSUME IInv, Typed', Counted,
           \/ \E t \in Tasks : Cancel(t) \/ SlotExpires(t) \/ RetryDue(t) \/ ClaimAges(t)
           \/ Crash
           \/ UNCHANGED vars
    PROVE  Counted'
<1>1. CASE \/ \E t \in Tasks : SlotExpires(t) \/ RetryDue(t) \/ ClaimAges(t)
           \/ UNCHANGED vars
  <2>1. /\ UNCHANGED <<status, attempts, starts, at, job, read, claimVars, ghostVars>>
        /\ overtaken \subseteq overtaken'
    BY <1>1 DEF SlotExpires, RetryDue, ClaimAges, Overtake, vars, rowVars, runVars
  <2>2. QED BY <2>1 DEF Counted, Paid, GivenUp, UnderWay, RunsOn, ReadPays, EvictionPays, SweepPays,
                        Pays, claimVars, ghostVars
<1>2. ASSUME NEW t \in Tasks, Cancel(t) PROVE Counted'
  <2>1. /\ UNCHANGED <<overtaken, starts, at, job, read, claimVars, ghostVars>> /\ attempts' = attempts
        /\ status'[t] = "cancelled"
        /\ \A u \in Tasks : u # t => status'[u] = status[u]
    BY <1>2 DEF Cancel, Row, runVars, IInv, Typed, TypeOK
  <2>2. QED BY <2>1 DEF Counted, Paid, GivenUp, UnderWay, RunsOn, ReadPays, EvictionPays, SweepPays,
                        Pays, claimVars, ghostVars
<1>3. CASE Crash
  <2>1. /\ UNCHANGED <<overtaken, status, attempts, starts>>
        /\ \A k \in Claimers : kpc'[k] = "idle" /\ got'[k] = {}
        /\ gpc' = "idle" /\ Loop \in Claimers /\ Nobody \notin Tasks
        /\ \A w \in Workers : at'[w] = "free" /\ job'[w] = Nobody
    BY <1>3, SlotsAssumption DEF Crash, SweepIsOver, rowVars, Claimers
  <2>2. \A t \in Tasks : ~UnderWay(t)'
    BY <2>1 DEF UnderWay, RunsOn
  <2>3. QED BY <2>1, <2>2 DEF Counted, Paid, GivenUp, ReadPays, EvictionPays, SweepPays
<1>4. QED BY <1>1, <1>2, <1>3

LEMMA CountedInvariance == Spec => []Counted
<1>1. Init => Counted
  BY SlotsAssumption DEF Init, Claimers, Counted, Paid, GivenUp, ReadPays, EvictionPays, SweepPays
<1>2. Counted /\ IInv /\ Typed' /\ [Next]_vars => Counted'
  BY ClaimersCount, StartCounts, RunsCount, SweepCounts, WorldCounts DEF Next, Faults
<1>3. QED BY <1>1, <1>2, IInvariance, Typing0, PTL DEF Spec

\* No start is free of charge, and no task that was not overtaken starts, or is
\* counted, more than once beyond MaxAttempts, although four places, and any
\* number of callers, read a count and write it back later.
THEOREM StartsAreCountedAlways == Spec => []StartsAreCounted
<1>1. IInv /\ Counted => StartsAreCounted
  BY SlotsAssumption DEF IInv, Typed, TypeOK, Counted, Paid, GivenUp, StartsAreCounted
<1>2. QED BY <1>1, IInvariance, CountedInvariance, PTL

-----------------------------------------------------------------------------
(* The promise of TaskDispatch *)

\* What a step amounts to for those who queue tasks.
Quiet == UNCHANGED <<setup, overtaken, RunningView, StartsView>>
Ends1 ==
    /\ UNCHANGED <<setup, overtaken, StartsView>>
    /\ \E t \in Tasks : RunningView' = RunningView \ {t}
Loses ==
    /\ UNCHANGED setup
    /\ \E t \in Tasks : /\ overtaken' = overtaken \cup {t}
                        /\ RunningView' = RunningView \ {t}
                        /\ StartsView' = [StartsView EXCEPT ![t] = 0]

\* A step that starts and ends nothing, and overtakes nobody.
LEMMA SameRuns ==
    ASSUME UNCHANGED <<setup, overtaken, at, job, starts>> \/ UNCHANGED <<setup, overtaken, Live, job, starts>>
    PROVE  Quiet
BY DEF Quiet, RunningView, StartsView, Live

LEMMA OvertakeLoses ==
    ASSUME NEW t \in Tasks, NEW S, Overtake({t} \cap S), UNCHANGED <<setup, at, job, starts>>
    PROVE  Quiet \/ Loses
<1>1. CASE t \in S
  <2>1. overtaken' = overtaken \cup {t} /\ Live' = Live
    BY <1>1 DEF Overtake, Live
  <2>2. RunningView' = RunningView \ {t}
    BY <2>1 DEF RunningView
  <2>3. StartsView' = [StartsView EXCEPT ![t] = 0]
    BY <2>1 DEF StartsView
  <2>4. QED BY <2>1, <2>2, <2>3 DEF Loses
<1>2. CASE t \notin S
  BY <1>2, SameRuns DEF Overtake
<1>3. QED BY <1>1, <1>2

LEMMA RunsRefine ==
    ASSUME IInv, NEW w \in Workers, RunMoves(w) \/ HeartbeatReads(w) \/ Faults(w)
    PROVE  Quiet \/ Ends1
<1>1. CASE PreflightThrows(w) \/ Release(w) \/ ReleaseThrows(w)
  <2>1. /\ UNCHANGED <<setup, overtaken, starts>> /\ w \in Live /\ job[w] \in Tasks
        /\ \A v \in Workers : v # w => at'[v] = at[v] /\ job'[v] = job[v]
        /\ at'[w] = "free"
    BY <1>1 DEF PreflightThrows, Release, ReleaseThrows, RunGoes, Live, IInv, Typed, TypeOK
  <2>2. \A v \in Live : v # w /\ job[v] = job[w] => job[w] \in overtaken
    BY <2>1 DEF IInv, OneRunPerTask
  <2>3. Live' = Live \ {w} /\ \A v \in Live' : job'[v] = job[v]
    BY <2>1 DEF Live
  <2>4. RunningView' = RunningView \ {job[w]}
    BY <2>1, <2>2, <2>3 DEF RunningView
  <2>5. StartsView' = StartsView
    BY <2>1 DEF StartsView
  <2>6. QED BY <2>1, <2>4, <2>5 DEF Ends1
<1>2. CASE ~(PreflightThrows(w) \/ Release(w) \/ ReleaseThrows(w))
  <2>1. /\ UNCHANGED <<setup, overtaken, job, starts>>
        /\ at' = at \/ (at[w] # "free" /\ \E where : where # "free" /\ RunGoes(w, where))
    BY <1>2 DEF RunMoves, PreflightRefuses, Register, MarkRunning, Completes, Clarifies, Ends,
                StoresQuestion, FailsTransiently, Requeues, FailsForGood, MarksFailed, Unregister,
                HeartbeatWrites, HeartbeatReads, Faults, RefusalIgnored, CatchThrows, Tried
  <2>2. Live' = Live
    BY <2>1 DEF RunGoes, Live, IInv, Typed, TypeOK
  <2>3. QED BY <2>1, <2>2, SameRuns
<1>3. QED BY <1>1, <1>2

LEMMA ClaimersRefine ==
    ASSUME IInv, NEW k \in Claimers, ClaimerMoves(k) \/ ExpiredThrows(k) \/ ClaimThrows(k)
    PROVE  Quiet \/ Loses
<1>1. UNCHANGED <<setup, at, job, starts>> /\ todo[k] \subseteq Tasks
  BY DEF ClaimerMoves, Scan, Evict, ExpiredRead, ExpiredWrite, Select, Claim, Store, Report,
         ExpiredThrows, ClaimThrows, runVars, IInv, Typed, TypeOK
<1>2. CASE Evict(k)
  BY <1>1, <1>2, OvertakeLoses DEF Evict
<1>3. CASE Claim(k)
  <2>1. \/ UNCHANGED overtaken
        \/ \E t \in todo[k] : Overtake({t} \cap {u \in Tasks : k = Loop /\ Evicting(u)})
    BY <1>3 DEF Claim, Candidates
  <2>2. QED BY <1>1, <2>1, OvertakeLoses, SameRuns
<1>4. CASE ~(Evict(k) \/ Claim(k))
  BY <1>1, <1>4, SameRuns DEF ClaimerMoves, Scan, ExpiredRead, ExpiredWrite, Select, Store, Report,
                              ExpiredThrows, ClaimThrows
<1>5. QED BY <1>2, <1>3, <1>4

LEMMA WorldRefines ==
    ASSUME IInv,
           \/ GhostMoves \/ SweepThrows
           \/ \E t \in Tasks : Cancel(t) \/ SlotExpires(t) \/ RetryDue(t) \/ ClaimAges(t)
           \/ UNCHANGED vars
    PROVE  Quiet \/ Loses
<1>1. UNCHANGED <<setup, at, job, starts>>
  BY DEF GhostMoves, GhostsSelected, GhostsFound, GhostsCleared, GhostRead, GhostRequeued,
         SweepThrows, Cancel, SlotExpires, RetryDue, ClaimAges, vars, runVars
<1>2. ASSUME NEW t \in Tasks, SlotExpires(t) PROVE Quiet \/ Loses
  BY <1>1, <1>2, OvertakeLoses DEF SlotExpires
<1>3. ASSUME NEW t \in Tasks, RetryDue(t) PROVE Quiet \/ Loses
  BY <1>1, <1>3, OvertakeLoses DEF RetryDue
<1>4. CASE \/ GhostMoves \/ SweepThrows \/ (\E t \in Tasks : Cancel(t) \/ ClaimAges(t))
           \/ UNCHANGED vars
  BY <1>1, <1>4, SameRuns DEF GhostMoves, GhostsSelected, GhostsFound, GhostsCleared, GhostRead,
                              GhostRequeued, SweepThrows, Cancel, ClaimAges, vars
<1>5. QED BY <1>2, <1>3, <1>4

\* The loop starts what it has claimed: none of it runs, and every start is
\* paid for.
LEMMA StartRefines ==
    ASSUME IInv, Counted, Start, NEW batch, batch = got[Loop] \ overtaken
    PROVE  /\ batch \subseteq Tasks
           /\ RunningView' = RunningView \cup batch
           /\ batch \cap (RunningView \cup overtaken) = {}
           /\ \A t \in batch : StartsView[t] < MaxAttempts + 1
           /\ StartsView' = [t \in Tasks |-> IF t \in batch THEN StartsView[t] + 1 ELSE StartsView[t]]
           /\ UNCHANGED <<setup, overtaken>>
<1>1. PICK crew \in SUBSET Workers :
          /\ \A w \in crew : /\ at[w] = "free" /\ at'[w] = "preflight"
                             /\ job'[w] \in got[Loop]
          /\ \A t \in got[Loop] : \E w \in crew : job'[w] = t
          /\ \A w \in Workers \ crew : at'[w] = at[w] /\ job'[w] = job[w]
  BY StartAdds DEF IInv
<1>2. /\ kpc[Loop] = "claim" /\ got[Loop] \subseteq Tasks
      /\ UNCHANGED <<setup, overtaken>>
      /\ starts' = [t \in Tasks |-> IF t \in got[Loop] THEN starts[t] + 1 ELSE starts[t]]
  BY DEF Start, IInv, Typed, TypeOK, Claimers
<1>3. Live' = Live \cup crew /\ \A w \in Live : job'[w] = job[w]
  BY <1>1 DEF Live
<1>4. RunningView' = RunningView \cup batch
  BY <1>1, <1>2, <1>3 DEF RunningView
<1>5. batch \cap RunningView = {}
  BY <1>2 DEF IInv, RunOK, Holds, RunningView, Live
<1>6. ASSUME NEW t \in batch PROVE StartsView[t] < MaxAttempts + 1
  <2>1. /\ t \in Tasks /\ t \in got[Loop] /\ t \notin overtaken
        /\ starts[t] \in Nat /\ attempts[t] \in Nat /\ MaxAttempts \in Nat
    BY <1>2, SlotsAssumption DEF IInv, Typed, TypeOK
  <2>2. starts[t] <= attempts[t] /\ attempts[t] <= MaxAttempts
    BY <2>1 DEF Counted, Paid, GivenUp, UnderWay
  <2>3. QED BY <2>1, <2>2 DEF StartsView
<1>7. StartsView' = [t \in Tasks |-> IF t \in batch THEN StartsView[t] + 1 ELSE StartsView[t]]
  BY <1>2 DEF StartsView
<1>8. QED BY <1>2, <1>4, <1>5, <1>6, <1>7

\* The tasks that run fit together, as the runs do.
Compat == Cardinality(RunningView) <= MaxSlots
          /\ \A t, u \in RunningView : Repo[t] = Repo[u] /\ Repo[t] # NoRepo => t = u

LEMMA RunsAreCompatible ==
    ASSUME IInv, Fits
    PROVE  Compat
<1>1. IsFiniteSet(Kept)
  BY SlotsAssumption, FS_Subset DEF Kept, Live
<1>2. Cardinality(RunningView) <= Cardinality(Kept) /\ IsFiniteSet(RunningView)
  <2> DEFINE f == [t \in RunningView |-> CHOOSE w \in Kept : job[w] = t]
  <2>1. \A t \in RunningView : f[t] \in Kept /\ job[f[t]] = t
    BY DEF RunningView, Kept
  <2>2. f \in Injection(RunningView, Kept)
    BY <2>1 DEF Injection, IsInjective
  <2>3. QED BY <1>1, <2>2, FS_Injection
<1>3. /\ Cardinality(RunningView) \in Nat /\ Cardinality(Kept) \in Nat
      /\ MaxSlots \in Nat /\ Cardinality(Kept) <= MaxSlots
  BY <1>1, <1>2, FS_CardinalityType, SlotsAssumption
     DEF MaxSlots, IInv, Typed, TypeOK, Fits, RunsWithinCap, Kept
<1>4. \A t, u \in RunningView : Repo[t] = Repo[u] /\ Repo[t] # NoRepo => t = u
  BY DEF RunningView, Fits, RepoIsExclusive
<1>5. QED BY <1>2, <1>3, <1>4 DEF Compat

LEMMA SameCardinality == \A S : Promise!Cardinality(S) = Cardinality(S)
  BY DEF Promise!Cardinality, Cardinality

\* TaskSlots keeps the promise of TaskDispatch, whoever calls claimBatch and
\* whatever is overtaken: the tasks that are not start side by side in batches
\* that fit the slots and repos, each a bounded number of times, and end.
THEOREM DispatchRefinement == Spec => ImplementsDispatch
<1>1. Init => Promise!Init
  <2> SUFFICES ASSUME Init PROVE Promise!Init
    OBVIOUS
  <2>1. Live = {} /\ RunningView = {} /\ StartsView = [t \in Tasks |-> 0]
    BY DEF Init, Live, RunningView, StartsView
  <2>2. MaxSlots \in Nat \ {0} /\ DOMAIN Repo = Tasks /\ overtaken = {}
    BY SlotsAssumption DEF Init, MaxSlots, Repo
  <2>3. QED BY <2>1, <2>2 DEF Promise!Init
<1>2. ASSUME IInv, Counted, Compat', [Next]_vars
      PROVE  Promise!Next \/ UNCHANGED Promise!dispatchVars
  <2> DEFINE Refined == Promise!Next \/ UNCHANGED Promise!dispatchVars
  <2>1. ASSUME Quiet \/ Ends1 \/ Loses PROVE Refined
    <3>1. UNCHANGED <<MaxSlots, Repo>>
      BY <2>1 DEF Quiet, Ends1, Loses, MaxSlots, Repo
    <3>2. CASE Quiet
      BY <3>1, <3>2 DEF Quiet, Promise!dispatchVars
    <3>3. CASE Ends1
      BY <3>1, <3>3 DEF Ends1, Promise!Next, Promise!End
    <3>4. CASE Loses
      BY <3>1, <3>4 DEF Loses, Promise!Next, Promise!Lose
    <3>5. QED BY <2>1, <3>2, <3>3, <3>4
  <2>2. ASSUME NEW k \in Claimers, ClaimerMoves(k) \/ ExpiredThrows(k) \/ ClaimThrows(k)
        PROVE  Refined
    BY <1>2, <2>1, <2>2, ClaimersRefine
  <2>3. CASE Start
    <3> DEFINE batch == got[Loop] \ overtaken
    <3>0. /\ batch \subseteq Tasks
          /\ RunningView' = RunningView \cup batch
          /\ batch \cap (RunningView \cup overtaken) = {}
          /\ \A t \in batch : StartsView[t] < MaxAttempts + 1
          /\ StartsView' = [t \in Tasks |-> IF t \in batch THEN StartsView[t] + 1 ELSE StartsView[t]]
          /\ UNCHANGED <<setup, overtaken>>
      BY <1>2, <2>3, StartRefines
    <3> HIDE DEF batch
    <3>1. UNCHANGED <<MaxSlots, Repo>>
      BY <3>0 DEF MaxSlots, Repo
    <3>2. CASE batch = {}
      <4>1. StartsView' = StartsView
        BY <3>0, <3>2 DEF StartsView
      <4>2. QED BY <3>0, <3>1, <3>2, <4>1 DEF Promise!dispatchVars
    <3>3. CASE batch # {}
      <4>1. Promise!Start(batch)
        <5>1. Promise!Compatible(RunningView')
          BY <1>2, <3>1, SameCardinality DEF Promise!Compatible, Compat
        <5>2. QED BY <3>0, <3>1, <5>1 DEF Promise!Start
      <4>2. batch \in (SUBSET Tasks) \ {{}}
        BY <3>0, <3>3
      <4>3. QED BY <4>1, <4>2 DEF Promise!Next
    <3>4. QED BY <3>2, <3>3
  <2>4. ASSUME NEW w \in Workers, RunMoves(w) \/ HeartbeatReads(w) \/ Faults(w)
        PROVE  Refined
    BY <1>2, <2>1, <2>4, RunsRefine
  <2>5. CASE \/ GhostMoves \/ SweepThrows
             \/ (\E t \in Tasks : Cancel(t) \/ SlotExpires(t) \/ RetryDue(t) \/ ClaimAges(t))
             \/ UNCHANGED vars
    BY <1>2, <2>1, <2>5, WorldRefines
  <2>6. CASE Crash
    <3>1. RunningView' = {} /\ UNCHANGED <<setup, overtaken, StartsView>>
      BY <2>6 DEF Crash, RunningView, StartsView, Live
    <3>2. QED BY <3>1 DEF Promise!Next, Promise!Crash, MaxSlots, Repo
  <2>7. CASE \E k \in Claimers : ClaimerMoves(k) \/ ExpiredThrows(k) \/ ClaimThrows(k)
    BY <2>2, <2>7
  <2>8. CASE \E w \in Workers : RunMoves(w) \/ HeartbeatReads(w) \/ Faults(w)
    BY <2>4, <2>8
  <2>9. CASE Next
    BY <2>3, <2>5, <2>6, <2>7, <2>8, <2>9 DEF Next, Faults
  <2>10. QED BY <1>2, <2>5, <2>9
<1>3. IInv /\ Fits => Compat
  BY RunsAreCompatible
<1>4. IInv /\ Counted /\ Compat' /\ [Next]_vars => [Promise!Next]_(Promise!dispatchVars)
  BY <1>2
<1>5. QED
  BY <1>1, <1>3, <1>4, IInvariance, FitsInvariance, CountedInvariance, PTL
     DEF Spec, ImplementsDispatch, Promise!Spec
=============================================================================
