-------------------------- MODULE CronDispatchProofs --------------------------
(***************************************************************************)
(* Proofs about CronDispatch for any jobs, any number of lines of ticks,   *)
(* any tick limit and any number of faults.                                *)
(***************************************************************************)
EXTENDS CronDispatch, FiniteSetTheorems, TLAPS

LEMMA Shapes ==
    ASSUME TypeOK
    PROVE  /\ setup.jobs \in [Jobs -> [kind : {"internal", "task", "reminder"},
                                       schedule : {"once", "recurring", "invalid"},
                                       next : Runs]]
           /\ setup.active \in SUBSET Dispatchers
           /\ setup.faults \in Nat
BY CronAssumption DEF TypeOK, SetupShape

LEMMA NextRuns ==
    ASSUME TypeOK, NEW j \in Jobs, NEW t \in 0 .. MaxTime
    PROVE  NextRunAfter(j, t) \in Runs
BY CronAssumption DEF NextRunAfter, Runs, Times

LEMMA NextRunMoves ==
    ASSUME TypeOK, NEW j \in Jobs, NEW t \in 0 .. MaxTime,
           \/ nextRun' = [nextRun EXCEPT ![j] = IF NextRunAfter(j, t) = Null
                                                THEN @ ELSE NextRunAfter(j, t)]
           \/ UNCHANGED nextRun
    PROVE  nextRun' \in [Jobs -> Runs]
<1>1. ASSUME NEW r \in Runs, nextRun' = [nextRun EXCEPT ![j] = r]
      PROVE  nextRun' \in [Jobs -> Runs]
  BY <1>1 DEF TypeOK
<1>2. nextRun \in [Jobs -> Runs] /\ nextRun[j] \in Runs
  BY DEF TypeOK
<1>3. CASE NextRunAfter(j, t) = Null
  BY <1>1, <1>2, <1>3
<1>4. CASE NextRunAfter(j, t) # Null
  BY <1>1, <1>2, <1>4, NextRuns
<1>5. QED BY <1>3, <1>4

-----------------------------------------------------------------------------
(* Types *)

LEMMA TypesOfTries ==
    ASSUME TypeOK, NEW d \in Dispatchers, NEW j \in Jobs, NEW ok \in BOOLEAN,
           Tried(d, j, ok), UNCHANGED <<firedFor, doubled>> \/ Took(d, j),
           UNCHANGED crossed \/ Cross({j}), UNCHANGED faults \/ Fault
    PROVE  TypeOK'
<1>1. /\ attempts' \in [Jobs -> Nat]
      /\ batch' \in [Dispatchers -> SUBSET Jobs]
      /\ doing' \in [Dispatchers -> {Null} \cup [job : Jobs, ok : BOOLEAN]]
  BY DEF Tried, TypeOK
<1>2. /\ firedFor' \in [Jobs -> SUBSET Runs]
      /\ doubled' \subseteq Jobs
  <2>1. CASE UNCHANGED <<firedFor, doubled>>
    BY <2>1 DEF TypeOK
  <2>2. ASSUME NEW run \in Runs,
               firedFor' = [firedFor EXCEPT ![j] = @ \cup {run}],
               doubled' = IF run \in firedFor[j] THEN doubled \cup {j} ELSE doubled
        PROVE  firedFor' \in [Jobs -> SUBSET Runs] /\ doubled' \subseteq Jobs
    BY <2>2 DEF TypeOK
  <2>3. seen[d][j].next \in Runs
    BY DEF TypeOK
  <2>4. QED BY <2>1, <2>2, <2>3 DEF Took
<1>3. faults' \in 0 .. setup.faults /\ crossed' \subseteq Jobs
  BY Shapes DEF Fault, Cross, TypeOK
<1>4. QED BY <1>1, <1>2, <1>3 DEF Tried, TypeOK, rowVars, startVars

LEMMA TypesOfReads ==
    ASSUME TypeOK, NEW d \in Dispatchers, Select(d)
    PROVE  TypeOK'
<1>1. /\ batch' \in [Dispatchers -> SUBSET Jobs]
      /\ clock' \in [Dispatchers -> 0 .. MaxTime]
  BY DEF Select, DueJobs, TypeOK
<1>2. seen' \in [Dispatchers -> [Jobs -> [failures : Nat, next : Runs]]]
  BY DEF Select, TypeOK, Runs
<1>3. crossed' \subseteq Jobs
  BY <1>1 DEF Select, Cross, TypeOK
<1>4. QED BY <1>1, <1>2, <1>3 DEF Select, TypeOK, rowVars, startVars

LEMMA TypesOfRecords ==
    ASSUME TypeOK, NEW d \in Dispatchers, Records(d)
    PROVE  TypeOK'
<1> DEFINE j == doing[d].job
<1>1. doing[d] \in [job : Jobs, ok : BOOLEAN] /\ j \in Jobs
  BY DEF Records, TypeOK
<1>2. enabled' \in [Jobs -> BOOLEAN]
  BY <1>1 DEF Records, TypeOK, EnabledAfter
<1>3. failures' \in [Jobs -> Nat]
  BY <1>1 DEF Records, TypeOK
<1>4. nextRun' \in [Jobs -> Runs]
  <2>1. NextRunOnSuccess(d, j) \in Runs
    BY <1>1, NextRuns DEF TypeOK, NextRunOnSuccess
  <2>2. nextRun' = [nextRun EXCEPT ![j] = IF doing[d].ok THEN NextRunOnSuccess(d, j) ELSE @]
    BY DEF Records
  <2> HIDE DEF j
  <2>3. QED BY <1>1, <2>1, <2>2 DEF TypeOK
<1>5. doing' \in [Dispatchers -> {Null} \cup [job : Jobs, ok : BOOLEAN]]
  BY DEF Records, TypeOK
<1>6. QED BY <1>2, <1>3, <1>4, <1>5 DEF Records, TypeOK, startVars, history

LEMMA TypesStep ==
    ASSUME TypeOK, [Next]_vars
    PROVE  TypeOK'
<1>1. CASE Tick
  BY <1>1, CronAssumption DEF Tick, TypeOK, rowVars, tickVars, startVars, history
<1>2. ASSUME NEW j \in Jobs, Initialises(j) PROVE TypeOK'
  <2>1. nextRun' \in [Jobs -> Runs]
    BY <1>2, NextRunMoves DEF Initialises, TypeOK
  <2>2. crossed' \subseteq Jobs
    BY <1>2 DEF Initialises, Cross, TypeOK
  <2>3. QED BY <1>2, <2>1, <2>2 DEF Initialises, TypeOK, tickVars
<1>3. ASSUME NEW d \in Dispatchers, NEW j \in Jobs, SkipsInternal(d, j) PROVE TypeOK'
  <2>1. nextRun' \in [Jobs -> Runs]
    <3>1. clock[d] \in 0 .. MaxTime
      BY DEF TypeOK
    <3>2. QED BY <1>3, <3>1, NextRunMoves DEF SkipsInternal
  <2>2. faults' \in 0 .. setup.faults
    BY <1>3, Shapes DEF SkipsInternal, TypeOK, Fault, NoFault
  <2>3. batch' \in [Dispatchers -> SUBSET Jobs]
    BY <1>3 DEF SkipsInternal, TypeOK
  <2>4. QED BY <1>3, <2>1, <2>2, <2>3 DEF SkipsInternal, TypeOK, startVars, history
<1>4. ASSUME NEW d \in Dispatchers, NEW j \in Jobs,
             Fires(d, j) \/ ReachesNobody(d, j) \/ PushThrows(d, j)
      PROVE  TypeOK'
  <2>1. \E ok \in BOOLEAN : Tried(d, j, ok)
    BY <1>4 DEF Fires, ReachesNobody, PushThrows
  <2>2. /\ UNCHANGED <<firedFor, doubled>> \/ Took(d, j)
        /\ UNCHANGED crossed \/ Cross({j})
        /\ UNCHANGED faults \/ Fault
    BY <1>4 DEF Fires, ReachesNobody, PushThrows, NoFault
  <2>3. QED BY <2>1, <2>2, TypesOfTries
<1>5. ASSUME NEW d \in Dispatchers, RecordFails(d) \/ Dies(d) PROVE TypeOK'
  <2>1. faults' \in 0 .. setup.faults
    BY <1>5, Shapes DEF RecordFails, Dies, Fault, TypeOK
  <2>2. /\ batch' \in [Dispatchers -> SUBSET Jobs]
        /\ doing' \in [Dispatchers -> {Null} \cup [job : Jobs, ok : BOOLEAN]]
        /\ crossed' \subseteq Jobs
    BY <1>5 DEF RecordFails, Dies, Cross, Unrecorded, TypeOK
  <2>3. QED BY <1>5, <2>1, <2>2 DEF RecordFails, Dies, TypeOK, rowVars, startVars
<1>6. CASE UNCHANGED vars
  BY <1>6 DEF vars, TypeOK, rowVars, tickVars, startVars, history
<1>7. QED BY <1>1, <1>2, <1>3, <1>4, <1>5, <1>6, TypesOfReads, TypesOfRecords DEF Next, Handles

\* The columns of cron_jobs and the state of every tick keep their types.
THEOREM Typing == Spec => []TypeOK
<1>1. Init => TypeOK
  BY CronAssumption DEF Init, TypeOK, SetupShape, Runs
<1>2. QED BY <1>1, TypesStep, PTL DEF Spec

-----------------------------------------------------------------------------
(* Columns a tick may not write *)

\* A one-shot that was retired by one line of ticks stays retired, although
\* the UPDATE of another one writes what it computed from an earlier read.
THEOREM Retirement == Spec => RetiredStaysRetired
<1>1. ASSUME TypeOK, [Next]_vars, NEW j \in Jobs, ~enabled[j] PROVE ~enabled'[j]
  <2>1. CASE \E d \in Dispatchers : Records(d)
    BY <1>1, <2>1 DEF Records, EnabledAfter, TypeOK
  <2>2. CASE UNCHANGED enabled
    BY <1>1, <2>2
  <2>3. UNCHANGED enabled \/ \E d \in Dispatchers : Records(d)
    BY <1>1 DEF Next, Tick, Initialises, Select, Handles, SkipsInternal, Fires, ReachesNobody,
                PushThrows, Tried, RecordFails, Dies, rowVars, vars
  <2>4. QED BY <2>1, <2>2, <2>3
<1>2. TypeOK /\ [Next]_vars => [\A j \in OneShots : ~enabled[j] => ~enabled'[j]]_enabled
  BY <1>1 DEF OneShots
<1>3. QED BY <1>2, Typing, PTL DEF Spec, RetiredStaysRetired

LEMMA SetupStays ==
    ASSUME [Next]_vars
    PROVE  setup' = setup
BY DEF Next, Tick, Initialises, Select, Handles, SkipsInternal, Fires, ReachesNobody,
       PushThrows, Tried, Records, RecordFails, Dies, vars

-----------------------------------------------------------------------------
(* Jobs that are not crossed *)

Before(v, n) == n # Null /\ (v = Null \/ v < n)

Fired(d, j) == Trying(d, j) /\ doing[d].ok

\* One tick at most has read the row, and the row is as it read it.
ReadIsFresh(j) ==
    /\ \A d, e \in Holders(j) : d = e
    /\ \A d \in Dispatchers : j \in batch[d] =>
          /\ enabled[j] /\ ~Trying(d, j)
          /\ seen[d][j].next = nextRun[j]
          /\ nextRun[j] = Null \/ nextRun[j] <= clock[d]

\* Every run that was fired is before the one in the row, or before the one
\* that the tick which fired it will write.
FiredIsPast(j) ==
    /\ \A d \in Dispatchers : Fired(d, j) =>
          \A v \in firedFor[j] : v = Null \/ v <= clock[d]
    /\ enabled[j] /\ (\A d \in Dispatchers : ~Fired(d, j)) =>
          \A v \in firedFor[j] : Before(v, nextRun[j])

JobOK(j) == j \notin doubled /\ ReadIsFresh(j) /\ FiredIsPast(j)

Regular(j) == j \notin crossed /\ Schedule(j) # "invalid"

LineInv == \A j \in Jobs : Regular(j) => JobOK(j)

\* What JobOK looks at.
Aspect(j) == <<enabled[j], nextRun[j], firedFor[j], j \in doubled>>
View(d, j) == <<j \in batch[d], Trying(d, j), Fired(d, j),
                IF j \in batch[d] THEN seen[d][j] ELSE Null,
                IF j \in batch[d] \/ Trying(d, j) THEN clock[d] ELSE Null>>

\* A step that changes neither the row nor what ticks have read of it.
LEMMA Elsewhere ==
    ASSUME NEW j \in Jobs, JobOK(j), UNCHANGED Aspect(j),
           \A d \in Dispatchers : UNCHANGED View(d, j)
    PROVE  JobOK(j)'
<1>1. Holders(j)' = Holders(j)
  BY DEF Holders, View
<1>2. ReadIsFresh(j)'
  BY <1>1 DEF JobOK, ReadIsFresh, Aspect, View
<1>3. FiredIsPast(j)'
  <2>1. \A d \in Dispatchers : Fired(d, j)' => Fired(d, j) /\ clock'[d] = clock[d]
    BY DEF View, Fired
  <2>2. QED BY <2>1 DEF JobOK, FiredIsPast, Aspect, View
<1>4. QED BY <1>2, <1>3 DEF JobOK, Aspect

\* The tick of d tries a job.
LEMMA TryKeeps ==
    ASSUME TypeOK, NEW d \in Dispatchers,
           NEW i \in Jobs, Fires(d, i) \/ ReachesNobody(d, i) \/ PushThrows(d, i),
           NEW j \in Jobs, JobOK(j), j \notin crossed'
    PROVE  JobOK(j)'
<1>1. PICK ok \in BOOLEAN :
          /\ Tried(d, i, ok)
          /\ UNCHANGED <<firedFor, doubled>> \/ (Took(d, i) /\ (ok \/ i # j))
  <2>1. CASE Fires(d, i)
    BY <2>1 DEF Fires
  <2>2. CASE ReachesNobody(d, i)
    BY <2>2 DEF ReachesNobody
  <2>3. CASE PushThrows(d, i)
    BY <2>3 DEF PushThrows, Cross
  <2>4. QED BY <2>1, <2>2, <2>3
<1>2. /\ i \in batch[d] /\ doing[d] = Null
      /\ batch' = [batch EXCEPT ![d] = @ \ {i}]
      /\ doing' = [doing EXCEPT ![d] = [job |-> i, ok |-> ok]]
      /\ UNCHANGED <<enabled, nextRun, seen, clock>>
  BY <1>1 DEF Tried, rowVars
<1>3. /\ doing'[d] # Null /\ doing'[d].job = i /\ doing'[d].ok = ok
      /\ \A e \in Dispatchers : e # d => batch'[e] = batch[e] /\ doing'[e] = doing[e]
  BY <1>2, CronAssumption DEF TypeOK
<1>4. CASE i # j
  <2>1. UNCHANGED Aspect(j)
    BY <1>1, <1>2, <1>4 DEF Aspect, Took, TypeOK
  <2>2. j \in batch'[d] <=> j \in batch[d]
    BY <1>2, <1>4 DEF TypeOK
  <2>3. \A e \in Dispatchers : UNCHANGED View(e, j)
    BY <1>2, <1>3, <1>4, <2>2 DEF View, Trying, Fired
  <2>4. QED BY <2>1, <2>3, Elsewhere
<1>5. CASE i = j
  <2>1. /\ \A e \in Dispatchers : e # d => j \notin batch[e] /\ ~Trying(e, j)
        /\ enabled[j] /\ seen[d][j].next = nextRun[j]
        /\ nextRun[j] = Null \/ nextRun[j] <= clock[d]
        /\ ~Trying(d, j)
    BY <1>2, <1>5 DEF JobOK, ReadIsFresh, Holders
  <2>2. \A v \in firedFor[j] : Before(v, nextRun[j])
    BY <2>1 DEF JobOK, FiredIsPast, Fired
  <2>3. \A e \in Dispatchers : j \notin batch'[e] /\ (Trying(e, j)' => e = d)
    BY <1>2, <1>3, <1>5, <2>1 DEF Trying, TypeOK
  <2>4. ReadIsFresh(j)'
    BY <2>3 DEF ReadIsFresh, Holders
  <2>5. /\ nextRun[j] \in Nat \cup {Null} /\ firedFor[j] \subseteq Nat \cup {Null}
        /\ clock[d] \in Nat /\ Null \notin Nat
    BY CronAssumption DEF TypeOK, Runs, Times
  <2>6. \A v \in firedFor[j] : v = Null \/ v <= clock[d]
    BY <2>1, <2>2, <2>5 DEF Before
  <2>7. CASE UNCHANGED <<firedFor, doubled>>
    <3>1. FiredIsPast(j)'
      BY <1>2, <2>2, <2>3, <2>6, <2>7 DEF FiredIsPast, Fired
    <3>2. QED BY <2>4, <2>7, <3>1 DEF JobOK
  <2>8. CASE Took(d, i) /\ ok
    <3>1. nextRun[j] \notin firedFor[j]
      BY <2>2, <2>5 DEF Before
    <3>2. firedFor'[j] = firedFor[j] \cup {nextRun[j]} /\ doubled' = doubled
      BY <1>5, <2>1, <2>8, <3>1 DEF Took, TypeOK
    <3>3. Fired(d, j)'
      BY <1>3, <1>5, <2>8 DEF Fired, Trying
    <3>4. FiredIsPast(j)'
      BY <1>2, <2>1, <2>3, <2>6, <3>2, <3>3 DEF FiredIsPast, Fired
    <3>5. QED BY <2>4, <3>2, <3>4 DEF JobOK
  <2>9. QED BY <1>1, <1>5, <2>7, <2>8
<1>6. QED BY <1>4, <1>5

\* The tick of d reads the due jobs.
LEMMA SelectKeeps ==
    ASSUME TypeOK, NEW d \in Dispatchers, Select(d), NEW j \in Jobs, JobOK(j), j \notin crossed'
    PROVE  JobOK(j)'
<1>1. /\ batch[d] = {} /\ doing[d] = Null
      /\ UNCHANGED <<enabled, nextRun, doing, firedFor, doubled>>
      /\ \A e \in Dispatchers : e # d => UNCHANGED <<batch[e], seen[e], clock[e]>>
      /\ clock'[d] = now
  BY DEF Select, rowVars, TypeOK
<1>2. UNCHANGED Aspect(j) /\ \A e \in Dispatchers : e # d => UNCHANGED View(e, j)
  BY <1>1 DEF Aspect, View, Trying, Fired
<1>3. CASE j \notin batch'[d]
  <2>1. UNCHANGED View(d, j)
    BY <1>1, <1>3 DEF View, Trying, Fired
  <2>2. QED BY <1>2, <2>1, Elsewhere
<1>4. CASE j \in batch'[d]
  <2>1. Due(j) /\ seen'[d][j].next = nextRun[j]
    BY <1>4 DEF Select, DueJobs, TypeOK
  <2>2. Holders(j) = {}
    BY <1>4 DEF Select, Cross
  <2>3. \A e \in Dispatchers : ~Trying(e, j) /\ ~Trying(e, j)' /\ (j \in batch'[e] => e = d)
    BY <1>1, <2>2 DEF Holders, Trying
  <2>4. ReadIsFresh(j)'
    BY <1>1, <2>1, <2>3 DEF ReadIsFresh, Holders, Due
  <2>5. FiredIsPast(j)'
    BY <1>1, <2>3 DEF JobOK, FiredIsPast, Fired
  <2>6. QED BY <1>1, <2>4, <2>5 DEF JobOK
<1>5. QED BY <1>3, <1>4

\* The tick of d writes a row.
LEMMA RecordKeeps ==
    ASSUME TypeOK, NEW d \in Dispatchers, Records(d),
           NEW j \in Jobs, Schedule(j) # "invalid", JobOK(j)
    PROVE  JobOK(j)'
<1> DEFINE i == doing[d].job
           ok == doing[d].ok
<1>1. /\ doing[d] # Null /\ i \in Jobs /\ ok \in BOOLEAN
      /\ enabled' = [enabled EXCEPT ![i] = EnabledAfter(d, i, ok)]
      /\ nextRun' = [nextRun EXCEPT ![i] = IF ok THEN NextRunAfter(i, clock[d]) ELSE @]
      /\ doing' = [doing EXCEPT ![d] = Null]
      /\ UNCHANGED <<batch, seen, clock, firedFor, doubled, setup>>
  BY DEF Records, TypeOK, NextRunOnSuccess, history
<1>2. doing'[d] = Null /\ \A e \in Dispatchers : e # d => doing'[e] = doing[e]
  BY <1>1 DEF TypeOK
<1>3. CASE i # j
  <2>1. enabled'[j] = enabled[j] /\ nextRun'[j] = nextRun[j]
    BY <1>1, <1>3 DEF TypeOK
  <2>2. UNCHANGED Aspect(j)
    BY <1>1, <2>1 DEF Aspect
  <2>3. \A e \in Dispatchers : UNCHANGED View(e, j)
    BY <1>1, <1>2, <1>3 DEF View, Trying, Fired
  <2>4. QED BY <2>2, <2>3, Elsewhere
<1>4. CASE i = j
  <2>1. Trying(d, j) /\ d \in Holders(j)
    BY <1>1, <1>4 DEF Trying, Holders
  <2>2. \A e \in Dispatchers : j \notin batch[e] /\ (Trying(e, j) => e = d)
    BY <2>1 DEF JobOK, ReadIsFresh, Holders
  <2>3. \A e \in Dispatchers : j \notin batch'[e] /\ ~Trying(e, j)'
    BY <1>1, <1>2, <2>2 DEF Trying
  <2>4. ReadIsFresh(j)'
    BY <2>3 DEF ReadIsFresh, Holders
  <2>5. /\ enabled'[j] = EnabledAfter(d, j, ok)
        /\ nextRun'[j] = IF ok THEN NextRunAfter(j, clock[d]) ELSE nextRun[j]
    BY <1>1, <1>4 DEF TypeOK
  <2>6. /\ clock[d] \in Nat /\ clock[d] + 1 # Null
        /\ firedFor[j] \subseteq Nat \cup {Null}
    BY CronAssumption DEF TypeOK, Runs, Times
  <2>7. ASSUME enabled'[j] PROVE \A v \in firedFor[j] : Before(v, nextRun'[j])
    <3>1. CASE ok
      <4>1. Schedule(j) = "recurring"
        BY <2>5, <2>7, <3>1, Shapes DEF EnabledAfter, OneShots, Schedule
      <4>2. nextRun'[j] = clock[d] + 1
        BY <2>5, <3>1, <4>1 DEF NextRunAfter
      <4>3. \A v \in firedFor[j] : v = Null \/ v <= clock[d]
        BY <1>4, <2>1, <3>1 DEF JobOK, FiredIsPast, Fired
      <4>4. QED BY <2>6, <4>2, <4>3 DEF Before
    <3>2. CASE ~ok
      <4>1. enabled[j] /\ nextRun'[j] = nextRun[j]
        BY <2>5, <2>7, <3>2 DEF EnabledAfter
      <4>2. \A e \in Dispatchers : ~Fired(e, j)
        BY <1>4, <2>2, <3>2 DEF Fired
      <4>3. QED BY <4>1, <4>2 DEF JobOK, FiredIsPast
    <3>3. QED BY <3>1, <3>2
  <2>8. FiredIsPast(j)'
    BY <1>1, <2>3, <2>7 DEF FiredIsPast, Fired
  <2>9. QED BY <1>1, <2>4, <2>8 DEF JobOK
<1>5. QED BY <1>3, <1>4

\* The tick of d gives up a row, or all it holds.
LEMMA LossKeeps ==
    ASSUME TypeOK, NEW d \in Dispatchers, RecordFails(d) \/ Dies(d),
           NEW j \in Jobs, JobOK(j), j \notin crossed'
    PROVE  JobOK(j)'
<1>1. /\ UNCHANGED <<enabled, nextRun, seen, clock, firedFor, doubled>>
      /\ ~Fired(d, j)
      /\ doing'[d] = Null /\ \A e \in Dispatchers : e # d => doing'[e] = doing[e]
      /\ \A e \in Dispatchers : batch'[e] \subseteq batch[e]
  BY DEF RecordFails, Dies, Cross, Unrecorded, Fired, rowVars, TypeOK
<1>2. \A e \in Dispatchers : /\ Trying(e, j)' => Trying(e, j)
                             /\ Fired(e, j)' <=> Fired(e, j)
  BY <1>1 DEF Trying, Fired
<1>3. Holders(j)' \subseteq Holders(j)
  BY <1>1, <1>2 DEF Holders
<1>4. ReadIsFresh(j)'
  BY <1>1, <1>2, <1>3 DEF JobOK, ReadIsFresh
<1>5. FiredIsPast(j)'
  BY <1>1, <1>2 DEF JobOK, FiredIsPast
<1>6. QED BY <1>1, <1>4, <1>5 DEF JobOK

\* Internal jobs are never fired; a row is initialised that no tick has read.
LEMMA OthersKeep ==
    ASSUME TypeOK, NEW j \in Jobs, JobOK(j), j \notin crossed',
           \/ \E i \in Jobs : Initialises(i)
           \/ \E d \in Dispatchers, i \in Jobs : SkipsInternal(d, i)
           \/ Tick
    PROVE  JobOK(j)'
<1>1. CASE Tick
  <2>1. UNCHANGED Aspect(j) /\ \A e \in Dispatchers : UNCHANGED View(e, j)
    BY <1>1 DEF Tick, rowVars, tickVars, history, Aspect, View, Trying, Fired
  <2>2. QED BY <2>1, Elsewhere
<1>2. ASSUME NEW i \in Jobs, Initialises(i) PROVE JobOK(j)'
  <2> DEFINE next == NextRunAfter(i, startClock)
  <2>1. /\ UNCHANGED <<enabled, tickVars, firedFor, doubled>>
        /\ nextRun' = [nextRun EXCEPT ![i] = IF next = Null THEN @ ELSE next]
        /\ Cross({i} \cap {k \in Jobs : next # Null /\ (nextRun[k] # Null \/ Holders(k) # {})})
    BY <1>2 DEF Initialises
  <2>2. \A e \in Dispatchers : UNCHANGED View(e, j)
    BY <2>1 DEF tickVars, View, Trying, Fired
  <2>3. CASE i # j \/ next = Null
    <3>1. nextRun'[j] = nextRun[j]
      BY <2>1, <2>3 DEF TypeOK
    <3>2. UNCHANGED Aspect(j)
      BY <2>1, <3>1 DEF Aspect
    <3>3. QED BY <2>2, <3>2, Elsewhere
  <2>4. CASE i = j /\ next # Null
    <3>1. nextRun[j] = Null /\ Holders(j) = {}
      BY <2>1, <2>4 DEF Cross
    <3>2. \A e \in Dispatchers : /\ j \notin batch[e] /\ ~Trying(e, j)
                                 /\ j \notin batch'[e] /\ ~Trying(e, j)'
      BY <2>1, <3>1 DEF Holders, tickVars, Trying
    <3>3. enabled[j] => firedFor[j] = {}
      BY <3>1, <3>2 DEF JobOK, FiredIsPast, Fired, Before
    <3>4. QED BY <2>1, <3>2, <3>3 DEF JobOK, ReadIsFresh, FiredIsPast, Fired, Holders
  <2>5. QED BY <2>3, <2>4
<1>3. ASSUME NEW d \in Dispatchers, NEW i \in Jobs, SkipsInternal(d, i) PROVE JobOK(j)'
  <2>1. /\ i \in batch[d] /\ doing[d] = Null
        /\ batch' = [batch EXCEPT ![d] = @ \ {i}]
        /\ \/ nextRun' = [nextRun EXCEPT ![i] = IF NextRunAfter(i, clock[d]) = Null
                                                THEN @ ELSE NextRunAfter(i, clock[d])]
           \/ UNCHANGED nextRun
        /\ UNCHANGED <<enabled, seen, clock, doing, firedFor, doubled>>
    BY <1>3 DEF SkipsInternal, history
  <2>2. \A e \in Dispatchers : /\ Trying(e, j)' <=> Trying(e, j)
                               /\ Fired(e, j)' <=> Fired(e, j)
                               /\ e # d => batch'[e] = batch[e]
    BY <2>1 DEF Trying, Fired, TypeOK
  <2>3. CASE i # j
    <3>1. nextRun'[j] = nextRun[j] /\ (j \in batch'[d] <=> j \in batch[d])
      BY <2>1, <2>3 DEF TypeOK
    <3>2. UNCHANGED Aspect(j)
      BY <2>1, <3>1 DEF Aspect
    <3>3. \A e \in Dispatchers : UNCHANGED View(e, j)
      BY <2>1, <2>2, <3>1 DEF View, Trying, Fired
    <3>4. QED BY <3>2, <3>3, Elsewhere
  <2>4. CASE i = j
    <3>1. /\ enabled[j] /\ (nextRun[j] = Null \/ nextRun[j] <= clock[d])
          /\ \A e \in Dispatchers : e # d => j \notin batch[e] /\ ~Trying(e, j)
          /\ ~Trying(d, j)
      BY <2>1, <2>4 DEF JobOK, ReadIsFresh, Holders
    <3>2. \A v \in firedFor[j] : Before(v, nextRun[j])
      BY <3>1 DEF JobOK, FiredIsPast, Fired
    <3>3. nextRun'[j] \in {nextRun[j], clock[d] + 1}
      BY <2>1, <2>4 DEF TypeOK, NextRunAfter
    <3>4. /\ clock[d] \in Nat /\ clock[d] + 1 # Null
          /\ nextRun[j] \in Nat \cup {Null} /\ firedFor[j] \subseteq Nat \cup {Null}
      BY CronAssumption DEF TypeOK, Runs, Times
    <3>5. \A v \in firedFor[j] : Before(v, nextRun'[j])
      BY <3>1, <3>2, <3>3, <3>4 DEF Before
    <3>6. \A e \in Dispatchers : j \notin batch'[e] /\ ~Trying(e, j)' /\ ~Fired(e, j)'
      BY <2>1, <2>2, <2>4, <3>1 DEF Fired, TypeOK
    <3>7. ReadIsFresh(j)' /\ FiredIsPast(j)'
      BY <2>1, <3>5, <3>6 DEF ReadIsFresh, Holders, FiredIsPast
    <3>8. QED BY <2>1, <3>7 DEF JobOK
  <2>5. QED BY <2>3, <2>4
<1>4. QED BY <1>1, <1>2, <1>3

LEMMA LineInvStep ==
    ASSUME TypeOK, LineInv, [Next]_vars
    PROVE  LineInv'
<1> SUFFICES ASSUME NEW j \in Jobs, Regular(j)' PROVE JobOK(j)'
  BY DEF LineInv
<1>1. j \notin crossed' /\ j \notin crossed /\ Schedule(j) # "invalid"
  <2>1. crossed \subseteq crossed'
    BY DEF Next, Tick, Initialises, Select, Handles, SkipsInternal, Fires, ReachesNobody,
           PushThrows, Records, RecordFails, Dies, Cross, history, vars
  <2>2. QED BY <2>1, SetupStays DEF Regular, Schedule
<1>2. JobOK(j)
  BY <1>1 DEF LineInv, Regular
<1>3. CASE UNCHANGED vars
  <2>1. UNCHANGED Aspect(j) /\ \A e \in Dispatchers : UNCHANGED View(e, j)
    BY <1>3 DEF vars, rowVars, tickVars, history, Aspect, View, Trying, Fired
  <2>2. QED BY <1>2, <2>1, Elsewhere
<1>4. ASSUME NEW d \in Dispatchers, Handles(d) PROVE JobOK(j)'
  <2>1. PICK i \in Jobs : \/ SkipsInternal(d, i)
                         \/ Fires(d, i) \/ ReachesNobody(d, i) \/ PushThrows(d, i)
    BY <1>4 DEF Handles
  <2>2. CASE SkipsInternal(d, i)
    BY <1>1, <1>2, <2>2, OthersKeep
  <2>3. CASE Fires(d, i) \/ ReachesNobody(d, i) \/ PushThrows(d, i)
    BY <1>1, <1>2, <2>3, TryKeeps
  <2>4. QED BY <2>1, <2>2, <2>3
<1>5. ASSUME NEW d \in Dispatchers, Select(d) PROVE JobOK(j)'
  BY <1>1, <1>2, <1>5, SelectKeeps
<1>6. ASSUME NEW d \in Dispatchers, Records(d) PROVE JobOK(j)'
  BY <1>1, <1>2, <1>6, RecordKeeps
<1>7. ASSUME NEW d \in Dispatchers, RecordFails(d) \/ Dies(d) PROVE JobOK(j)'
  BY <1>1, <1>2, <1>7, LossKeeps
<1>8. CASE Tick \/ \E i \in Jobs : Initialises(i)
  BY <1>1, <1>2, <1>8, OthersKeep
<1>9. QED BY <1>3, <1>4, <1>5, <1>6, <1>7, <1>8 DEF Next

\* For any ticks that overlap and any faults: a job that is not crossed fires
\* once for each value of next_run_at, for nextRunAfter is past all that was
\* fired and a tick that holds a row alone finds it as it read it.
THEOREM FiresOnce == Spec => []FiresOncePerRun
<1>1. Init => LineInv
  <2>1. ASSUME Init, NEW j \in Jobs PROVE JobOK(j)
    BY <2>1 DEF Init, JobOK, ReadIsFresh, FiredIsPast, Holders, Trying, Fired
  <2>2. QED BY <2>1 DEF LineInv
<1>2. TypeOK /\ LineInv => FiresOncePerRun
  BY DEF TypeOK, LineInv, Regular, JobOK, FiresOncePerRun
<1>3. QED BY <1>1, <1>2, LineInvStep, Typing, PTL DEF Spec

-----------------------------------------------------------------------------
(* Tries of a one-shot *)

Single(d) == setup.active = {d} /\ setup.faults = 0

\* The row was read by the tick of d, which has still to write it.
Holding(d, j) == j \in batch[d] \/ Trying(d, j)
Read(d, j) == seen[d][j].failures

\* A try that a tick will make of a row it has read.
Coming(d, j) == IF j \in batch[d] THEN 1 ELSE 0

\* Reads of the row that can still follow, by the failures in the row and in
\* the ticks that hold it: one line of ticks,
LeftToOne(d, j) ==
    IF ~enabled[j] THEN 0
    ELSE IF Holding(d, j) THEN 2 - Read(d, j) ELSE 3 - failures[j]

\* and two, none, one or both of which hold it.  Whoever writes last decides
\* what the next read finds.
NoneHolds(f) == IF f = 0 THEN 7 ELSE IF f = 1 THEN 4 ELSE 2
OneHolds(f, s) ==
    IF s = 0 THEN 6 - f
    ELSE IF s = 1 THEN (IF f = 0 THEN 5 ELSE IF f = 1 THEN 3 ELSE 2)
    ELSE 3 - f
BothHold(s, t) ==
    IF s = 0 /\ t = 0 THEN 5
    ELSE IF s + t = 1 THEN 4
    ELSE 4 - s - t

LeftToTwo(d, e, j) ==
    IF ~enabled[j] THEN 0
    ELSE IF Holding(d, j) THEN IF Holding(e, j) THEN BothHold(Read(d, j), Read(e, j))
                               ELSE OneHolds(failures[j], Read(d, j))
    ELSE IF Holding(e, j) THEN OneHolds(failures[j], Read(e, j))
    ELSE NoneHolds(failures[j])

\* No tick writes the row for a read that found it given up.
CountOK(d, j) ==
    /\ Holding(d, j) => Read(d, j) < GivesUpAt
    /\ ~(j \in batch[d] /\ Trying(d, j))

Pair(d, e) == d # e /\ setup.active = {d, e} /\ setup.faults = 0

TriesOK(j) ==
    /\ enabled[j] => failures[j] < GivesUpAt
    /\ \A d \in Dispatchers : CountOK(d, j)
    /\ \A d \in Dispatchers : Single(d) =>
           attempts[j] + Coming(d, j) + LeftToOne(d, j) <= 3
    /\ \A d, e \in Dispatchers : Pair(d, e) =>
           attempts[j] + Coming(d, j) + Coming(e, j) + LeftToTwo(d, e, j) <= 7

\* Other dispatchers never do anything.
OthersIdle == \A d \in Dispatchers \ setup.active : batch[d] = {} /\ doing[d] = Null

TryInv ==
    /\ OthersIdle
    /\ setup.faults = 0 =>
          \A j \in OneShots : IF Kind(j) = "internal" THEN attempts[j] = 0 ELSE TriesOK(j)

-----------------------------------------------------------------------------
(* What a step does to one row *)

Untouched(d, j) ==
    /\ j \in batch'[d] <=> j \in batch[d]
    /\ Trying(d, j)' <=> Trying(d, j)
    /\ Holding(d, j) => Read(d, j)' = Read(d, j)

ReadBy(d, j) ==
    /\ enabled[j] /\ ~Holding(d, j)
    /\ j \in batch'[d] /\ ~Trying(d, j)' /\ Read(d, j)' = failures[j]
    /\ UNCHANGED <<enabled[j], failures[j], attempts[j]>>

TriedBy(d, j) ==
    /\ j \in batch[d] /\ ~Trying(d, j)
    /\ j \notin batch'[d] /\ Trying(d, j)' /\ Read(d, j)' = Read(d, j)
    /\ attempts'[j] = attempts[j] + 1
    /\ UNCHANGED <<enabled[j], failures[j]>>

WrittenBy(d, j) ==
    /\ Trying(d, j) /\ ~Trying(d, j)'
    /\ j \in batch'[d] <=> j \in batch[d]
    /\ Read(d, j)' = Read(d, j)
    /\ enabled'[j] => enabled[j] /\ failures'[j] = Read(d, j) + 1 /\ failures'[j] < GivesUpAt
    /\ UNCHANGED attempts[j]

LeftAlone(j) == UNCHANGED <<enabled[j], failures[j], attempts[j]>>

\* No step does more than one of these, to one line of ticks.
LEMMA OneEffect ==
    ASSUME TypeOK, OthersIdle, setup.faults = 0, [Next]_vars,
           NEW j \in OneShots, Kind(j) # "internal"
    PROVE  \/ LeftAlone(j) /\ \A d \in Dispatchers : Untouched(d, j)
           \/ \E d \in setup.active :
                 /\ ReadBy(d, j) \/ TriedBy(d, j) \/ WrittenBy(d, j)
                 /\ \A e \in Dispatchers : e # d => Untouched(e, j)
<1> USE DEF LeftAlone, Untouched, Holding, Trying, Read
<1>0. j \in Jobs /\ ~Fault
  BY DEF OneShots, Fault, TypeOK
<1>1. CASE UNCHANGED <<batch, seen, doing, enabled, failures, attempts>>
  BY <1>1
<1>2. ASSUME NEW d \in Dispatchers, Select(d)
      PROVE  \/ LeftAlone(j) /\ \A e \in Dispatchers : Untouched(e, j)
             \/ d \in setup.active /\ ReadBy(d, j) /\ \A e \in Dispatchers : e # d => Untouched(e, j)
  <2>1. /\ d \in setup.active /\ batch[d] = {} /\ doing[d] = Null
        /\ UNCHANGED <<enabled, failures, doing, attempts>>
        /\ \A e \in Dispatchers : e # d => UNCHANGED <<batch[e], seen[e]>>
    BY <1>2 DEF Select, rowVars, history, TypeOK
  <2>2. ~Holding(d, j)
    BY <2>1
  <2>3. CASE j \notin batch'[d]
    BY <2>1, <2>2, <2>3
  <2>4. CASE j \in batch'[d]
    <3>1. enabled[j]
      BY <1>2, <2>4 DEF Select, DueJobs, Due, TypeOK
    <3>2. Read(d, j)' = failures[j]
      BY <1>2, <2>4, <1>0 DEF Select, TypeOK
    <3>3. QED BY <2>1, <2>2, <2>4, <3>1, <3>2 DEF ReadBy
  <2>5. QED BY <2>3, <2>4
<1>3. ASSUME NEW d \in Dispatchers, NEW i \in Jobs, SkipsInternal(d, i)
      PROVE  LeftAlone(j) /\ \A e \in Dispatchers : Untouched(e, j)
  <2>1. i # j /\ batch' = [batch EXCEPT ![d] = @ \ {i}]
        /\ UNCHANGED <<enabled, failures, seen, doing, attempts>>
    BY <1>3 DEF SkipsInternal, history
  <2>2. QED BY <2>1 DEF TypeOK
<1>4. ASSUME NEW d \in Dispatchers, NEW i \in Jobs, NEW ok \in BOOLEAN, Tried(d, i, ok)
      PROVE  \/ LeftAlone(j) /\ \A e \in Dispatchers : Untouched(e, j)
             \/ TriedBy(d, j) /\ \A e \in Dispatchers : e # d => Untouched(e, j)
  <2>1. /\ i \in batch[d] /\ doing[d] = Null
        /\ batch' = [batch EXCEPT ![d] = @ \ {i}]
        /\ doing' = [doing EXCEPT ![d] = [job |-> i, ok |-> ok]]
        /\ attempts' = IF i \in OneShots THEN [attempts EXCEPT ![i] = @ + 1] ELSE attempts
        /\ UNCHANGED <<enabled, failures, seen>>
    BY <1>4 DEF Tried, rowVars
  <2>2. doing'[d].job = i /\ doing'[d] # Null
    BY <2>1, CronAssumption DEF TypeOK
  <2>3. \A e \in Dispatchers : e # d => Untouched(e, j)
    BY <2>1 DEF TypeOK
  <2>4. CASE i = j
    <3>1. j \notin batch'[d] /\ attempts'[j] = attempts[j] + 1
      BY <2>1, <2>4, <1>0 DEF TypeOK
    <3>2. QED BY <2>1, <2>2, <2>3, <2>4, <3>1 DEF TriedBy
  <2>5. CASE i # j
    <3>1. (j \in batch'[d] <=> j \in batch[d]) /\ attempts'[j] = attempts[j]
      BY <2>1, <2>5, <1>0 DEF TypeOK
    <3>2. Untouched(d, j)
      BY <2>1, <2>2, <2>5, <3>1
    <3>3. QED BY <2>1, <2>3, <3>1, <3>2
  <2>6. QED BY <2>4, <2>5
<1>5. ASSUME NEW d \in Dispatchers, Records(d)
      PROVE  \/ LeftAlone(j) /\ \A e \in Dispatchers : Untouched(e, j)
             \/ WrittenBy(d, j) /\ \A e \in Dispatchers : e # d => Untouched(e, j)
  <2> DEFINE i == doing[d].job
             ok == doing[d].ok
  <2>1. /\ doing[d] # Null /\ i \in Jobs /\ ok \in BOOLEAN
        /\ enabled' = [enabled EXCEPT ![i] = EnabledAfter(d, i, ok)]
        /\ failures' = [failures EXCEPT ![i] = IF ok THEN 0 ELSE
                           IF i \in OneShots THEN seen[d][i].failures + 1 ELSE 1]
        /\ doing' = [doing EXCEPT ![d] = Null]
        /\ UNCHANGED <<batch, seen, attempts>>
    BY <1>5 DEF Records, TypeOK, history
  <2>2. \A e \in Dispatchers : e # d => Untouched(e, j)
    BY <2>1 DEF TypeOK
  <2>3. doing'[d] = Null
    BY <2>1 DEF TypeOK
  <2>4. CASE i = j
    <3>1. /\ enabled'[j] => enabled[j] /\ ~ok /\ seen[d][j].failures + 1 < GivesUpAt
          /\ failures'[j] = IF ok THEN 0 ELSE seen[d][j].failures + 1
      BY <2>1, <2>4, <1>0 DEF TypeOK, EnabledAfter
    <3> HIDE DEF ok
    <3>2. QED BY <2>1, <2>2, <2>3, <2>4, <3>1 DEF WrittenBy
  <2>5. CASE i # j
    <3>1. enabled'[j] = enabled[j] /\ failures'[j] = failures[j]
      BY <2>1, <2>5, <1>0 DEF TypeOK
    <3>2. QED BY <2>1, <2>2, <2>3, <2>5, <3>1
  <2>6. QED BY <2>4, <2>5
<1>6. ASSUME NEW d \in Dispatchers, TriedBy(d, j) \/ WrittenBy(d, j)
      PROVE  d \in setup.active
  BY <1>6 DEF OthersIdle, TriedBy, WrittenBy
<1>7. CASE Tick \/ (\E i \in Jobs : Initialises(i)) \/ UNCHANGED vars
  BY <1>1, <1>7 DEF Tick, Initialises, vars, rowVars, tickVars, history
<1>8. ASSUME NEW d \in Dispatchers, NEW i \in Jobs,
             Fires(d, i) \/ ReachesNobody(d, i) \/ PushThrows(d, i)
      PROVE  \E ok \in BOOLEAN : Tried(d, i, ok)
  BY <1>8 DEF Fires, ReachesNobody, PushThrows
<1>9. \A d \in Dispatchers : ~RecordFails(d) /\ ~Dies(d)
  BY <1>0 DEF RecordFails, Dies
<1> DEFINE Done == \/ LeftAlone(j) /\ \A d \in Dispatchers : Untouched(d, j)
                   \/ \E d \in setup.active :
                         /\ ReadBy(d, j) \/ TriedBy(d, j) \/ WrittenBy(d, j)
                         /\ \A e \in Dispatchers : e # d => Untouched(e, j)
<1>10. ASSUME NEW d \in Dispatchers, Select(d) PROVE Done
  BY <1>2, <1>10
<1>11. ASSUME NEW d \in Dispatchers, Handles(d) PROVE Done
  <2>1. PICK i \in Jobs : SkipsInternal(d, i) \/ \E ok \in BOOLEAN : Tried(d, i, ok)
    BY <1>8, <1>11 DEF Handles
  <2>2. CASE SkipsInternal(d, i)
    BY <1>3, <2>2
  <2>3. ASSUME NEW ok \in BOOLEAN, Tried(d, i, ok) PROVE Done
    BY <1>4, <1>6, <2>3
  <2>4. QED BY <2>1, <2>2, <2>3
<1>12. ASSUME NEW d \in Dispatchers, Records(d) PROVE Done
  BY <1>5, <1>6, <1>12
<1> HIDE DEF Done
<1>13. Done
  BY <1>7, <1>9, <1>10, <1>11, <1>12 DEF Next, Done
<1>14. QED BY <1>13 DEF Done

-----------------------------------------------------------------------------
(* Three tries, or seven *)

LEMMA CountKeeps ==
    ASSUME TypeOK, NEW j \in Jobs, TriesOK(j), NEW d \in Dispatchers,
           ReadBy(d, j) \/ TriedBy(d, j) \/ WrittenBy(d, j),
           \A e \in Dispatchers : e # d => Untouched(e, j)
    PROVE  /\ enabled'[j] => failures'[j] < GivesUpAt
           /\ \A e \in Dispatchers : CountOK(e, j)'
<1> USE DEF TriesOK, CountOK, Holding, GivesUpAt
<1>1. \A e \in Dispatchers : e # d => CountOK(e, j)'
  BY DEF Untouched
<1>2. enabled'[j] => failures'[j] < GivesUpAt
  BY DEF ReadBy, TriedBy, WrittenBy
<1>3. CountOK(d, j)'
  BY DEF ReadBy, TriedBy, WrittenBy
<1>4. QED BY <1>1, <1>2, <1>3

LEMMA OneLineKeeps ==
    ASSUME TypeOK, NEW j \in Jobs, TriesOK(j), NEW d \in Dispatchers,
           ReadBy(d, j) \/ TriedBy(d, j) \/ WrittenBy(d, j),
           attempts[j] + Coming(d, j) + LeftToOne(d, j) <= 3
    PROVE  (attempts[j] + Coming(d, j) + LeftToOne(d, j) <= 3)'
<1> USE DEF Coming, LeftToOne, Holding, GivesUpAt
<1>1. /\ attempts[j] \in Nat /\ failures[j] \in Nat /\ Read(d, j) \in Nat
      /\ enabled[j] \in BOOLEAN /\ CountOK(d, j)
  BY DEF TypeOK, TriesOK, Read
<1>2. CASE ReadBy(d, j)
  BY <1>1, <1>2 DEF ReadBy, CountOK
<1>3. CASE TriedBy(d, j)
  BY <1>1, <1>3 DEF TriedBy, CountOK
<1>4. CASE WrittenBy(d, j)
  BY <1>1, <1>4 DEF WrittenBy, CountOK
<1>5. QED BY <1>2, <1>3, <1>4

\* The numbers behind two lines of ticks: what a read costs, and what a write
\* of the count read gives back.
LEMMA Numbers ==
    ASSUME NEW f \in 0 .. 2, NEW s \in 0 .. 2, NEW t \in 0 .. 2
    PROVE  /\ NoneHolds(f) \in Nat /\ OneHolds(f, s) \in Nat /\ BothHold(s, t) \in Nat
           /\ OneHolds(f, f) + 1 <= NoneHolds(f)
           /\ BothHold(f, t) + 1 <= OneHolds(f, t)
           /\ s < 2 => /\ NoneHolds(s + 1) <= OneHolds(f, s)
                       /\ OneHolds(s + 1, t) <= BothHold(s, t)
BY DEF NoneHolds, OneHolds, BothHold

LEMMA Small ==
    ASSUME TypeOK, NEW j \in Jobs, TriesOK(j), NEW d \in Dispatchers
    PROVE  /\ enabled[j] => failures[j] \in 0 .. 2
           /\ Holding(d, j) => Read(d, j) \in 0 .. 2
           /\ CountOK(d, j)
<1>1. failures[j] \in Nat /\ Read(d, j) \in Nat
  BY DEF TypeOK, Read
<1>2. CountOK(d, j) /\ (enabled[j] => failures[j] < 3)
  BY DEF TriesOK, GivesUpAt
<1>3. Holding(d, j) => Read(d, j) < 3
  BY <1>2 DEF CountOK, GivesUpAt
<1>4. QED BY <1>1, <1>2, <1>3

LEMMA TwoLinesKeep ==
    ASSUME TypeOK, NEW j \in Jobs, TriesOK(j), NEW d \in Dispatchers, NEW e \in Dispatchers,
           ReadBy(d, j) \/ TriedBy(d, j) \/ WrittenBy(d, j), Untouched(e, j),
           attempts[j] + Coming(d, j) + Coming(e, j) + LeftToTwo(d, e, j) <= 7
    PROVE  (attempts[j] + Coming(d, j) + Coming(e, j) + LeftToTwo(d, e, j) <= 7)'
<1> USE DEF Coming, LeftToTwo, Holding
<1>1. /\ attempts[j] \in Nat
      /\ CountOK(d, j) /\ CountOK(e, j)
      /\ enabled[j] => failures[j] \in 0 .. 2
      /\ Holding(d, j) => Read(d, j) \in 0 .. 2
      /\ Holding(e, j) => Read(e, j) \in 0 .. 2
  <2>1. attempts[j] \in Nat
    BY DEF TypeOK
  <2> HIDE DEF Holding
  <2>2. QED BY <2>1, Small
<1>2. CASE ReadBy(d, j)
  <2>1. /\ Holding(d, j)' /\ Read(d, j)' = failures[j] /\ failures[j] \in 0 .. 2
        /\ Coming(d, j)' = 1 /\ Coming(d, j) = 0 /\ ~Holding(d, j)
        /\ UNCHANGED <<enabled[j], failures[j], attempts[j]>> /\ enabled[j]
    BY <1>1, <1>2 DEF ReadBy
  <2>2. CASE Holding(e, j)
    <3>1. LeftToTwo(d, e, j) = OneHolds(failures[j], Read(e, j))
      BY <2>1, <2>2
    <3>2. LeftToTwo(d, e, j)' = BothHold(failures[j], Read(e, j))
      BY <2>1, <2>2 DEF Untouched
    <3> HIDE DEF LeftToTwo, Holding
    <3>3. QED BY <1>1, <2>1, <2>2, <3>1, <3>2, Numbers DEF Untouched
  <2>3. CASE ~Holding(e, j)
    <3>1. LeftToTwo(d, e, j) = NoneHolds(failures[j])
      BY <2>1, <2>3
    <3>2. LeftToTwo(d, e, j)' = OneHolds(failures[j], failures[j])
      BY <2>1, <2>3 DEF Untouched
    <3> HIDE DEF LeftToTwo, Holding
    <3>3. QED BY <1>1, <2>1, <2>3, <3>1, <3>2, Numbers DEF Untouched
  <2>4. QED BY <2>2, <2>3
<1>3. CASE TriedBy(d, j)
  <2>1. LeftToTwo(d, e, j)' = LeftToTwo(d, e, j) /\ LeftToTwo(d, e, j) \in Nat
    <3>1. LeftToTwo(d, e, j)' = LeftToTwo(d, e, j)
      BY <1>3 DEF TriedBy, Untouched
    <3>2. LeftToTwo(d, e, j) \in Nat
      BY <1>1, Numbers
    <3>3. QED BY <3>1, <3>2
  <2>2. /\ Coming(d, j) = 1 /\ Coming(d, j)' = 0 /\ Coming(e, j)' = Coming(e, j)
        /\ attempts'[j] = attempts[j] + 1
    BY <1>3 DEF TriedBy, Untouched
  <2> HIDE DEF LeftToTwo
  <2>3. QED BY <1>1, <2>1, <2>2
<1>4. CASE WrittenBy(d, j)
  <2>1. /\ Coming(d, j)' = Coming(d, j) /\ Coming(e, j)' = Coming(e, j)
        /\ attempts'[j] = attempts[j]
    BY <1>4 DEF WrittenBy, Untouched
  <2>2. LeftToTwo(d, e, j) \in Nat
    BY <1>1, Numbers
  <2>3. LeftToTwo(d, e, j)' \in Nat /\ LeftToTwo(d, e, j)' <= LeftToTwo(d, e, j)
    <3>1. CASE ~enabled'[j]
      BY <2>2, <3>1
    <3>2. CASE enabled'[j]
      <4>1. /\ enabled[j] /\ Holding(d, j) /\ ~Holding(d, j)'
            /\ failures'[j] = Read(d, j) + 1 /\ Read(d, j) \in 0 .. 1
            /\ failures[j] \in 0 .. 2
        BY <1>1, <1>4, <3>2 DEF WrittenBy, CountOK, GivesUpAt
      <4>2. CASE Holding(e, j)
        <5>1. LeftToTwo(d, e, j) = BothHold(Read(d, j), Read(e, j))
          BY <4>1, <4>2
        <5>2. LeftToTwo(d, e, j)' = OneHolds(Read(d, j) + 1, Read(e, j))
          BY <3>2, <4>1, <4>2 DEF Untouched
        <5> HIDE DEF LeftToTwo, Holding
        <5>3. QED BY <1>1, <4>1, <4>2, <5>1, <5>2, Numbers
      <4>3. CASE ~Holding(e, j)
        <5>1. LeftToTwo(d, e, j) = OneHolds(failures[j], Read(d, j))
          BY <4>1, <4>3
        <5>2. LeftToTwo(d, e, j)' = NoneHolds(Read(d, j) + 1)
          BY <3>2, <4>1, <4>3 DEF Untouched
        <5> HIDE DEF LeftToTwo, Holding
        <5>3. QED BY <1>1, <4>1, <5>1, <5>2, Numbers
      <4>4. QED BY <4>2, <4>3
    <3>3. QED BY <3>1, <3>2
  <2> HIDE DEF LeftToTwo
  <2>4. QED BY <1>1, <2>1, <2>2, <2>3
<1>5. QED BY <1>2, <1>3, <1>4

LEMMA Unordered ==
    ASSUME NEW s \in Nat, NEW t \in Nat
    PROVE  BothHold(s, t) = BothHold(t, s)
BY DEF BothHold

LEMMA TryInvStep ==
    ASSUME TypeOK, TryInv, [Next]_vars
    PROVE  TryInv'
<1>1. setup' = setup
  BY SetupStays
<1>2. OthersIdle'
  <2>1. \A d \in Dispatchers \ setup.active :
            /\ ~Select(d) /\ ~Handles(d) /\ ~Records(d) /\ ~RecordFails(d) /\ ~Dies(d)
    <3> SUFFICES ASSUME NEW d \in Dispatchers \ setup.active
                 PROVE  /\ ~Select(d) /\ ~Handles(d)
                        /\ ~Records(d) /\ ~RecordFails(d) /\ ~Dies(d)
      OBVIOUS
    <3>1. batch[d] = {} /\ doing[d] = Null
      BY DEF TryInv, OthersIdle
    <3>2. ~Select(d) /\ ~Records(d) /\ ~RecordFails(d) /\ ~Dies(d)
      BY <3>1 DEF Select, Records, RecordFails, Dies
    <3>3. ~Handles(d)
      BY <3>1 DEF Handles, SkipsInternal, Fires, ReachesNobody, PushThrows, Tried
    <3>4. QED BY <3>2, <3>3
  <2>2. \A d \in Dispatchers \ setup.active : batch'[d] = batch[d] /\ doing'[d] = doing[d]
    <3>1. ASSUME NEW e \in Dispatchers,
                 Select(e) \/ Handles(e) \/ Records(e) \/ RecordFails(e) \/ Dies(e)
          PROVE  \A d \in Dispatchers : d # e => batch'[d] = batch[d] /\ doing'[d] = doing[d]
      <4>1. CASE Select(e)
        BY <4>1 DEF Select, TypeOK
      <4>2. CASE Handles(e)
        BY <4>2 DEF Handles, SkipsInternal, Fires, ReachesNobody, PushThrows, Tried, TypeOK
      <4>3. CASE Records(e) \/ RecordFails(e) \/ Dies(e)
        BY <4>3 DEF Records, RecordFails, Dies, TypeOK
      <4>4. QED BY <3>1, <4>1, <4>2, <4>3
    <3>2. CASE Tick \/ (\E j \in Jobs : Initialises(j)) \/ UNCHANGED vars
      BY <3>2 DEF Tick, Initialises, tickVars, vars
    <3>3. QED BY <2>1, <3>1, <3>2 DEF Next
  <2>3. QED BY <1>1, <2>2 DEF TryInv, OthersIdle
<1>3. ASSUME setup.faults = 0, NEW j \in OneShots, Kind(j) = "internal", attempts[j] = 0
      PROVE  attempts'[j] = 0
  <2>1. CASE \E d \in Dispatchers, i \in Jobs, ok \in BOOLEAN : Tried(d, i, ok) /\ Kind(i) # "internal"
    BY <1>3, <2>1 DEF Tried, TypeOK, OneShots
  <2>2. CASE UNCHANGED attempts
    BY <1>3, <2>2
  <2>3. \/ UNCHANGED attempts
        \/ \E d \in Dispatchers, i \in Jobs, ok \in BOOLEAN : Tried(d, i, ok) /\ Kind(i) # "internal"
    BY DEF Next, Tick, Initialises, Select, Handles, SkipsInternal, Fires, ReachesNobody,
           PushThrows, Records, RecordFails, Dies, history, vars
  <2>4. QED BY <2>1, <2>2, <2>3
<1>4. ASSUME setup.faults = 0, NEW j \in OneShots, Kind(j) # "internal", TriesOK(j)
      PROVE  TriesOK(j)'
  <2>0. j \in Jobs /\ OthersIdle
    BY DEF OneShots, TryInv
  <2>1. CASE LeftAlone(j) /\ \A d \in Dispatchers : Untouched(d, j)
    <3>1. /\ \A d \in Dispatchers : /\ Coming(d, j)' = Coming(d, j) /\ (CountOK(d, j) => CountOK(d, j)')
                                    /\ Holding(d, j)' <=> Holding(d, j)
                                    /\ Holding(d, j) => Read(d, j)' = Read(d, j)
          /\ UNCHANGED <<enabled[j], failures[j], attempts[j]>>
      BY <2>1 DEF LeftAlone, Untouched, Coming, CountOK, Holding
    <3>2. \A d \in Dispatchers : LeftToOne(d, j)' = LeftToOne(d, j)
      BY <3>1 DEF LeftToOne
    <3>3. \A d, e \in Dispatchers : LeftToTwo(d, e, j)' = LeftToTwo(d, e, j)
      BY <3>1 DEF LeftToTwo
    <3>4. \A d, e \in Dispatchers : (Single(d)' <=> Single(d)) /\ (Pair(d, e)' <=> Pair(d, e))
      BY <1>1 DEF Single, Pair
    <3>5. QED BY <1>4, <3>1, <3>2, <3>3, <3>4 DEF TriesOK
  <2>2. ASSUME NEW d \in setup.active,
               ReadBy(d, j) \/ TriedBy(d, j) \/ WrittenBy(d, j),
               \A e \in Dispatchers : e # d => Untouched(e, j)
        PROVE  TriesOK(j)'
    <3>1. d \in Dispatchers
      BY Shapes
    <3>2. /\ enabled'[j] => failures'[j] < GivesUpAt
          /\ \A e \in Dispatchers : CountOK(e, j)'
      BY <1>4, <2>0, <2>2, <3>1, CountKeeps
    <3>3. ASSUME NEW c \in Dispatchers, Single(c)
          PROVE  (attempts[j] + Coming(c, j) + LeftToOne(c, j) <= 3)'
      <4>1. c = d
        BY <2>2, <3>3 DEF Single
      <4>2. QED BY <1>4, <2>0, <2>2, <3>1, <3>3, <4>1, OneLineKeeps DEF TriesOK
    <3>4. ASSUME NEW e \in Dispatchers, Pair(d, e)
          PROVE  (attempts[j] + Coming(d, j) + Coming(e, j) + LeftToTwo(d, e, j) <= 7)'
      <4>1. attempts[j] + Coming(d, j) + Coming(e, j) + LeftToTwo(d, e, j) <= 7
        BY <1>4, <3>1, <3>4 DEF TriesOK
      <4>2. Untouched(e, j)
        BY <2>2, <3>4 DEF Pair
      <4>3. QED BY <1>4, <2>0, <2>2, <3>1, <4>1, <4>2, TwoLinesKeep
    <3>5. ASSUME NEW e \in Dispatchers, Pair(e, d)
          PROVE  (attempts[j] + Coming(e, j) + Coming(d, j) + LeftToTwo(e, d, j) <= 7)'
      <4>1. (attempts[j] + Coming(d, j) + Coming(e, j) + LeftToTwo(d, e, j) <= 7)'
        BY <3>4, <3>5 DEF Pair
      <4>2. LeftToTwo(d, e, j)' = LeftToTwo(e, d, j)'
        <5>1. TypeOK'
          BY TypesStep
        <5>2. Read(d, j)' \in Nat /\ Read(e, j)' \in Nat
          BY <2>0, <3>1, <5>1 DEF TypeOK, Read
        <5>3. QED BY <5>2, Unordered DEF LeftToTwo
      <4>3. Coming(d, j)' \in Nat /\ Coming(e, j)' \in Nat /\ attempts'[j] \in Nat
        <5>1. TypeOK'
          BY TypesStep
        <5>2. QED BY <2>0, <5>1 DEF Coming, TypeOK
      <4>4. QED BY <4>1, <4>2, <4>3
    <3>6. ASSUME NEW c \in Dispatchers, NEW e \in Dispatchers, Pair(c, e)
          PROVE  (attempts[j] + Coming(c, j) + Coming(e, j) + LeftToTwo(c, e, j) <= 7)'
      <4>1. c = d \/ e = d
        BY <2>2, <3>6 DEF Pair
      <4>2. QED BY <3>4, <3>5, <3>6, <4>1
    <3>7. \A c, e \in Dispatchers : (Single(c)' <=> Single(c)) /\ (Pair(c, e)' <=> Pair(c, e))
      BY <1>1 DEF Single, Pair
    <3>8. QED BY <3>2, <3>3, <3>6, <3>7 DEF TriesOK
  <2>3. QED BY <1>4, <2>0, <2>1, <2>2, OneEffect
<1>5. QED BY <1>1, <1>2, <1>3, <1>4 DEF TryInv, OneShots, Kind, Schedule

\* With no failing statement a one-shot is tried three times by one line of
\* ticks, whatever it reads and whenever it writes; and seven times by two,
\* which write back the failures they have read and so undo each other's.
THEOREM TriesAreBounded == Spec => []AttemptsAreBounded
<1>1. Init => TryInv
  <2> SUFFICES ASSUME Init PROVE TryInv
    OBVIOUS
  <2>1. OthersIdle
    BY DEF Init, OthersIdle
  <2>2. ASSUME NEW j \in OneShots PROVE attempts[j] = 0 /\ TriesOK(j)
    <3>1. j \in Jobs
      BY DEF OneShots
    <3>2. \A d \in Dispatchers : ~Holding(d, j) /\ Coming(d, j) = 0
      BY DEF Init, Holding, Trying, Coming
    <3>3. attempts[j] = 0 /\ failures[j] = 0 /\ enabled[j]
      BY <3>1 DEF Init
    <3>4. \A d, e \in Dispatchers : LeftToOne(d, j) = 3 /\ LeftToTwo(d, e, j) = 7
      BY <3>2, <3>3 DEF LeftToOne, LeftToTwo, NoneHolds
    <3>5. \A d \in Dispatchers : CountOK(d, j)
      BY <3>2 DEF CountOK, Holding
    <3>6. QED BY <3>2, <3>3, <3>4, <3>5 DEF TriesOK, GivesUpAt
  <2>3. QED BY <2>1, <2>2 DEF TryInv
<1>2. ASSUME TypeOK, TryInv, setup.faults = 0, NEW j \in OneShots,
             Cardinality(setup.active) <= 2
      PROVE  attempts[j] <= IF Alone THEN 3 ELSE 7
  <2>1. /\ j \in Jobs /\ attempts[j] \in Nat
        /\ IsFiniteSet(setup.active) /\ setup.active # {}
        /\ setup.active \subseteq Dispatchers
    <3>1. j \in Jobs /\ attempts[j] \in Nat
      BY <1>2 DEF OneShots, TypeOK
    <3>2. setup.active \subseteq Dispatchers /\ setup.active # {}
      BY <1>2, CronAssumption DEF TypeOK, SetupShape
    <3>3. IsFiniteSet(setup.active)
      BY <1>2, Shapes, CronAssumption, FS_Subset
    <3>4. QED BY <3>1, <3>2, <3>3
  <2>2. CASE Kind(j) = "internal"
    BY <1>2, <2>2 DEF TryInv
  <2>3. CASE Kind(j) # "internal" /\ Alone
    <3>1. PICK d \in Dispatchers : Single(d)
      BY <1>2, <2>1, <2>3, FS_Singleton DEF Alone, Single
    <3>2. attempts[j] + Coming(d, j) + LeftToOne(d, j) <= 3
      BY <1>2, <2>3, <3>1 DEF TryInv, TriesOK
    <3>3. Coming(d, j) \in Nat /\ LeftToOne(d, j) \in Nat
      BY <1>2, <2>1, <2>3, Small DEF TryInv, Coming, LeftToOne
    <3>4. QED BY <2>1, <2>3, <3>2, <3>3
  <2>4. CASE Kind(j) # "internal" /\ ~Alone
    <3>1. PICK d \in setup.active : TRUE
      BY <2>1
    <3>2. /\ IsFiniteSet(setup.active \ {d})
          /\ Cardinality(setup.active \ {d}) = Cardinality(setup.active) - 1
      BY <2>1, <3>1, FS_RemoveElement
    <3>3. Cardinality(setup.active) \in Nat /\ Cardinality(setup.active) # 0
      BY <2>1, FS_CardinalityType, FS_EmptySet
    <3>4. Cardinality(setup.active \ {d}) = 1
      BY <1>2, <2>4, <3>2, <3>3 DEF Alone
    <3>5. PICK e : setup.active \ {d} = {e}
      BY <3>2, <3>4, FS_Singleton
    <3>6. e \in Dispatchers /\ d \in Dispatchers /\ Pair(d, e)
      BY <1>2, <2>1, <3>1, <3>5 DEF Pair
    <3>7. attempts[j] + Coming(d, j) + Coming(e, j) + LeftToTwo(d, e, j) <= 7
      BY <1>2, <2>4, <3>6 DEF TryInv, TriesOK
    <3>8. Coming(d, j) \in Nat /\ Coming(e, j) \in Nat /\ LeftToTwo(d, e, j) \in Nat
      BY <1>2, <2>1, <2>4, <3>6, Small, Numbers DEF TryInv, Coming, LeftToTwo
    <3>9. QED BY <2>1, <2>4, <3>7, <3>8
  <2>5. QED BY <2>2, <2>3, <2>4
<1>3. TypeOK /\ TryInv => AttemptsAreBounded
  BY <1>2 DEF AttemptsAreBounded
<1>4. QED BY <1>1, <1>3, TryInvStep, Typing, PTL DEF Spec
=============================================================================
