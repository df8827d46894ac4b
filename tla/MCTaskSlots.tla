----------------------------- MODULE MCTaskSlots -----------------------------
(* Small instances of TaskSlots for TLC. *)
EXTENDS TaskSlots, TLC

CONSTANTS t1, t2, w1, w2

OneTask == {t1}
MCTasks == {t1, t2}
OneWorker == {w1}
MCWorkers == {w1, w2}

Apart == [t \in Tasks |-> NoRepo]
Together == [t \in Tasks |-> "repo_x"]

\* What is looked at in one instance: how many tasks are at work, the faults
\* there may be, the tasks that may be overtaken, and what goes on beside the
\* claims, runs and evictions of the loop: sweeps, heartbeats, cancellations,
\* and a route that claims and evicts as well.
Instance(slots, repo, tasks, faulty, late, beside) ==
    [slots |-> slots, repo |-> repo, tasks |-> tasks,
     faults |-> faulty, late |-> late, beside |-> beside]

\* Two tasks contend for one slot, for one repo, or have a slot each and may
\* start twice, with and without a second caller; one task alone meets
\* everything, with two faults.
Contended == {Instance(1, Apart, 2, 0, 1, {"sweep"}),
              Instance(1, Apart, 2, 1, 0, {"beat", "cancel"}),
              Instance(2, Together, 2, 0, 1, {}),
              Instance(2, Together, 2, 1, 0, {"sweep"}),
              Instance(2, Apart, 2, 0, 0, {"sweep"}),
              Instance(1, Apart, 1, 2, 0, {"sweep", "beat", "cancel"}),
              Instance(1, Apart, 2, 0, 0, {"route"}),
              Instance(2, Together, 2, 0, 0, {"route"}),
              Instance(1, Apart, 1, 1, 0, {"sweep", "route"})}
OneSlot == {Instance(1, Apart, 1, 1, 1, {"sweep", "beat", "cancel"})}
TwoSlots == {Instance(2, Apart, 1, 1, 1, {"sweep", "beat", "cancel", "route"})}

WithinInstance ==
    /\ faults <= setup.faults
    /\ Cardinality(overtaken) <= setup.late
    /\ setup.tasks = 1 => \E t \in Tasks : \A u \in Tasks \ {t} : status[u] = "queued"
    /\ "sweep" \in setup.beside \/ gpc = "idle"
    /\ "beat" \in setup.beside \/ \A w \in Workers : beat[w] = Nobody
    /\ "route" \in setup.beside \/ \A k \in Routes : kpc[k] = "idle"
    /\ "cancel" \in setup.beside \/ \A t \in Tasks : status[t] # "cancelled"

\* Behaviours in which no task is overtaken: Overtake is enabled as ever, so
\* that no action waits for the bound.
NeverOvertaken == overtaken = {}

\* One fault is a crash: statements that fail are for the setup with two.
OneFaultIsACrash == setup.faults = 1 /\ faults' # faults => Crash

Symmetry == Permutations(MCTasks) \cup Permutations(MCWorkers)
=============================================================================
