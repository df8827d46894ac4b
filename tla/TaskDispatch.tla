----------------------------- MODULE TaskDispatch -----------------------------
(***************************************************************************)
(* What the poll loop promises to those who queue tasks: a task runs once  *)
(* at a time, on a repo of its own, within the slots there are, and it     *)
(* starts a bounded number of times.  Runs end in any way, at any moment,  *)
(* one by one or all at once.  A task may be lost: the loop keeps none of  *)
(* its promises about it from then on, and all of them about the others.   *)
(*                                                                         *)
(* Rows, slots in Redis, expiries, evictions, retries and sweepers are all *)
(* absent: TaskSlots implements this specification with them.              *)
(***************************************************************************)
EXTENDS Naturals, FiniteSets

CONSTANTS Tasks, NoRepo,
          MaxStarts    \* starts of one task

VARIABLES slots,    \* how many tasks may run at once
          repo,     \* the repo each task works on, or NoRepo
          running,  \* the tasks with a run, but those that are lost
          starts,   \* how often each was started, if it is not lost
          lost      \* the tasks nothing is promised about any more

dispatchVars == <<slots, repo, running, starts, lost>>

Init ==
    /\ slots \in Nat \ {0} /\ DOMAIN repo = Tasks
    /\ running = {}
    /\ starts = [t \in Tasks |-> 0]
    /\ lost = {}

\* These tasks may run side by side.
Compatible(S) ==
    /\ Cardinality(S) <= slots
    /\ \A t, u \in S : repo[t] = repo[u] /\ repo[t] # NoRepo => t = u

\* A batch of tasks starts next to those that run.
Start(batch) ==
    /\ running' = running \cup batch
    /\ batch \cap (running \cup lost) = {}
    /\ \A t \in batch : starts[t] < MaxStarts
    /\ Compatible(running')
    /\ starts' = [t \in Tasks |-> IF t \in batch THEN starts[t] + 1 ELSE starts[t]]
    /\ UNCHANGED <<slots, repo, lost>>

End(t) ==
    /\ running' = running \ {t}
    /\ UNCHANGED <<slots, repo, starts, lost>>

Lose(t) ==
    /\ lost' = lost \cup {t}
    /\ running' = running \ {t}
    /\ starts' = [starts EXCEPT ![t] = 0]
    /\ UNCHANGED <<slots, repo>>

Crash ==
    /\ running' = {}
    /\ UNCHANGED <<slots, repo, starts, lost>>

Next ==
    \/ \E batch \in (SUBSET Tasks) \ {{}} : Start(batch)
    \/ \E t \in Tasks : End(t) \/ Lose(t)
    \/ Crash

Spec == Init /\ [][Next]_dispatchVars
=============================================================================
