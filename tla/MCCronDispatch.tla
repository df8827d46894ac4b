---------------------------- MODULE MCCronDispatch ----------------------------
(* Small instances of CronDispatch for TLC. *)
EXTENDS CronDispatch, TLC

CONSTANTS j1, j2, d1, d2

MCJobs == {j1, j2}
MCDispatchers == {d1, d2}

Job(k, s, n) == [kind |-> k, schedule |-> s, next |-> n]

Setup(a, b, full, active, limit, flt) ==
    [jobs |-> (j1 :> a) @@ (j2 :> b), full |-> full, active |-> active,
     limit |-> limit, faults |-> flt]

OnceTask == Job("task", "once", 1)
OnceReminder == Job("reminder", "once", 0)
EachTime(k, n) == Job(k, "recurring", n)

MCSetups ==
    {\* one line of ticks, nothing fails
     Setup(OnceTask, EachTime("task", 1), {}, {d1}, 2, 0),
     Setup(OnceTask, EachTime("internal", Null), {j1}, {d1}, 2, 0),
     Setup(OnceReminder, Job("task", "invalid", 0), {}, {d1}, 1, 0),
     \* two lines
     Setup(OnceTask, EachTime("reminder", Null), {j1}, {d1, d2}, 2, 0),
     Setup(OnceReminder, OnceTask, {}, {d1, d2}, 2, 0),
     \* statements fail and processes die
     Setup(OnceTask, OnceReminder, {}, {d1, d2}, 2, 1),
     Setup(OnceTask, EachTime("internal", 0), {j1}, {d1}, 1, 2)}
=============================================================================
