---------------------------- MODULE MCTaskApproval ----------------------------
(* Small instances of TaskApproval for TLC. *)
EXTENDS TaskApproval, TLC

CONSTANTS w1, w2, u1, u2

MCWorkers == {w1, w2}
OneDecider == {u1}
OneCanceller == {u2}
=============================================================================
