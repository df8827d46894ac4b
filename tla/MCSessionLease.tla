--------------------------- MODULE MCSessionLease ---------------------------
(* Small instances of SessionLease for TLC. *)
EXTENDS SessionLease, TLC

CONSTANTS r1, r2, c1, c2, p1, p2

MCRunners == {r1, r2}
MCCalls == {c1, c2}
MCPolls == {p1, p2}
NoPolls == {}

\* A stream reads the log and nothing reads the stream: only what inserts into
\* the log can matter to it.  Its polls are followed beside the calls that
\* append, before the clock moves, without supervisor or renewals and with
\* events that all cost the same.
StreamBesideAppends ==
    open # {} \/ sent # {} \/ cursor > 0
      => /\ now = 0
         /\ \A r \in rows : r.body = "costly"
         /\ \A c \in Calls : pc[c] \in {"idle", "claim", "gate", "max", "insert"}

\* The third event, which a page of two does not hold, comes before the clock
\* moves: the log and what is read from it do not depend on the time.
LongLogEarly ==
    Cardinality(rows) > PageLimit
      => /\ now = 0
         /\ \A c \in Calls : pc[c] \in {"idle", "max", "insert", "usage", "halt"}

\* Runners, requests and polls are interchangeable: no action names one.
Symmetry == Permutations(MCRunners) \cup Permutations(MCCalls)
                \cup Permutations(MCPolls)
=============================================================================
