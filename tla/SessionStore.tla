---------------------------- MODULE SessionStore ----------------------------
(***************************************************************************)
(* The Postgres adapter behind one Session Fabric session: the row of      *)
(* `leases` that names the session's single writer, and the rows of        *)
(* `session_events`, which carry UNIQUE(session_id, seq).  Every operator  *)
(* below is ONE statement of                                               *)
(* apps/api/src/repositories/session-fabric.repository.ts and is therefore *)
(* atomic; whatever a use case does between two statements is a separate   *)
(* step of the modules that extend this one.  Sessions do not share rows,  *)
(* so one session stands for all of them.                                  *)
(*                                                                         *)
(* A statement never reads the database's clock: the caller passes the     *)
(* time t it read from its own `Clock` before it issued the statement.     *)
(***************************************************************************)
EXTENDS Naturals, FiniteSets

CONSTANTS Runners,    \* runner ids that claim the session
          NoLease,    \* the session has no row in `leases`
          Bodies,     \* what an event carries besides its seq and its runner
          PageLimit   \* LIMIT of listEvents (1000 in the code)

ASSUME StoreAssumption ==
    /\ NoLease \notin Runners
    /\ NoLease \notin [holder : Runners, until : Nat]
    /\ PageLimit \in Nat \ {0}

VARIABLES now,        \* the wall clock
          lease,      \* the session's row of `leases`, or NoLease
          rows        \* the session's rows of `session_events`

storeVars == <<now, lease, rows>>

LeaseRows == [holder : Runners, until : Nat]
EventRows == [seq : Nat \ {0}, runner : Runners, body : Bodies]

StoreTypeOK ==
    /\ now \in Nat
    /\ lease \in LeaseRows \cup {NoLease}
    /\ rows \subseteq EventRows

StoreInit ==
    /\ now = 0
    /\ lease = NoLease
    /\ rows = {}

-----------------------------------------------------------------------------
(* session_events *)

Seqs == {r.seq : r \in rows}

\* SELECT coalesce(max(seq), 0)
MaxSeq == IF rows = {} THEN 0
          ELSE CHOOSE m \in Seqs : \A s \in Seqs : s <= m

\* Mutant: the table without its unique constraint.
NeverTaken(s) == FALSE

\* UNIQUE(session_id, seq) refuses an INSERT with this seq.
SeqTaken(s) == s \in Seqs

\* Mutant: seq = maxSeq, the + 1 forgotten.
InsertAtMax(s, r, b) ==
    rows' = rows \cup {[seq |-> s - 1, runner |-> r, body |-> b]}

InsertRow(s, r, b) ==
    rows' = rows \cup {[seq |-> s, runner |-> r, body |-> b]}

\* Mutant: ORDER BY seq DESC.
ListNewest(since) ==
    LET from == {r \in rows : r.seq >= since}
    IN  {r \in from : Cardinality({q \in from : q.seq > r.seq}) < PageLimit}

\* SELECT ... WHERE seq > since - 1 ORDER BY seq LIMIT PageLimit
ListEvents(since) ==
    LET from == {r \in rows : r.seq >= since}
    IN  {r \in from : Cardinality({q \in from : q.seq < r.seq}) < PageLimit}

-----------------------------------------------------------------------------
(* leases *)

\* use-cases.ts leaseActive: strictly before the end of the term.
LeaseActive(l, t) == l # NoLease /\ l.until > t

\* Mutant: the comparison of the upsert the wrong way round.
ClaimWinsRunning(r, t) == lease # NoLease => lease.until > t \/ lease.holder = r

\* INSERT ... ON CONFLICT DO UPDATE ... WHERE claimed_until < t OR same runner
ClaimWins(r, t) == lease # NoLease => lease.until < t \/ lease.holder = r

\* UPDATE ... WHERE runner_id = r AND claimed_until > t
RenewWins(r, t) == /\ LeaseActive(lease, t)
                   /\ lease.holder = r

\* DELETE ... WHERE runner_id = r
ReleaseWins(r) == lease # NoLease /\ lease.holder = r

SetLease(r, until) == lease' = [holder |-> r, until |-> until]

\* Mutant: DELETE without the runner in its WHERE.
DeleteAnyLease(r) == lease' = NoLease

DeleteLease(r) == lease' = IF ReleaseWins(r) THEN NoLease ELSE lease

\* Date.now() moves on; TimeBound keeps the model finite.
Tick(TimeBound) ==
    /\ now < TimeBound
    /\ now' = now + 1
    /\ UNCHANGED <<lease, rows>>
=============================================================================
