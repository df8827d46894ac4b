---------------------------- MODULE SessionLease ----------------------------
(***************************************************************************)
(* The lease and append use cases of                                       *)
(* packages/session-fabric/src/use-cases.ts, the supervisor of             *)
(* supervisor.ts and the event stream of apps/api/src/routes/sessions.ts,  *)
(* run by requests that interleave at every `await`.                       *)
(*                                                                         *)
(* A member of Calls is one in-flight HTTP request; pc[c] names the        *)
(* statement it is about to issue.  A call that has returned is idle, has  *)
(* forgotten its local variables and may serve another request.  A request *)
(* may also vanish between two of its steps, when the API process dies.    *)
(***************************************************************************)
EXTENDS SessionStore, Integers

CONSTANTS Calls,          \* concurrent requests
          Polls,          \* polls of one event stream that may overlap
          Ttls,           \* lease lengths a caller asks for
          MaxSeqRetries,  \* MAX_SEQ_RETRIES (5 in the code)
          Budget,         \* what a session may use and be within budget
          MaxTime,        \* bound of the model: the clock stops here
          MaxRows         \* bound of the model: no request appends beyond this

ASSUME LeaseAssumption ==
    /\ Ttls \subseteq Nat \ {0}
    /\ MaxSeqRetries \in Nat \ {0}
    /\ Budget \in Nat
    /\ MaxTime \in Nat
    /\ MaxRows \in Nat

VARIABLES pc,       \* the next statement of a call
          who,      \* the runnerId of its request (for a supervisor: the one it saw)
          at,       \* the time it read from the clock
          base,     \* the maxSeq it read last
          tries,    \* inserts of its append that hit a taken seq
          first,    \* history: the maxSeq it read first (a supervisor: the one
                    \* of the moment it read the lease)
          reply,    \* what it returned last
          cursor,   \* lastSeq + 1 of the stream: the next seq it asks for
          sent,     \* the seqs the stream has written to its response
          open,     \* the polls of the stream that have read and not yet written
          page      \* the seqs an open poll has read

Nobody == "nobody"

callVars == <<pc, who, at, base, tries, first, reply>>
streamVars == <<cursor, sent, open, page>>
vars == <<storeVars, callVars, streamVars>>

Steps == {"idle", "claim", "claimRead", "renew", "renewRead",
          "gate", "max", "insert", "usage", "halt"}

Replies == {"none", "ok", "LEASE_HELD", "TypeError", "NO_LEASE",
            "LEASE_MISMATCH", "SEQ_CONFLICT", "throw", "halted"}

TypeOK ==
    /\ StoreTypeOK
    /\ pc \in [Calls -> Steps]
    /\ who \in [Calls -> Runners \cup {Nobody}]
    /\ at \in [Calls -> Nat]
    /\ base \in [Calls -> Nat]
    /\ tries \in [Calls -> Nat]
    /\ first \in [Calls -> Nat]
    /\ reply \in [Calls -> Replies]
    /\ cursor \in Nat
    /\ sent \subseteq Nat
    /\ open \subseteq Polls
    /\ page \in [Polls -> SUBSET Nat]

Init ==
    /\ StoreInit
    /\ pc = [c \in Calls |-> "idle"]
    /\ who = [c \in Calls |-> Nobody]
    /\ at = [c \in Calls |-> 0]
    /\ base = [c \in Calls |-> 0]
    /\ tries = [c \in Calls |-> 0]
    /\ first = [c \in Calls |-> 0]
    /\ reply = [c \in Calls |-> "none"]
    /\ cursor = 0
    /\ sent = {}
    /\ open = {}
    /\ page = [p \in Polls |-> {}]

-----------------------------------------------------------------------------
(* A request arrives, moves on to its next statement, or returns. *)

Arrive(c, r, step) ==
    /\ pc[c] = "idle"
    /\ pc' = [pc EXCEPT ![c] = step]
    /\ who' = [who EXCEPT ![c] = r]
    /\ at' = [at EXCEPT ![c] = now]
    /\ reply' = [reply EXCEPT ![c] = "none"]
    /\ UNCHANGED <<base, tries>>

GoTo(c, step) ==
    /\ pc' = [pc EXCEPT ![c] = step]
    /\ UNCHANGED <<who, at, base, tries, first, reply>>

Return(c, answer) ==
    /\ pc' = [pc EXCEPT ![c] = "idle"]
    /\ who' = [who EXCEPT ![c] = Nobody]
    /\ at' = [at EXCEPT ![c] = 0]
    /\ base' = [base EXCEPT ![c] = 0]
    /\ tries' = [tries EXCEPT ![c] = 0]
    /\ first' = [first EXCEPT ![c] = 0]
    /\ reply' = [reply EXCEPT ![c] = answer]

-----------------------------------------------------------------------------
(* claimLease: read the clock, then the guarded upsert; a loser reads the  *)
(* row again to say who holds it, and that row may be gone by then.        *)

ClaimArrives(c, r) ==
    /\ Arrive(c, r, "claim")
    /\ UNCHANGED <<storeVars, first, streamVars>>

ClaimWon(c, ttl) ==
    /\ pc[c] = "claim"
    /\ ClaimWins(who[c], at[c])
    /\ SetLease(who[c], at[c] + ttl)
    /\ Return(c, "ok")
    /\ UNCHANGED <<now, rows, streamVars>>

ClaimLost(c) ==
    /\ pc[c] = "claim"
    /\ ~ClaimWins(who[c], at[c])
    /\ GoTo(c, "claimRead")
    /\ UNCHANGED <<storeVars, streamVars>>

ClaimReadsHolder(c) ==
    /\ pc[c] = "claimRead"
    /\ Return(c, IF lease = NoLease THEN "TypeError" ELSE "LEASE_HELD")
    /\ UNCHANGED <<storeVars, streamVars>>

(* renewLease: the guarded update; a loser reads the row to say why. *)

RenewArrives(c, r) ==
    /\ Arrive(c, r, "renew")
    /\ UNCHANGED <<storeVars, first, streamVars>>

RenewWon(c, ttl) ==
    /\ pc[c] = "renew"
    /\ RenewWins(who[c], at[c])
    /\ SetLease(who[c], at[c] + ttl)
    /\ Return(c, "ok")
    /\ UNCHANGED <<now, rows, streamVars>>

RenewLost(c) ==
    /\ pc[c] = "renew"
    /\ ~RenewWins(who[c], at[c])
    /\ GoTo(c, "renewRead")
    /\ UNCHANGED <<storeVars, streamVars>>

RenewReadsHolder(c) ==
    /\ pc[c] = "renewRead"
    /\ Return(c, IF LeaseActive(lease, at[c]) THEN "LEASE_MISMATCH" ELSE "NO_LEASE")
    /\ UNCHANGED <<storeVars, streamVars>>

(* releaseLease is a single statement. *)

Release(r) ==
    /\ ReleaseWins(r)
    /\ DeleteLease(r)
    /\ UNCHANGED <<now, rows, callVars, streamVars>>

-----------------------------------------------------------------------------
(* appendEvent: assertHoldsLease, then up to MaxSeqRetries times maxSeq    *)
(* and INSERT.  Nothing ties the INSERT to the lease row the gate read.    *)

AppendArrives(c, r) ==
    /\ Cardinality(rows) < MaxRows
    /\ Arrive(c, r, "gate")
    /\ UNCHANGED <<storeVars, first, streamVars>>

\* Mutant: any active lease lets an append through.
AssertSomeLease(c) ==
    /\ pc[c] = "gate"
    /\ IF LeaseActive(lease, at[c]) THEN GoTo(c, "max") ELSE Return(c, "NO_LEASE")
    /\ UNCHANGED <<storeVars, streamVars>>

AssertHoldsLease(c) ==
    /\ pc[c] = "gate"
    /\ \/ /\ ~LeaseActive(lease, at[c])
          /\ Return(c, "NO_LEASE")
       \/ /\ LeaseActive(lease, at[c])
          /\ lease.holder # who[c]
          /\ Return(c, "LEASE_MISMATCH")
       \/ /\ LeaseActive(lease, at[c])
          /\ lease.holder = who[c]
          /\ GoTo(c, "max")
    /\ UNCHANGED <<storeVars, streamVars>>

ReadMaxSeq(c) ==
    /\ pc[c] = "max"
    /\ pc' = [pc EXCEPT ![c] = "insert"]
    /\ base' = [base EXCEPT ![c] = MaxSeq]
    /\ first' = [first EXCEPT ![c] = IF tries[c] = 0 THEN MaxSeq ELSE @]
    /\ UNCHANGED <<storeVars, who, at, tries, reply, streamVars>>

InsertWins(c) ==
    /\ pc[c] = "insert"
    /\ ~SeqTaken(base[c] + 1)
    /\ \E b \in Bodies : InsertRow(base[c] + 1, who[c], b)
    /\ Return(c, "ok")
    /\ UNCHANGED <<now, lease, streamVars>>

\* Mutant: maxSeq read once, before the retry loop.
RetryStaleSeq(c) ==
    /\ pc[c] = "insert"
    /\ SeqTaken(base[c] + 1)
    /\ IF tries[c] + 1 < MaxSeqRetries
       THEN /\ tries' = [tries EXCEPT ![c] = @ + 1]
            /\ UNCHANGED <<pc, who, at, base, first, reply>>
       ELSE Return(c, "SEQ_CONFLICT")
    /\ UNCHANGED <<storeVars, streamVars>>

\* isUniqueViolation recognised the driver's error: SeqConflictError, retry.
InsertConflicts(c) ==
    /\ pc[c] = "insert"
    /\ SeqTaken(base[c] + 1)
    /\ IF tries[c] + 1 < MaxSeqRetries
       THEN /\ pc' = [pc EXCEPT ![c] = "max"]
            /\ tries' = [tries EXCEPT ![c] = @ + 1]
            /\ UNCHANGED <<who, at, base, first, reply>>
       ELSE Return(c, "SEQ_CONFLICT")
    /\ UNCHANGED <<storeVars, streamVars>>

\* It did not (the driver's error may arrive wrapped, its code one level
\* down), or the INSERT failed for another reason: the error is rethrown.
InsertThrows(c) ==
    /\ pc[c] = "insert"
    /\ Return(c, "throw")
    /\ UNCHANGED <<storeVars, streamVars>>

-----------------------------------------------------------------------------
(* superviseSession: read the lease, read the log, take the lease away.    *)

\* What the events add up to.  The route takes any number for an event's cost
\* and tokens (sessions.ts:128), and a negative one is a refund.
Usage(events) == Cardinality({e \in events : e.body = "costly"})
                   - Cardinality({e \in events : e.body = "refund"})

OverBudget(events) == Usage(events) > Budget

SuperviseReadsLease(c) ==
    /\ LeaseActive(lease, now)
    /\ Arrive(c, lease.holder, "usage")
    /\ first' = [first EXCEPT ![c] = MaxSeq]
    /\ UNCHANGED <<storeVars, streamVars>>

SuperviseReadsUsage(c) ==
    /\ pc[c] = "usage"
    /\ IF OverBudget(ListEvents(0)) THEN GoTo(c, "halt") ELSE Return(c, "ok")
    /\ UNCHANGED <<storeVars, streamVars>>

SuperviseHalts(c) ==
    /\ pc[c] = "halt"
    /\ DeleteLease(who[c])
    /\ Return(c, "halted")
    /\ UNCHANGED <<now, rows, streamVars>>

-----------------------------------------------------------------------------
(* GET /sessions/:id/events/stream: setInterval starts a poll whether or   *)
(* not the one before has returned.                                        *)

PollReads(p) ==
    /\ p \notin open
    /\ open' = open \cup {p}
    /\ page' = [page EXCEPT ![p] = {e.seq : e \in ListEvents(cursor)}]
    /\ UNCHANGED <<storeVars, callVars, cursor, sent>>

PollWrites(p) ==
    /\ p \in open
    /\ sent' = sent \cup page[p]
    /\ cursor' = LET ends == {cursor} \cup {s + 1 : s \in page[p]}
                 IN  CHOOSE m \in ends : \A e \in ends : e <= m
    /\ open' = open \ {p}
    /\ page' = [page EXCEPT ![p] = {}]
    /\ UNCHANGED <<storeVars, callVars>>

-----------------------------------------------------------------------------
(* The API process dies with the request in it. *)

Vanish(c) ==
    /\ pc[c] # "idle"
    /\ Return(c, "none")
    /\ UNCHANGED <<storeVars, streamVars>>

ClockTick == Tick(MaxTime) /\ UNCHANGED <<callVars, streamVars>>

CallStep(c) ==
    \/ \E r \in Runners :
          ClaimArrives(c, r) \/ RenewArrives(c, r) \/ AppendArrives(c, r)
    \/ \E ttl \in Ttls : ClaimWon(c, ttl) \/ RenewWon(c, ttl)
    \/ ClaimLost(c) \/ ClaimReadsHolder(c)
    \/ RenewLost(c) \/ RenewReadsHolder(c)
    \/ AssertHoldsLease(c) \/ ReadMaxSeq(c)
    \/ InsertWins(c) \/ InsertConflicts(c) \/ InsertThrows(c)
    \/ SuperviseReadsLease(c) \/ SuperviseReadsUsage(c) \/ SuperviseHalts(c)
    \/ Vanish(c)

Next ==
    \/ \E c \in Calls : CallStep(c)
    \/ \E r \in Runners : Release(r)
    \/ \E p \in Polls : PollReads(p) \/ PollWrites(p)
    \/ ClockTick

Spec == Init /\ [][Next]_vars

-----------------------------------------------------------------------------
(* Properties *)

\* The log reads 1, 2, .., n and no seq twice, although every appender
\* computes its seq from a maxSeq that may be stale when it inserts
\* (use-cases.ts appendEvent, "gap-free seq").
GapFree ==
    /\ Seqs = 1 .. Cardinality(rows)
    /\ \A r, q \in rows : r.seq = q.seq => r = q

\* A stream never moves its cursor past an event it has not written: what it
\* has sent is the log below the cursor, although polls overlap, pages are
\* limited and events are inserted meanwhile (sessions.ts poll).
StreamSkipsNothing ==
    sent = {s \in Seqs : s < cursor}

\* An append has hit no more taken seqs than the log has grown by since it
\* first read maxSeq: a conflict is always another request's success, so
\* SEQ_CONFLICT means MaxSeqRetries other events were accepted meanwhile.
ConflictIsProgress ==
    \A c \in Calls : pc[c] \in {"max", "insert"} => first[c] + tries[c] <= MaxSeq

\* While a runner's term runs, no other runner becomes the holder, whatever
\* stale clock readings claims and renewals carry: the row may only be
\* deleted or stay with its holder (use-cases.ts claimLease, renewLease).
ActiveTermIsExclusive ==
    [][LeaseActive(lease, now) /\ lease' # lease
         => lease' = NoLease \/ lease'.holder = lease.holder]_vars

\* The page a supervisor gets when the log has n events (it has n or more).
PageAt(n) == {r \in ListEvents(0) : r.seq <= n}

\* A supervisor takes a lease away only from the runner it found driving, and
\* only when the page it goes by was over budget at some moment since then,
\* although the log, the clock and the lease moved on between its reads and
\* its delete and a refund may have brought usage back (supervisor.ts).
HaltHitsTheRunaway ==
    [][\A c \in Calls :
          pc[c] = "halt" /\ pc'[c] = "idle" /\ lease' # lease
            => /\ lease.holder = who[c]
               /\ \E n \in first[c] .. MaxSeq : OverBudget(PageAt(n))]_vars

\* The rows, seq retries and leases implement an append-only log written by
\* admitted requests only (SingleWriterLog).
LogEntry(i) == LET r == CHOOSE r \in rows : r.seq = i
               IN  [runner |-> r.runner, body |-> r.body]

LogView == [i \in 1 .. Cardinality(rows) |-> LogEntry(i)]
HolderView == IF lease = NoLease THEN NoLease ELSE lease.holder
AdmittedView == [c \in Calls |->
                    IF pc[c] \in {"max", "insert"} THEN who[c] ELSE NoLease]

Promise == INSTANCE SingleWriterLog WITH
    log <- LogView, holder <- HolderView, admitted <- AdmittedView, Free <- NoLease

ImplementsLog == Promise!Spec

(* What the code says of itself and does not keep (see the README). *)

\* use-cases.ts:206 "only the active lease-holder appends": no event of one
\* runner is inserted while another runner's term runs.
SingleWriter ==
    [][\A c \in Calls :
          pc[c] = "insert" /\ rows' # rows /\ reply'[c] = "ok" /\ LeaseActive(lease, now)
            => lease.holder = who[c]]_vars
=============================================================================
