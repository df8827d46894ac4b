------------------------------ MODULE Escalation ------------------------------
(***************************************************************************)
(* packages/agent/src/escalation/manager.ts: a tool call that needs a      *)
(* human's consent inserts a row, then waits for a promise that one of     *)
(* four parties settles: a decision made in this process, the waiter's own *)
(* timer, or the sweeper of this process.  A decision or a sweep of        *)
(* another replica (or the recovery of a starting one) changes the row     *)
(* only.  Every party first decides the row by one conditional UPDATE and  *)
(* settles the promise in a continuation that runs when the database has   *)
(* answered; the answers of two parties arrive in either order.            *)
(***************************************************************************)
EXTENDS ToolHints

VARIABLES row,        \* status of the call's row of escalation_requests
          overdue,    \* calls whose row is past expires_at
          asked,      \* how far requestEscalation has come for the call
          answer,     \* the decision its promise was resolved with
          waiting,    \* _pending: the calls with a registered waiter
          timer,      \* the waiter's timer and handleTimeout
          deciding,   \* decided here, continuation still to run
          sweeping    \* expired by the sweeper here, continuation to run

gateVars == <<row, overdue, asked, answer, waiting, timer, deciding, sweeping>>
memoryVars == <<asked, answer, waiting, timer, deciding, sweeping>>

Decisions == {"approved", "rejected"}
Decided == Decisions \cup {"timeout"}

\* Mutant: a status the column does not have.
ExpiredStatus == "expired"

\* The status a timer or a sweep writes.
TimedOut == "timeout"

GateTypeOK ==
    /\ row \in [Calls -> {"none", "pending"} \cup Decided]
    /\ overdue \subseteq Calls
    /\ asked \in [Calls -> {"no", "inserted", "promised", "settled", "failed", "gone"}]
    /\ answer \in [Calls -> {"none"} \cup Decided]
    /\ waiting \subseteq Calls
    /\ timer \in [Calls -> {"off", "set", "won", "lost"}]
    /\ deciding \subseteq Calls
    /\ sweeping \subseteq Calls

GateInit ==
    /\ row = [c \in Calls |-> "none"]
    /\ overdue = {}
    /\ asked = [c \in Calls |-> "no"]
    /\ answer = [c \in Calls |-> "none"]
    /\ waiting = {}
    /\ timer = [c \in Calls |-> "off"]
    /\ deciding = {}
    /\ sweeping = {}

-----------------------------------------------------------------------------
(* The request *)

\* INSERT of the row.
RequestEscalation(c) ==
    /\ asked[c] = "no"
    /\ row' = [row EXCEPT ![c] = "pending"]
    /\ asked' = [asked EXCEPT ![c] = "inserted"]
    /\ UNCHANGED <<overdue, answer, waiting, timer, deciding, sweeping>>

\* The INSERT fails and requestEscalation throws.
RequestFails(c) ==
    /\ asked[c] = "no"
    /\ asked' = [asked EXCEPT ![c] = "failed"]
    /\ UNCHANGED <<row, overdue, answer, waiting, timer, deciding, sweeping>>

\* The INSERT has returned: timer and waiter are set up, whatever has
\* happened to the row since.
Register(c) ==
    /\ asked[c] = "inserted"
    /\ asked' = [asked EXCEPT ![c] = "promised"]
    /\ waiting' = waiting \cup {c}
    /\ timer' = [timer EXCEPT ![c] = "set"]
    /\ UNCHANGED <<row, overdue, answer, deciding, sweeping>>

\* expires_at passes.
Expires(c) ==
    /\ row[c] # "none"
    /\ c \notin overdue
    /\ overdue' = overdue \cup {c}
    /\ UNCHANGED <<row, memoryVars>>

-----------------------------------------------------------------------------
(* Decisions *)

\* Mutant: the UPDATE looks at the id only.
AnyRow(c) == row[c] # "none"

\* WHERE status = 'pending', of every UPDATE.
IsPending(c) == row[c] = "pending"

\* Resolve the promises of the calls in S that have a waiter, with the
\* decision d[c]: clear the timer, drop the waiter.
Settle(S, d) ==
    LET known == S \cap waiting IN
    /\ waiting' = waiting \ known
    /\ asked' = [c \in Calls |-> IF c \in known THEN "settled" ELSE asked[c]]
    /\ answer' = [c \in Calls |-> IF c \in known THEN d[c] ELSE answer[c]]

ClearTimers(S) ==
    [c \in Calls |-> IF c \in S \cap waiting /\ timer[c] = "set" THEN "off" ELSE timer[c]]

\* approveEscalation and rejectEscalation: the UPDATE.
Decide(c, s) ==
    /\ IsPending(c)
    /\ row' = [row EXCEPT ![c] = s]
    /\ deciding' = deciding \cup {c}
    /\ UNCHANGED <<overdue, asked, answer, waiting, timer, sweeping>>

DecideContinues(c) ==
    /\ c \in deciding
    /\ deciding' = deciding \ {c}
    /\ Settle({c}, row)
    /\ timer' = ClearTimers({c})
    /\ UNCHANGED <<row, overdue, sweeping>>

\* The same UPDATE by another replica: this process does not hear of it.
DecideElsewhere(c, s) ==
    /\ IsPending(c)
    /\ row' = [row EXCEPT ![c] = s]
    /\ UNCHANGED <<overdue, memoryVars>>

\* handleTimeout: the timer fires and its UPDATE decides the row or finds it
\* decided.
TimerFires(c) ==
    /\ timer[c] = "set"
    /\ c \in overdue
    /\ IF IsPending(c)
       THEN /\ row' = [row EXCEPT ![c] = TimedOut]
            /\ timer' = [timer EXCEPT ![c] = "won"]
       ELSE /\ timer' = [timer EXCEPT ![c] = "lost"]
            /\ UNCHANGED row
    /\ UNCHANGED <<overdue, asked, answer, waiting, deciding, sweeping>>

\* Mutant: the waiter is dropped whatever happens to the UPDATE.
DroppedOnError(c) == waiting \ {c}

\* The UPDATE of handleTimeout fails: logged, and the waiter stays.
WaitingOnError(c) == waiting

TimerFails(c) ==
    /\ timer[c] = "set"
    /\ c \in overdue
    /\ timer' = [timer EXCEPT ![c] = "off"]
    /\ waiting' = WaitingOnError(c)
    /\ UNCHANGED <<row, overdue, asked, answer, deciding, sweeping>>

\* Mutant: a timer that lost the row still resolves its waiter as timed out.
TimerAlwaysResolves(c) == TRUE

\* Which waiters handleTimeout resolves; the others it only drops.
TimerResolves(c) == timer[c] = "won"

TimerContinues(c) ==
    /\ timer[c] \in {"won", "lost"}
    /\ IF TimerResolves(c)
       THEN Settle({c}, [x \in Calls |-> TimedOut])
       ELSE waiting' = waiting \ {c} /\ UNCHANGED <<asked, answer>>
    /\ timer' = [timer EXCEPT ![c] = "off"]
    /\ UNCHANGED <<row, overdue, deciding, sweeping>>

-----------------------------------------------------------------------------
(* Sweeper, recovery, restart *)

\* Mutant: the sweeper looks at the waiters of its process.
ExpiredWaiters == {c \in overdue \cap waiting : IsPending(c)}

\* WHERE status = 'pending' AND expires_at < now
Expired == {c \in overdue : IsPending(c)}

ExpireRows == row' = [c \in Calls |-> IF c \in Expired THEN TimedOut ELSE row[c]]


\* sweeperTick: the UPDATE.  The next tick is 30 s away, so that a tick is
\* taken to be over when the next one begins.
Sweep ==
    /\ Expired # {} /\ sweeping = {}
    /\ ExpireRows
    /\ sweeping' = Expired
    /\ UNCHANGED <<overdue, asked, answer, waiting, timer, deciding>>

SweepContinues ==
    /\ sweeping # {}
    /\ Settle(sweeping, [x \in Calls |-> TimedOut])
    /\ timer' = ClearTimers(sweeping)
    /\ sweeping' = {}
    /\ UNCHANGED <<row, overdue, deciding>>

\* The sweeper of another replica, or recoverExpiredOnStartup of one that
\* starts: rows only.
SweepElsewhere ==
    /\ Expired # {}
    /\ ExpireRows
    /\ UNCHANGED <<overdue, memoryVars>>

\* The process dies with its waiters; the rows stay.
GateRestart ==
    /\ asked' = [c \in Calls |-> IF asked[c] \in {"inserted", "promised", "settled"}
                                 THEN "gone" ELSE asked[c]]
    /\ waiting' = {}
    /\ timer' = [c \in Calls |-> "off"]
    /\ deciding' = {}
    /\ sweeping' = {}
    /\ UNCHANGED <<row, overdue, answer>>

-----------------------------------------------------------------------------
(* What the gate promises *)

\* A promise is resolved with the decision the row records, whichever of the
\* four parties came first and whatever the order of their continuations.
AnswersMatchRows == \A c \in Calls : answer[c] # "none" => answer[c] = row[c]

\* "Row status transitions pending -> approved | rejected | timeout": a
\* decided row is never decided again, by no replica, timer or sweep.
RowsAreFinal == [][\A c \in Calls : row[c] \in Decided => row'[c] = row[c]]_row

\* Every request is decided in the end, also when the process that made it
\* has died: the sweeper of whichever process runs ages it out.
RowsAreDecided == []<>(\A c \in Calls : row[c] # "pending")

\* The promise "resolves once the user approves or rejects the request (or
\* when the TTL elapses, whichever comes first)", unless the process dies.
PromiseSettles == []<>(\A c \in Calls : asked[c] # "promised")

\* The wait of a call whose waiter is gone while no continuation will resolve
\* its promise.
Forgotten(c) ==
    asked[c] = "promised" /\ c \notin waiting

\* A caller is only forgotten after its row was decided, so that the loss is
\* a lost answer and never a request nobody can see.
ForgottenWereDecided == \A c \in Calls : Forgotten(c) => row[c] \in Decided
=============================================================================
