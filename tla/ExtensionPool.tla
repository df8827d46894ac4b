---------------------------- MODULE ExtensionPool ----------------------------
(***************************************************************************)
(* packages/agent/src/plugins/persistent-pool.ts for one extension, and    *)
(* the part of a tool call (plugins/bridge.ts) that uses it: acquire the   *)
(* worker, invoke the tool, and after a failure with no worker left in the *)
(* pool acquire another and, if the tool allows it, invoke once more.      *)
(*                                                                         *)
(* The pool has one entry per extension NAME.  The handlers of a worker's  *)
(* error, exit and timeout delete the entry by that name, whichever worker *)
(* it holds by then, and the error handler fails the invocations of the    *)
(* extension on every worker.  A handler and the continuations of the      *)
(* promises it resolves run without a break, hence in one step.            *)
(***************************************************************************)
EXTENDS ToolHints

\* The pool has no entry, or the call no worker.
NoThread == 0

\* Worker threads in the order they are spawned: one when the tools are
\* loaded and at most two by each call.
Threads == 1 .. 2 * Cardinality(Calls) + 1

VARIABLES thread,     \* life of each worker thread
          pool,       \* the entry of _workers
          at,         \* where the call's execute is
          on,         \* the worker it waits for or has invoked
          busy,       \* workers whose handler for the call has not finished
          ran,        \* workers the call was sent to
          result      \* what execute returned

poolVars == <<thread, pool, at, on, busy, ran, result>>

Acquiring == {"spawning", "respawning"}
Invoking == {"running", "rerunning"}

PoolTypeOK ==
    /\ thread \in [Threads -> {"unborn", "booting", "up", "stopping", "dead"}]
    /\ pool \in Threads \cup {NoThread}
    /\ at \in [Calls -> {"gate", "ended", "gone"} \cup Acquiring \cup Invoking]
    /\ on \in [Calls -> Threads \cup {NoThread}]
    /\ busy \in [Calls -> SUBSET Threads]
    /\ ran \in [Calls -> SUBSET Threads]
    /\ result \in [Calls -> {"none", "ok", "failed", "denied", "threw"}]

\* loadPluginTools has activated the first worker.
PoolInit ==
    /\ thread = [t \in Threads |-> IF t = 1 THEN "up" ELSE "unborn"]
    /\ pool = 1
    /\ at = [c \in Calls |-> "gate"]
    /\ on = [c \in Calls |-> NoThread]
    /\ busy = [c \in Calls |-> {}]
    /\ ran = [c \in Calls |-> {}]
    /\ result = [c \in Calls |-> "none"]

-----------------------------------------------------------------------------
(* Helpers: each gives the primed value of the call's variables *)

Unborn == {t \in Threads : thread[t] = "unborn"}

\* A thread of its own for every call of S, the next ones in order.
NextThreads(S) ==
    CHOOSE f \in [S -> {t \in Unborn : \A u \in Unborn : t <= u + Cardinality(S) - 1}] :
        \A c, d \in S : c # d => f[c] # f[d]

End(c, r) ==
    /\ at' = [at EXCEPT ![c] = "ended"]
    /\ result' = [result EXCEPT ![c] = r]

\* invokeTool posts the call to worker t.
Invoke(c, t, where) ==
    /\ at' = [at EXCEPT ![c] = where]
    /\ on' = [on EXCEPT ![c] = t]
    /\ busy' = [busy EXCEPT ![c] = @ \cup {t}]
    /\ ran' = [ran EXCEPT ![c] = @ \cup {t}]

\* The pending invocations of S fail and the pool is then p: the first
\* failure of a call with no worker in the pool spawns another, every other
\* failure is the call's result.  Threads T are being stopped.
Fail(S, p, T) ==
    LET again == IF p = NoThread THEN {c \in S : at[c] = "running"} ELSE {}
        fresh == NextThreads(again)
    IN  /\ pool' = p
        /\ thread' = [t \in Threads |->
                         IF \E c \in again : fresh[c] = t THEN "booting"
                         ELSE IF t \in T /\ thread[t] # "dead" THEN "stopping" ELSE thread[t]]
        /\ at' = [c \in Calls |-> IF c \in again THEN "respawning"
                                  ELSE IF c \in S THEN "ended" ELSE at[c]]
        /\ on' = [c \in Calls |-> IF c \in again THEN fresh[c] ELSE on[c]]
        /\ result' = [c \in Calls |-> IF c \in S \ again THEN "failed" ELSE result[c]]

-----------------------------------------------------------------------------
(* getWorker *)

\* The worker in the pool is invoked at once; without one another is spawned
\* and the call waits for its activation.
Acquire(c) ==
    /\ at[c] = "gate"
    /\ IF pool # NoThread
       THEN Invoke(c, pool, "running") /\ UNCHANGED thread
       ELSE LET t == NextThreads({c})[c] IN
            /\ thread' = [thread EXCEPT ![t] = "booting"]
            /\ on' = [on EXCEPT ![c] = t]
            /\ at' = [at EXCEPT ![c] = "spawning"]
            /\ UNCHANGED <<busy, ran>>
    /\ UNCHANGED <<pool, result>>

\* The worker is activated and entered in the pool, over whatever is there;
\* the call goes on: a first invocation, a replay, or the loud failure of a
\* tool that may not be replayed.
Activated(c) ==
    LET t == on[c] IN
    /\ at[c] \in Acquiring
    /\ thread[t] = "booting"
    /\ thread' = [thread EXCEPT ![t] = "up"]
    /\ pool' = t
    /\ \/ /\ at[c] = "spawning"
          /\ Invoke(c, t, "running")
          /\ UNCHANGED result
       \/ /\ at[c] = "respawning" /\ CanReplay(c)
          /\ Invoke(c, t, "rerunning")
          /\ UNCHANGED result
       \/ /\ at[c] = "respawning" /\ ~CanReplay(c)
          /\ End(c, "failed")
          /\ UNCHANGED <<on, busy, ran>>

\* No activation is reported: the worker is terminated; a first acquisition
\* throws out of execute, a second one keeps the failure.
GiveUpActivation(c) ==
    LET t == on[c] IN
    /\ thread' = [thread EXCEPT ![t] = IF @ = "dead" THEN "dead" ELSE "stopping"]
    /\ End(c, IF at[c] = "spawning" THEN "threw" ELSE "failed")
    /\ UNCHANGED <<pool, on, busy, ran>>

\* The extension's activate throws, or takes too long.
ActivationFails(c) ==
    /\ at[c] \in Acquiring /\ thread[on[c]] = "booting"
    /\ GiveUpActivation(c)

\* The worker has died under its activation, which only its timer notices.
ActivationTimesOut(c) ==
    /\ at[c] \in Acquiring /\ thread[on[c]] # "booting"
    /\ GiveUpActivation(c)

-----------------------------------------------------------------------------
(* invokeTool *)

\* The worker answers; an answer on its way when the worker is stopped still
\* arrives.
ReplyArrives(c, ok) ==
    /\ at[c] \in Invoking
    /\ thread[on[c]] \in {"up", "stopping"}
    /\ busy' = [busy EXCEPT ![c] = @ \ {on[c]}]
    /\ UNCHANGED ran
    /\ \/ /\ ok
          /\ End(c, "ok")
          /\ UNCHANGED <<thread, pool, on>>
       \/ /\ ~ok
          /\ Fail({c}, pool, {})

\* Mutant: the timer leaves the entry of its worker in the pool.
PoolKeptOnTimeout == pool

\* What the timer leaves in the pool, whichever worker is in it by then.
PoolOnTimeout == NoThread

\* Mutant: the second invocation of a call is made without a timer.
FirstHasTimer(c) == at[c] = "running"

HasTimer(c) == at[c] \in Invoking

\* The timer of an invocation terminates its worker and gives the call up.
InvokeTimesOut(c) ==
    /\ HasTimer(c)
    /\ Fail({c}, PoolOnTimeout, {on[c]})
    /\ UNCHANGED <<busy, ran>>

-----------------------------------------------------------------------------
(* Events of the worker threads *)

\* 'error': every pending invocation of the extension fails, also those on
\* another worker.
WorkerCrashes(t) ==
    /\ thread[t] \in {"booting", "up"}
    /\ Fail({c \in Calls : at[c] \in Invoking}, NoThread, {t})
    /\ UNCHANGED <<busy, ran>>

\* 'exit': the entry of the extension goes, also if it is another worker's.
WorkerExits(t) ==
    /\ thread[t] = "stopping"
    /\ thread' = [thread EXCEPT ![t] = "dead"]
    /\ pool' = NoThread
    /\ UNCHANGED <<at, on, busy, ran, result>>

\* terminateWorker, when the extension is disabled, upgraded or deleted.
TerminateWorker ==
    /\ pool # NoThread
    /\ thread' = [thread EXCEPT ![pool] = "stopping"]
    /\ pool' = NoThread
    /\ UNCHANGED <<at, on, busy, ran, result>>

\* The process dies: no worker and no pending call is left.
PoolRestart ==
    /\ thread' = [t \in Threads |-> IF thread[t] = "unborn" THEN "unborn" ELSE "dead"]
    /\ pool' = NoThread
    /\ at' = [c \in Calls |-> IF at[c] \in Acquiring \cup Invoking THEN "gone" ELSE at[c]]
    /\ UNCHANGED <<on, busy, ran, result>>

-----------------------------------------------------------------------------
(* What the pool promises *)

\* No call is ever sent to a worker that is still at an abandoned one: the
\* handler of a call that has ended in failure runs on only in a worker that
\* is not in the pool.
AbandonedAreOutOfPool ==
    \A c \in Calls : at[c] = "ended" /\ result[c] = "failed" => pool \notin busy[c]

\* Every call that has passed the gate ends: activations and invocations
\* have their timers, and a call is repeated at most once.
CallsEnd == []<>(\A c \in Calls : at[c] \notin Acquiring \cup Invoking)
=============================================================================
