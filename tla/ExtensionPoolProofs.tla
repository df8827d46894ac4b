-------------------------- MODULE ExtensionPoolProofs --------------------------
(***************************************************************************)
(* Lemmas about ExtensionPool for any number of calls: every call finds    *)
(* the threads it may need, and a worker left to an abandoned call never   *)
(* comes back into the pool.  ToolCallsProofs puts the steps together.     *)
(***************************************************************************)
EXTENDS ExtensionPool, FiniteSetTheorems, TLAPS

LastThread == 2 * Cardinality(Calls) + 1

\* The calls that may spawn a first thread, and those that may still spawn one
\* of their two.
AtGate == {c \in Calls : at[c] = "gate"}
MaySpawn == {c \in Calls : at[c] \in {"gate", "spawning", "running"}}
Budget == Cardinality(AtGate) + Cardinality(MaySpawn)

\* Threads are spawned in order, and there is one left for every spawn to come.
ThreadsLeftFrom(n) == Unborn = n .. LastThread /\ n + Budget <= LastThread + 1

\* Thread t has been activated, whatever became of it.
Ready(t) == t \in Threads /\ thread[t] \notin {"unborn", "booting"}

\* Only activated workers are in the pool or handle calls, and the handlers a
\* call has left behind are on workers that are not in the pool.
PoolOK(c) ==
    /\ at[c] \in Acquiring \cup Invoking => on[c] \in Threads \ Unborn
    /\ \A t \in busy[c] : Ready(t)
    /\ at[c] \in {"gate", "spawning"} => busy[c] = {}
    /\ at[c] = "running" => busy[c] \subseteq {on[c]}
    /\ at[c] = "rerunning" => pool \notin busy[c] \ {on[c]}
    /\ at[c] = "respawning" \/ (at[c] = "ended" /\ result[c] = "failed") => pool \notin busy[c]

PoolInv ==
    /\ PoolTypeOK
    /\ \E n \in Nat \ {0} : ThreadsLeftFrom(n)
    /\ pool # NoThread => Ready(pool)
    /\ \A c \in Calls : PoolOK(c)

LEMMA Counting ==
    /\ Cardinality(Calls) \in Nat /\ LastThread \in Nat /\ Threads = 1 .. LastThread
    /\ IsFiniteSet(AtGate) /\ IsFiniteSet(MaySpawn)
    /\ Cardinality(AtGate) \in Nat /\ Cardinality(MaySpawn) \in Nat /\ Budget \in Nat
<1>1. Cardinality(Calls) \in Nat /\ IsFiniteSet(AtGate) /\ IsFiniteSet(MaySpawn)
  BY ToolHintsAssumption, FS_CardinalityType, FS_Subset DEF AtGate, MaySpawn
<1>2. QED BY <1>1, FS_CardinalityType DEF LastThread, Threads, Budget

\* As long as the budget pays, NextThreads gives the next threads, one for each
\* call.
LEMMA NextThreadsFollow ==
    ASSUME NEW n \in Nat, n >= 1, Unborn = n .. LastThread,
           NEW S, IsFiniteSet(S), n + Cardinality(S) <= LastThread + 1
    PROVE  /\ NextThreads(S) \in [S -> n .. n + Cardinality(S) - 1]
           /\ \A c, d \in S : c # d => NextThreads(S)[c] # NextThreads(S)[d]
           /\ \A t \in n .. n + Cardinality(S) - 1 : \E c \in S : NextThreads(S)[c] = t
<1> DEFINE k == Cardinality(S)
           Next == {t \in Unborn : \A u \in Unborn : t <= u + k - 1}
<1>1. k \in Nat /\ LastThread \in Nat
  BY FS_CardinalityType, Counting
<1>2. Next = n .. n + k - 1
  <2>1. CASE k = 0
    <3>1. \A t \in Unborn : ~(t <= t + k - 1)
      BY <1>1, <2>1
    <3>2. n .. n + k - 1 = {}
      BY <1>1, <2>1
    <3>3. QED BY <3>1, <3>2
  <2>2. CASE k # 0
    <3>1. n \in Unborn /\ \A u \in Unborn : u \in Nat /\ n <= u
      BY <1>1, <2>2
    <3>2. ASSUME NEW t \in Unborn PROVE (\A u \in Unborn : t <= u + k - 1) <=> t <= n + k - 1
      BY <1>1, <3>1
    <3>3. \A t : t \in n .. n + k - 1 => t \in Unborn
      BY <1>1
    <3>4. QED BY <1>1, <3>1, <3>2, <3>3
  <2>3. QED BY <2>1, <2>2
<1>3. IsFiniteSet(n .. n + k - 1) /\ Cardinality(n .. n + k - 1) = k
  <2> DEFINE b == n + k - 1
  <2>1. n \in Int /\ b \in Int /\ (IF n > b THEN 0 ELSE b - n + 1) = k
    BY <1>1
  <2> HIDE DEF b
  <2>2. IsFiniteSet(n .. b) /\ Cardinality(n .. b) = IF n > b THEN 0 ELSE b - n + 1
    BY <2>1, FS_Interval
  <2>3. IsFiniteSet(n .. b) /\ Cardinality(n .. b) = k
    BY <2>1, <2>2
  <2>4. QED BY <2>3 DEF b
<1> HIDE DEF Next
<1>4. \E f \in [S -> Next] : \A c, d \in S : c # d => f[c] # f[d]
  <2>1. ExistsBijection(S, n .. n + k - 1)
    BY <1>3, FS_SameCardinalityBij
  <2>2. PICK f \in Bijection(S, n .. n + k - 1) : TRUE
    BY <2>1 DEF ExistsBijection
  <2>3. f \in [S -> n .. n + k - 1] /\ \A c, d \in S : f[c] = f[d] => c = d
    BY <2>2 DEF Bijection, Injection, IsInjective
  <2>4. QED BY <1>2, <2>3
<1>5. /\ NextThreads(S) \in [S -> Next]
      /\ \A c, d \in S : c # d => NextThreads(S)[c] # NextThreads(S)[d]
  BY <1>4 DEF NextThreads, Next
<1>6. NextThreads(S) \in Surjection(S, n .. n + k - 1)
  <2>1. NextThreads(S) \in Injection(S, n .. n + k - 1)
    BY <1>2, <1>5 DEF Injection, IsInjective
  <2>2. QED BY <1>3, <2>1, FS_Injection
<1>7. QED BY <1>2, <1>5, <1>6 DEF Surjection

\* Nothing is spawned, and no call gets a spawn back.
LEMMA ThreadsStay ==
    ASSUME NEW n \in Nat, ThreadsLeftFrom(n), Unborn' = Unborn,
           AtGate' \subseteq AtGate, MaySpawn' \subseteq MaySpawn
    PROVE  ThreadsLeftFrom(n)'
<1>1. /\ Cardinality(AtGate') <= Cardinality(AtGate) /\ Cardinality(AtGate') \in Nat
      /\ Cardinality(MaySpawn') <= Cardinality(MaySpawn) /\ Cardinality(MaySpawn') \in Nat
  BY Counting, FS_Subset, FS_CardinalityType
<1>2. QED BY <1>1, Counting DEF ThreadsLeftFrom, Budget, LastThread

\* A step that spawns nothing.
LEMMA NothingSpawned ==
    ASSUME PoolInv, PoolTypeOK', Unborn' = Unborn,
           \A c \in Calls : /\ at'[c] = "gate" => at[c] = "gate"
                            /\ at'[c] \in {"spawning", "running"}
                                   => at[c] \in {"gate", "spawning", "running"},
           pool' # NoThread => Ready(pool)',
           \A c \in Calls : PoolOK(c)'
    PROVE  PoolInv'
<1>1. PICK n \in Nat \ {0} : ThreadsLeftFrom(n)
  BY DEF PoolInv
<1>2. AtGate' \subseteq AtGate /\ MaySpawn' \subseteq MaySpawn
  BY DEF AtGate, MaySpawn
<1>3. ThreadsLeftFrom(n)'
  BY <1>1, <1>2, ThreadsStay
<1>4. QED BY <1>3 DEF PoolInv

LEMMA AcquireKeepsPool ==
    ASSUME PoolInv, NEW c \in Calls, Acquire(c)
    PROVE  PoolInv'
<1> USE DEF PoolTypeOK, Acquiring, Invoking
<1>1. /\ at[c] = "gate" /\ busy[c] = {} /\ UNCHANGED <<pool, result>>
      /\ NoThread \notin Threads /\ Unborn \subseteq Threads
  BY DEF Acquire, PoolInv, PoolOK, NoThread, Threads, Unborn
<1>2. CASE pool # NoThread
  <2>1. /\ at' = [at EXCEPT ![c] = "running"] /\ on' = [on EXCEPT ![c] = pool]
        /\ busy' = [busy EXCEPT ![c] = {pool}] /\ ran' = [ran EXCEPT ![c] = @ \cup {pool}]
        /\ UNCHANGED thread /\ Ready(pool)
    BY <1>1, <1>2 DEF Acquire, Invoke, PoolInv
  <2>2. PoolTypeOK'
    BY <1>1, <1>2, <2>1 DEF PoolInv
  <2>3. Unborn' = Unborn /\ \A t : Ready(t)' <=> Ready(t)
    BY <2>1 DEF Unborn, Ready
  <2>4. ASSUME NEW x \in Calls PROVE PoolOK(x)'
    <3>1. CASE x = c
      BY <1>1, <2>1, <2>3, <3>1 DEF PoolInv, PoolOK, Ready, Unborn
    <3>2. CASE x # c
      BY <1>1, <2>1, <2>3, <3>2 DEF PoolInv, PoolOK
    <3>3. QED BY <3>1, <3>2
  <2>5. QED BY <1>1, <2>1, <2>2, <2>3, <2>4, NothingSpawned DEF PoolInv
<1>3. CASE pool = NoThread
  <2>1. PICK n \in Nat \ {0} : ThreadsLeftFrom(n)
    BY DEF PoolInv
  <2>2. c \in AtGate /\ c \in MaySpawn
    BY <1>1 DEF AtGate, MaySpawn
  <2>3. n <= LastThread /\ LastThread \in Nat
    <3>1. Cardinality(AtGate) # 0
      BY <2>2, Counting, FS_EmptySet
    <3>2. QED BY <2>1, <3>1, Counting DEF ThreadsLeftFrom, Budget
  <2>4. n \in Threads /\ NextThreads({c})[c] = n
    <3>1. IsFiniteSet({c}) /\ Cardinality({c}) = 1
      BY FS_Singleton
    <3>2. n + Cardinality({c}) <= LastThread + 1
      BY <2>3, <3>1
    <3>3. NextThreads({c}) \in [{c} -> n .. n + Cardinality({c}) - 1]
      BY <2>1, <3>1, <3>2, NextThreadsFollow DEF ThreadsLeftFrom
    <3>4. QED BY <2>3, <3>1, <3>3, Counting
  <2>5. /\ thread' = [thread EXCEPT ![n] = "booting"] /\ on' = [on EXCEPT ![c] = n]
        /\ at' = [at EXCEPT ![c] = "spawning"] /\ UNCHANGED <<busy, ran>>
    BY <1>3, <2>4 DEF Acquire
  <2>6. PoolTypeOK'
    BY <1>1, <2>4, <2>5 DEF PoolInv
  <2>7. n \in Unborn /\ Unborn' = Unborn \ {n} /\ \A t : Ready(t)' <=> Ready(t)
    <3>1. n \in Unborn
      BY <2>1, <2>3 DEF ThreadsLeftFrom
    <3>2. QED BY <2>4, <2>5, <3>1 DEF Unborn, Ready, PoolInv
  <2>8. ThreadsLeftFrom(n + 1)'
    <3>1. Unborn' = n + 1 .. LastThread
      BY <2>1, <2>3, <2>7 DEF ThreadsLeftFrom
    <3>2. AtGate' = AtGate \ {c} /\ MaySpawn' = MaySpawn
      BY <1>1, <2>5 DEF AtGate, MaySpawn, PoolInv
    <3>3. Cardinality(AtGate') = Cardinality(AtGate) - 1
      BY <2>2, <3>2, Counting, FS_RemoveElement
    <3>4. QED BY <2>1, <3>1, <3>2, <3>3, Counting DEF ThreadsLeftFrom, Budget, LastThread
  <2>9. ASSUME NEW x \in Calls PROVE PoolOK(x)'
    <3>1. CASE x = c
      BY <1>1, <2>4, <2>5, <2>7, <3>1 DEF PoolInv, PoolOK
    <3>2. CASE x # c
      BY <1>1, <2>5, <2>7, <3>2 DEF PoolInv, PoolOK
    <3>3. QED BY <3>1, <3>2
  <2>10. n + 1 \in Nat \ {0}
    BY <2>1
  <2>11. QED BY <1>1, <2>6, <2>7, <2>8, <2>9, <2>10 DEF PoolInv
<1>4. QED BY <1>2, <1>3

LEMMA ActivatedKeepsPool ==
    ASSUME PoolInv, NEW c \in Calls, Activated(c)
    PROVE  PoolInv'
<1> USE DEF PoolTypeOK, Acquiring, Invoking
<1>1. PICK t \in Threads : t = on[c]
  BY DEF Activated, PoolInv, PoolOK
<1>2. /\ at[c] \in {"spawning", "respawning"} /\ thread[t] = "booting"
      /\ thread' = [thread EXCEPT ![t] = "up"] /\ pool' = t
      /\ NoThread \notin Threads /\ \A x \in Calls : t \notin busy[x]
  BY <1>1 DEF Activated, PoolInv, PoolOK, Ready, NoThread, Threads
<1>3. /\ Unborn' = Unborn /\ Ready(t)' /\ \A u : Ready(u) => Ready(u)'
  <2>1. thread'[t] = "up" /\ \A u \in Threads : u # t => thread'[u] = thread[u]
    BY <1>2 DEF PoolInv
  <2>2. QED BY <1>2, <2>1 DEF Unborn, Ready
<1>4. \/ /\ at[c] = "spawning" /\ busy[c] = {}
         /\ at' = [at EXCEPT ![c] = "running"]
         /\ on' = [on EXCEPT ![c] = t]
         /\ busy' = [busy EXCEPT ![c] = @ \cup {t}]
         /\ ran' = [ran EXCEPT ![c] = @ \cup {t}]
         /\ UNCHANGED result
      \/ /\ at[c] = "respawning"
         /\ at' = [at EXCEPT ![c] = "rerunning"]
         /\ on' = [on EXCEPT ![c] = t]
         /\ busy' = [busy EXCEPT ![c] = @ \cup {t}]
         /\ ran' = [ran EXCEPT ![c] = @ \cup {t}]
         /\ UNCHANGED result
      \/ /\ at[c] = "respawning"
         /\ at' = [at EXCEPT ![c] = "ended"]
         /\ result' = [result EXCEPT ![c] = "failed"]
         /\ UNCHANGED <<on, busy, ran>>
  BY <1>1 DEF Activated, Invoke, End, PoolInv, PoolOK
<1>5. PoolTypeOK'
  BY <1>2, <1>4 DEF PoolInv
<1>6. ASSUME NEW x \in Calls PROVE PoolOK(x)'
  <2>1. CASE x # c
    BY <1>2, <1>3, <1>4, <2>1 DEF PoolInv, PoolOK
  <2>2. CASE x = c
    <3>1. t \in Threads \ Unborn
      BY <1>2 DEF Unborn
    <3>2. /\ on'[c] = t \/ on'[c] = on[c]
          /\ at'[c] \in {"running", "rerunning", "ended"}
          /\ at'[c] = "running" => busy'[c] = {t} /\ on'[c] = t
          /\ at'[c] = "rerunning" => busy'[c] = busy[c] \cup {t} /\ on'[c] = t
          /\ at'[c] = "ended" => busy'[c] = busy[c]
      BY <1>4 DEF PoolInv
    <3>3. QED BY <1>2, <1>3, <2>2, <3>1, <3>2 DEF PoolInv, PoolOK
  <2>3. QED BY <2>1, <2>2
<1>7. \A x \in Calls : /\ at'[x] = "gate" => at[x] = "gate"
                       /\ at'[x] \in {"spawning", "running"}
                              => at[x] \in {"gate", "spawning", "running"}
  BY <1>4 DEF PoolInv
<1>8. QED BY <1>2, <1>3, <1>5, <1>6, <1>7, NothingSpawned

LEMMA GivingUpKeepsPool ==
    ASSUME PoolInv, NEW c \in Calls, ActivationFails(c) \/ ActivationTimesOut(c)
    PROVE  PoolInv'
<1> USE DEF PoolTypeOK, Acquiring, Invoking
<1>1. PICK t \in Threads : t = on[c] /\ thread[t] # "unborn"
  BY DEF ActivationFails, ActivationTimesOut, PoolInv, PoolOK, Unborn
<1>2. /\ at[c] \in {"spawning", "respawning"}
      /\ thread' = [thread EXCEPT ![t] = IF @ = "dead" THEN "dead" ELSE "stopping"]
      /\ at' = [at EXCEPT ![c] = "ended"]
      /\ result' = [result EXCEPT ![c] = IF at[c] = "spawning" THEN "threw" ELSE "failed"]
      /\ UNCHANGED <<pool, on, busy, ran>>
  BY <1>1 DEF ActivationFails, ActivationTimesOut, GiveUpActivation, End
<1>3. Unborn' = Unborn /\ \A u : Ready(u) => Ready(u)'
  <2>1. /\ thread'[t] \in {"dead", "stopping"}
        /\ \A u \in Threads : u # t => thread'[u] = thread[u]
    BY <1>2 DEF PoolInv
  <2>2. QED BY <1>1, <2>1 DEF Unborn, Ready
<1>4. PoolTypeOK'
  BY <1>2 DEF PoolInv
<1>5. ASSUME NEW x \in Calls PROVE PoolOK(x)'
  BY <1>2, <1>3 DEF PoolInv, PoolOK
<1>6. QED BY <1>2, <1>3, <1>4, <1>5, NothingSpawned DEF PoolInv

\* Invocations fail: what they leave behind is not in the pool, or was on the
\* worker that has answered.
LEMMA FailKeepsPool ==
    ASSUME PoolInv, NEW S \in SUBSET {c \in Calls : at[c] \in Invoking},
           NEW p \in {pool, NoThread}, NEW T \in SUBSET (Threads \ Unborn), Fail(S, p, T),
           UNCHANGED ran, busy' \in [Calls -> SUBSET Threads],
           \A c \in Calls : busy'[c] \subseteq busy[c],
           \A c \in S : p = NoThread \/ busy'[c] \subseteq busy[c] \ {on[c]}
    PROVE  PoolInv'
<1> USE DEF PoolTypeOK, Acquiring, Invoking
<1> DEFINE again == IF p = NoThread THEN {c \in S : at[c] = "running"} ELSE {}
           fresh == NextThreads(again)
           k == Cardinality(again)
<1>1. PICK n \in Nat \ {0} : ThreadsLeftFrom(n)
  BY DEF PoolInv
<1>2. again \subseteq MaySpawn /\ again \subseteq S /\ again \cap AtGate = {}
  BY DEF MaySpawn, AtGate
<1>3. /\ pool' = p
      /\ thread' = [t \in Threads |->
                       IF \E c \in again : fresh[c] = t THEN "booting"
                       ELSE IF t \in T /\ thread[t] # "dead" THEN "stopping" ELSE thread[t]]
      /\ at' = [c \in Calls |-> IF c \in again THEN "respawning"
                                ELSE IF c \in S THEN "ended" ELSE at[c]]
      /\ on' = [c \in Calls |-> IF c \in again THEN fresh[c] ELSE on[c]]
      /\ result' = [c \in Calls |-> IF c \in S \ again THEN "failed" ELSE result[c]]
  BY DEF Fail
<1>4. p # NoThread => again = {}
  OBVIOUS
<1>5. \A c \in S : at[c] = "running" /\ p = NoThread => c \in again
  OBVIOUS
<1> HIDE DEF again
<1>6. /\ IsFiniteSet(again) /\ k \in Nat /\ k <= Cardinality(MaySpawn)
      /\ Cardinality(MaySpawn \ again) = Cardinality(MaySpawn) - k
  <2>1. MaySpawn \cap again = again
    BY <1>2
  <2>2. QED BY <1>2, <2>1, Counting, FS_Subset, FS_CardinalityType, FS_Difference
<1>7. n + k <= LastThread + 1 /\ n .. LastThread = Unborn /\ Unborn \subseteq Threads
  BY <1>1, <1>6, Counting DEF ThreadsLeftFrom, Budget, Unborn
<1>8. /\ fresh \in [again -> n .. n + k - 1]
      /\ \A t \in n .. n + k - 1 : \E c \in again : fresh[c] = t
  BY <1>6, <1>7, NextThreadsFollow
<1> HIDE DEF fresh, k
<1>9. n .. n + k - 1 \subseteq Unborn
  BY <1>6, <1>7, Counting
<1>10. \A t \in Threads : (\E c \in again : fresh[c] = t) <=> t \in n .. n + k - 1
  BY <1>8
<1>11. thread' = [t \in Threads |->
                     IF t \in n .. n + k - 1 THEN "booting"
                     ELSE IF t \in T /\ thread[t] # "dead" THEN "stopping" ELSE thread[t]]
  BY <1>3, <1>10
<1>12. /\ Unborn' = Unborn \ (n .. n + k - 1)
       /\ \A u : Ready(u) => Ready(u)'
  <2>1. ASSUME NEW t \in Threads
        PROVE  (thread'[t] = "unborn") <=> (thread[t] = "unborn" /\ t \notin n .. n + k - 1)
    BY <1>11 DEF Unborn
  <2>2. ASSUME NEW t \in Threads, thread[t] \notin {"unborn", "booting"}
        PROVE  thread'[t] \notin {"unborn", "booting"}
    BY <1>9, <1>11, <2>2 DEF Unborn
  <2>3. QED BY <2>1, <2>2 DEF Unborn, Ready
<1>13. PoolTypeOK'
  <2>1. p \in Threads \cup {NoThread} /\ \A c \in again : fresh[c] \in Threads
    BY <1>7, <1>8, <1>9 DEF PoolInv
  <2>2. thread' \in [Threads -> {"unborn", "booting", "up", "stopping", "dead"}]
    BY <1>11 DEF PoolInv
  <2>3. QED BY <1>3, <2>1, <2>2 DEF PoolInv
<1>14. PICK m \in Nat \ {0} : m = n + k
  BY <1>6
<1>15. ThreadsLeftFrom(m)'
  <2>1. Unborn' = m .. LastThread
    BY <1>14, <1>6, <1>7, <1>12, Counting
  <2>2. AtGate' \subseteq AtGate /\ MaySpawn' \subseteq MaySpawn \ again
    BY <1>3 DEF AtGate, MaySpawn
  <2>3. /\ Cardinality(AtGate') <= Cardinality(AtGate) /\ Cardinality(AtGate') \in Nat
        /\ Cardinality(MaySpawn') <= Cardinality(MaySpawn) - k /\ Cardinality(MaySpawn') \in Nat
    <3>1. IsFiniteSet(MaySpawn \ again)
      BY Counting, FS_Subset
    <3>2. QED BY <1>6, <2>2, <3>1, Counting, FS_Subset, FS_CardinalityType
  <2>4. Budget' = Cardinality(AtGate') + Cardinality(MaySpawn') /\ LastThread' = LastThread
    BY DEF Budget, LastThread
  <2>5. n + Cardinality(AtGate) + Cardinality(MaySpawn) <= LastThread + 1
    BY <1>1, Counting DEF ThreadsLeftFrom, Budget
  <2>6. m + Budget' <= LastThread + 1
    BY <1>14, <1>6, <2>3, <2>4, <2>5, Counting
  <2>7. QED BY <2>1, <2>4, <2>6 DEF ThreadsLeftFrom
<1>16. ASSUME NEW x \in Calls PROVE PoolOK(x)'
  <2>1. \A t \in busy'[x] : t # NoThread /\ Ready(t)'
    BY <1>12 DEF PoolInv, PoolOK, NoThread, Ready, Threads
  <2>2. CASE x \in again
    <3>1. /\ at'[x] = "respawning" /\ on'[x] = fresh[x] /\ fresh[x] \in Threads /\ pool' = NoThread
          /\ fresh[x] \notin Unborn'
      BY <1>3, <1>4, <1>7, <1>8, <1>9, <1>12, <2>2
    <3>2. QED BY <2>1, <3>1 DEF PoolOK
  <2>3. CASE x \in S \ again
    <3>1. at'[x] = "ended" /\ pool' = p
      BY <1>3, <2>3
    <3>2. p # NoThread => p \notin busy'[x]
      BY <1>5, <2>3 DEF PoolInv, PoolOK
    <3>3. QED BY <2>1, <3>1, <3>2 DEF PoolOK
  <2>4. CASE x \notin S
    <3>1. at'[x] = at[x] /\ on'[x] = on[x] /\ result'[x] = result[x] /\ pool' \in {pool, NoThread}
      BY <1>2, <1>3, <2>4
    <3>2. Unborn' \subseteq Unborn
      BY <1>12
    <3>3. QED BY <2>1, <3>1, <3>2 DEF PoolInv, PoolOK
  <2>5. QED BY <2>2, <2>3, <2>4
<1>17. pool' # NoThread => Ready(pool)'
  BY <1>3, <1>12 DEF PoolInv
<1>18. QED BY <1>13, <1>15, <1>16, <1>17 DEF PoolInv

LEMMA InvocationKeepsPool ==
    ASSUME PoolInv, NEW c \in Calls,
           \/ \E ok \in BOOLEAN : ReplyArrives(c, ok)
           \/ InvokeTimesOut(c)
           \/ \E t \in Threads : WorkerCrashes(t)
    PROVE  PoolInv'
<1> USE DEF PoolTypeOK, Acquiring, Invoking
<1>1. ASSUME NEW ok \in BOOLEAN, ReplyArrives(c, ok) PROVE PoolInv'
  <2>1. /\ at[c] \in Invoking /\ busy' = [busy EXCEPT ![c] = @ \ {on[c]}] /\ UNCHANGED ran
        /\ \/ Fail({c}, pool, {})
           \/ End(c, "ok") /\ UNCHANGED <<thread, pool, on>>
    BY <1>1 DEF ReplyArrives
  <2>2. CASE Fail({c}, pool, {})
    <3>1. busy' \in [Calls -> SUBSET Threads] /\ \A x \in Calls : busy'[x] \subseteq busy[x]
      BY <2>1 DEF PoolInv
    <3>2. busy'[c] \subseteq busy[c] \ {on[c]}
      BY <2>1 DEF PoolInv
    <3>3. {c} \in SUBSET {x \in Calls : at[x] \in Invoking} /\ {} \in SUBSET (Threads \ Unborn)
      BY <2>1
    <3>4. QED BY <2>1, <2>2, <3>1, <3>2, <3>3, FailKeepsPool
  <2>3. CASE End(c, "ok") /\ UNCHANGED <<thread, pool, on>>
    <3>1. /\ at' = [at EXCEPT ![c] = "ended"] /\ result' = [result EXCEPT ![c] = "ok"]
          /\ UNCHANGED <<thread, pool, on>>
      BY <2>3 DEF End
    <3>2. PoolTypeOK'
      BY <2>1, <3>1 DEF PoolInv
    <3>3. Unborn' = Unborn /\ \A u : Ready(u)' <=> Ready(u)
      BY <3>1 DEF Unborn, Ready
    <3>4. ASSUME NEW x \in Calls PROVE PoolOK(x)'
      BY <2>1, <3>1, <3>3 DEF PoolInv, PoolOK
    <3>5. QED BY <3>1, <3>2, <3>3, <3>4, NothingSpawned DEF PoolInv
  <2>4. QED BY <2>1, <2>2, <2>3
<1>2. CASE InvokeTimesOut(c)
  <2>1. /\ at[c] \in Invoking /\ Fail({c}, NoThread, {on[c]}) /\ UNCHANGED <<busy, ran>>
    BY <1>2 DEF InvokeTimesOut, HasTimer, PoolOnTimeout
  <2>2. on[c] \in Threads \ Unborn
    BY <2>1 DEF PoolInv, PoolOK
  <2>3. {c} \in SUBSET {x \in Calls : at[x] \in Invoking} /\ {on[c]} \in SUBSET (Threads \ Unborn)
    BY <2>1, <2>2
  <2>4. QED BY <2>1, <2>3, FailKeepsPool DEF PoolInv
<1>3. ASSUME NEW t \in Threads, WorkerCrashes(t) PROVE PoolInv'
  <2>1. /\ Fail({x \in Calls : at[x] \in Invoking}, NoThread, {t}) /\ UNCHANGED <<busy, ran>>
        /\ {t} \in SUBSET (Threads \ Unborn)
    BY <1>3 DEF WorkerCrashes, Unborn
  <2>2. QED BY <2>1, FailKeepsPool DEF PoolInv
<1>4. QED BY <1>1, <1>2, <1>3

\* Workers go, alone or with their process.
LEMMA GoingKeepsPool ==
    ASSUME PoolInv, (\E t \in Threads : WorkerExits(t)) \/ TerminateWorker \/ PoolRestart
    PROVE  PoolInv'
<1> USE DEF PoolTypeOK, Acquiring, Invoking
<1>1. /\ \A t \in Threads : thread'[t] = thread[t] \/ (thread[t] # "unborn" /\ thread'[t] \in {"stopping", "dead"})
      /\ pool' = NoThread /\ PoolTypeOK'
  BY DEF WorkerExits, TerminateWorker, PoolRestart, PoolInv, Ready
<1>2. /\ UNCHANGED <<on, busy, ran, result>>
      /\ \A x \in Calls : at'[x] = at[x] \/ at'[x] = "gone"
  BY DEF WorkerExits, TerminateWorker, PoolRestart, PoolInv
<1>3. Unborn' = Unborn /\ \A u : Ready(u) => Ready(u)'
  BY <1>1 DEF Unborn, Ready
<1>4. ASSUME NEW x \in Calls PROVE PoolOK(x)'
  BY <1>1, <1>2, <1>3 DEF PoolInv, PoolOK, Ready, NoThread, Threads
<1>5. QED BY <1>1, <1>2, <1>3, <1>4, NothingSpawned

\* The gate denies a call, or does something else.
LEMMA DenialKeepsPool ==
    ASSUME PoolInv, UNCHANGED <<thread, pool, on, busy, ran>>,
           UNCHANGED <<at, result>> \/ (\E c \in Calls : End(c, "denied"))
    PROVE  PoolInv'
<1> USE DEF PoolTypeOK, Acquiring, Invoking
<1>1. Unborn' = Unborn /\ \A u : Ready(u)' <=> Ready(u)
  BY DEF Unborn, Ready
<1>2. PoolTypeOK' /\ \A x \in Calls : PoolOK(x)'
  BY <1>1 DEF End, PoolInv, PoolOK
<1>3. \A x \in Calls : at'[x] = at[x] \/ at'[x] = "ended"
  BY DEF End, PoolInv
<1>4. QED BY <1>1, <1>2, <1>3, NothingSpawned DEF PoolInv

\* Two threads for every call, and the one that loadPluginTools has activated.
LEMMA PoolInvAtFirst == PoolInit => PoolInv
<1> SUFFICES ASSUME PoolInit PROVE PoolInv
  OBVIOUS
<1> USE DEF PoolInit, PoolTypeOK, Acquiring, Invoking
<1>1. 1 \in Threads /\ 1 # NoThread
  BY Counting DEF LastThread, NoThread
<1>2. AtGate = Calls /\ MaySpawn = Calls /\ Unborn = 2 .. LastThread
  BY Counting DEF AtGate, MaySpawn, Unborn
<1>3. ThreadsLeftFrom(2)
  BY <1>2, Counting DEF ThreadsLeftFrom, Budget, LastThread
<1>4. PoolTypeOK /\ Ready(1) /\ \A c \in Calls : PoolOK(c)
  BY <1>1 DEF Ready, PoolOK
<1>5. QED BY <1>1, <1>3, <1>4 DEF PoolInv
=============================================================================
