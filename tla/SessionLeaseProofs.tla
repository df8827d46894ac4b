------------------------- MODULE SessionLeaseProofs -------------------------
(***************************************************************************)
(* Proofs about SessionLease for any number of requests, runners, polls,   *)
(* retries and events.  The inductive invariant IInv has a part for types, *)
(* one for the log, one for each request and one for the event stream.     *)
(***************************************************************************)
EXTENDS SessionLease, Sequences, FiniteSetTheorems, TLAPS

LogLength == Cardinality(rows)

\* The first page was over budget at some moment since the log had k events.
OverSince(k) == \E n \in k .. LogLength : OverBudget(PageAt(n))

\* What a request may rely on between two of its statements.
CallOK(c) ==
    /\ pc[c] # "idle" => who[c] \in Runners
    /\ at[c] <= now
    /\ pc[c] \notin {"max", "insert"} => tries[c] = 0
    /\ pc[c] \notin {"max", "insert", "usage", "halt"} => first[c] = 0
    /\ pc[c] = "max" => first[c] + tries[c] <= LogLength
    /\ pc[c] = "insert" => first[c] + tries[c] <= base[c] /\ base[c] <= LogLength
    /\ pc[c] = "usage" => first[c] <= LogLength
    /\ pc[c] = "halt" => OverSince(first[c])

LogOK ==
    /\ IsFiniteSet(rows)
    /\ GapFree

\* An open poll read existing events, and every older one it did not read
\* has already been sent.
StreamOK ==
    /\ StreamSkipsNothing
    /\ cursor <= LogLength + 1
    /\ \A p \in open : \A s \in page[p] :
          /\ s \in Seqs
          /\ \A t \in Seqs : t < s => t \in page[p] \/ t < cursor

WhoOK == \A c \in Calls : pc[c] # "idle" => who[c] \in Runners

IInv == TypeOK /\ LogOK /\ (\A c \in Calls : CallOK(c)) /\ StreamOK

USE StoreAssumption, LeaseAssumption

-----------------------------------------------------------------------------
(* The store *)

LEMMA HolderIsARunner ==
    ASSUME TypeOK, lease # NoLease
    PROVE  lease \in LeaseRows /\ lease.holder \in Runners /\ lease.until \in Nat
BY DEF TypeOK, StoreTypeOK, LeaseRows

LEMMA LengthIsNat == ASSUME LogOK PROVE LogLength \in Nat
BY FS_CardinalityType DEF LogOK, LogLength

\* coalesce(max(seq), 0) is the number of events.
LEMMA MaxSeqIsLength ==
    ASSUME LogOK
    PROVE  MaxSeq = LogLength
<1>1. LogLength \in Nat /\ Seqs = 1 .. LogLength
  BY LengthIsNat DEF LogOK, GapFree, LogLength
<1>2. CASE rows = {}
  BY <1>2, FS_EmptySet DEF MaxSeq, LogLength
<1>3. CASE rows # {}
  <2>1. LogLength # 0
    BY <1>3, FS_EmptySet DEF LogLength, LogOK
  <2>2. LogLength \in Seqs /\ \A s \in Seqs : s <= LogLength
    BY <1>1, <2>1
  <2>3. \A m \in Seqs : (\A s \in Seqs : s <= m) => m = LogLength
    BY <1>1, <2>2
  <2>4. QED BY <1>3, <2>2, <2>3 DEF MaxSeq
<1>4. QED BY <1>2, <1>3

\* An insert that is not refused lands right behind the last event.
LEMMA InsertAppends ==
    ASSUME LogOK, NEW s \in Nat, s <= LogLength, ~SeqTaken(s + 1),
           NEW r, NEW b, InsertRow(s + 1, r, b)
    PROVE  /\ s = LogLength
           /\ LogOK'
           /\ LogLength' = LogLength + 1
           /\ Seqs' = Seqs \cup {LogLength + 1}
<1> DEFINE e == [seq |-> s + 1, runner |-> r, body |-> b]
<1>1. LogLength \in Nat /\ Seqs = 1 .. LogLength
  BY LengthIsNat DEF LogOK, GapFree, LogLength
<1>2. s = LogLength
  BY <1>1 DEF SeqTaken
<1>3. rows' = rows \cup {e} /\ e.seq = s + 1
  BY DEF InsertRow
<1>4. \A q \in rows : q.seq # s + 1
  BY DEF SeqTaken, Seqs
<1>5. e \notin rows
  BY <1>3, <1>4
<1>6. IsFiniteSet(rows') /\ LogLength' = LogLength + 1
  BY <1>3, <1>5, FS_AddElement DEF LogOK, LogLength
<1>7. Seqs' = Seqs \cup {s + 1}
  BY <1>3 DEF Seqs
<1>8. Seqs' = 1 .. LogLength'
  BY <1>1, <1>2, <1>6, <1>7
<1>9. \A x, y \in rows' : x.seq = y.seq => x = y
  BY <1>3, <1>4 DEF LogOK, GapFree
<1>10. QED
  BY <1>2, <1>6, <1>7, <1>8, <1>9 DEF LogOK, GapFree, LogLength

\* The first page as it was when the log had n events does not change when an
\* event is appended, whatever that event adds to or takes from the usage.
LEMMA PageIsHistory ==
    ASSUME LogOK, LogOK', NEW n \in Nat, n <= LogLength, NEW e,
           rows' = rows \cup {e}, e.seq = LogLength + 1
    PROVE  PageAt(n)' = PageAt(n)
<1> DEFINE Older(R, r) == {q \in {x \in R : x.seq >= 0} : q.seq < r.seq}
           Page(R) == {r \in {x \in R : x.seq >= 0} :
                          r.seq <= n /\ Cardinality(Older(R, r)) < PageLimit}
<1>1. /\ LogLength \in Nat
      /\ \A q \in rows : q.seq \in 1 .. LogLength
  BY LengthIsNat DEF LogOK, GapFree, Seqs, LogLength
<1>2. ASSUME NEW r \in rows', r.seq <= n PROVE r \in rows
  BY <1>1, <1>2
<1>3. ASSUME NEW r \in rows, r.seq <= n PROVE Older(rows', r) = Older(rows, r)
  BY <1>1, <1>3
<1>4. Page(rows') = Page(rows)
  <2>1. ASSUME NEW r \in Page(rows') PROVE r \in Page(rows)
    <3>1. r \in rows' /\ r.seq <= n /\ r.seq >= 0
      OBVIOUS
    <3>2. QED BY <1>2, <1>3, <3>1
  <2>2. ASSUME NEW r \in Page(rows) PROVE r \in Page(rows')
    BY <1>3
  <2>3. QED BY <2>1, <2>2
<1>5. PageAt(n) = Page(rows)
  BY DEF PageAt, ListEvents
<1>6. PageAt(n)' = Page(rows')
  BY DEF PageAt, ListEvents
<1>7. QED BY <1>4, <1>5, <1>6

\* The page a supervisor reads now is the page of the whole log.
LEMMA PageNow == ASSUME LogOK PROVE PageAt(LogLength) = ListEvents(0)
<1>1. \A q \in rows : q.seq <= LogLength
  BY LengthIsNat DEF LogOK, GapFree, Seqs, LogLength
<1>2. ListEvents(0) \subseteq rows
  BY DEF ListEvents
<1>3. QED BY <1>1, <1>2 DEF PageAt

-----------------------------------------------------------------------------
(* Types *)

LEMMA MaxSeqIsNat == ASSUME LogOK PROVE MaxSeq \in Nat
BY MaxSeqIsLength, LengthIsNat

LEMMA ArriveTyped ==
    ASSUME TypeOK, WhoOK, NEW c \in Calls, NEW r \in Runners,
           NEW step \in Steps, Arrive(c, r, step)
    PROVE  /\ pc' \in [Calls -> Steps]
           /\ who' \in [Calls -> Runners \cup {Nobody}]
           /\ at' \in [Calls -> Nat]
           /\ base' \in [Calls -> Nat]
           /\ tries' \in [Calls -> Nat]
           /\ reply' \in [Calls -> Replies]
           /\ WhoOK'
BY DEF Arrive, TypeOK, StoreTypeOK, WhoOK, Replies

LEMMA GoToTyped ==
    ASSUME TypeOK, WhoOK, NEW c \in Calls, pc[c] # "idle",
           NEW step \in Steps, GoTo(c, step)
    PROVE  /\ pc' \in [Calls -> Steps]
           /\ who' \in [Calls -> Runners \cup {Nobody}]
           /\ at' \in [Calls -> Nat]
           /\ base' \in [Calls -> Nat]
           /\ tries' \in [Calls -> Nat]
           /\ first' \in [Calls -> Nat]
           /\ reply' \in [Calls -> Replies]
           /\ WhoOK'
BY DEF GoTo, TypeOK, WhoOK

LEMMA ReturnTyped ==
    ASSUME TypeOK, WhoOK, NEW c \in Calls,
           NEW answer \in Replies, Return(c, answer)
    PROVE  /\ pc' \in [Calls -> Steps]
           /\ who' \in [Calls -> Runners \cup {Nobody}]
           /\ at' \in [Calls -> Nat]
           /\ base' \in [Calls -> Nat]
           /\ tries' \in [Calls -> Nat]
           /\ first' \in [Calls -> Nat]
           /\ reply' \in [Calls -> Replies]
           /\ WhoOK'
BY DEF Return, TypeOK, WhoOK, Steps

LEMMA CallStepTyped ==
    ASSUME TypeOK, WhoOK, LogOK, NEW c \in Calls, CallStep(c)
    PROVE  TypeOK' /\ WhoOK'
<1> USE DEF Steps, Replies
<1>1. ASSUME NEW r \in Runners, ClaimArrives(c, r) PROVE TypeOK' /\ WhoOK'
  BY <1>1, ArriveTyped DEF ClaimArrives, TypeOK, StoreTypeOK, storeVars, streamVars
<1>2. ASSUME NEW r \in Runners, RenewArrives(c, r) PROVE TypeOK' /\ WhoOK'
  BY <1>2, ArriveTyped DEF RenewArrives, TypeOK, StoreTypeOK, storeVars, streamVars
<1>3. ASSUME NEW r \in Runners, AppendArrives(c, r) PROVE TypeOK' /\ WhoOK'
  BY <1>3, ArriveTyped DEF AppendArrives, TypeOK, StoreTypeOK, storeVars, streamVars
<1>4. ASSUME NEW ttl \in Ttls, ClaimWon(c, ttl) PROVE TypeOK' /\ WhoOK'
  <2>1. who[c] \in Runners /\ at[c] + ttl \in Nat
    BY <1>4 DEF ClaimWon, WhoOK, TypeOK
  <2>2. lease' \in LeaseRows
    BY <1>4, <2>1 DEF ClaimWon, SetLease, LeaseRows
  <2>3. QED
    BY <1>4, <2>2, ReturnTyped DEF ClaimWon, TypeOK, StoreTypeOK, streamVars
<1>5. ASSUME NEW ttl \in Ttls, RenewWon(c, ttl) PROVE TypeOK' /\ WhoOK'
  <2>1. who[c] \in Runners /\ at[c] + ttl \in Nat
    BY <1>5 DEF RenewWon, WhoOK, TypeOK
  <2>2. lease' \in LeaseRows
    BY <1>5, <2>1 DEF RenewWon, SetLease, LeaseRows
  <2>3. QED
    BY <1>5, <2>2, ReturnTyped DEF RenewWon, TypeOK, StoreTypeOK, streamVars
<1>6. CASE ClaimLost(c)
  BY <1>6, GoToTyped DEF ClaimLost, TypeOK, StoreTypeOK, storeVars, streamVars
<1>7. CASE ClaimReadsHolder(c)
  BY <1>7, ReturnTyped DEF ClaimReadsHolder, TypeOK, StoreTypeOK, storeVars, streamVars
<1>8. CASE RenewLost(c)
  BY <1>8, GoToTyped DEF RenewLost, TypeOK, StoreTypeOK, storeVars, streamVars
<1>9. CASE RenewReadsHolder(c)
  BY <1>9, ReturnTyped DEF RenewReadsHolder, TypeOK, StoreTypeOK, storeVars, streamVars
<1>10. CASE AssertHoldsLease(c)
  BY <1>10, GoToTyped, ReturnTyped
     DEF AssertHoldsLease, TypeOK, StoreTypeOK, storeVars, streamVars
<1>11. CASE ReadMaxSeq(c)
  <2>1. base' \in [Calls -> Nat] /\ first' \in [Calls -> Nat]
    BY <1>11, MaxSeqIsNat DEF ReadMaxSeq, TypeOK
  <2>2. QED
    BY <1>11, <2>1 DEF ReadMaxSeq, TypeOK, StoreTypeOK, WhoOK, storeVars, streamVars
<1>12. CASE InsertWins(c)
  <2>1. PICK b \in Bodies : InsertRow(base[c] + 1, who[c], b)
    BY <1>12 DEF InsertWins
  <2>2. [seq |-> base[c] + 1, runner |-> who[c], body |-> b] \in EventRows
    BY <1>12 DEF InsertWins, WhoOK, TypeOK, EventRows
  <2>3. rows' \subseteq EventRows
    BY <2>1, <2>2 DEF InsertRow, TypeOK, StoreTypeOK
  <2>4. QED
    BY <1>12, <2>3, ReturnTyped DEF InsertWins, TypeOK, StoreTypeOK, streamVars
<1>13. CASE InsertConflicts(c)
  <2>1. CASE tries[c] + 1 < MaxSeqRetries
    BY <1>13, <2>1
       DEF InsertConflicts, TypeOK, StoreTypeOK, WhoOK, storeVars, streamVars
  <2>2. CASE ~(tries[c] + 1 < MaxSeqRetries)
    BY <1>13, <2>2, ReturnTyped
       DEF InsertConflicts, TypeOK, StoreTypeOK, storeVars, streamVars
  <2>3. QED BY <2>1, <2>2
<1>14. CASE InsertThrows(c)
  BY <1>14, ReturnTyped DEF InsertThrows, TypeOK, StoreTypeOK, storeVars, streamVars
<1>15. CASE SuperviseReadsLease(c)
  <2>1. lease.holder \in Runners
    BY <1>15, HolderIsARunner DEF SuperviseReadsLease, LeaseActive
  <2>2. first' \in [Calls -> Nat]
    BY <1>15, MaxSeqIsNat DEF SuperviseReadsLease, TypeOK
  <2>3. QED
    BY <1>15, <2>1, <2>2, ArriveTyped
       DEF SuperviseReadsLease, TypeOK, StoreTypeOK, storeVars, streamVars
<1>16. CASE SuperviseReadsUsage(c)
  BY <1>16, GoToTyped, ReturnTyped
     DEF SuperviseReadsUsage, TypeOK, StoreTypeOK, storeVars, streamVars
<1>17. CASE SuperviseHalts(c)
  BY <1>17, ReturnTyped DEF SuperviseHalts, DeleteLease, TypeOK, StoreTypeOK, streamVars
<1>18. CASE Vanish(c)
  BY <1>18, ReturnTyped DEF Vanish, TypeOK, StoreTypeOK, storeVars, streamVars
<1>19. QED
  BY <1>1, <1>2, <1>3, <1>4, <1>5, <1>6, <1>7, <1>8, <1>9, <1>10, <1>11,
     <1>12, <1>13, <1>14, <1>15, <1>16, <1>17, <1>18 DEF CallStep

-----------------------------------------------------------------------------
(* The log and the requests *)

\* The log is left alone or an event is appended to it; time does not go back.
Grows ==
    /\ LogLength \in Nat /\ LogLength' \in Nat /\ LogLength <= LogLength'
    /\ \A k \in Nat : OverSince(k) => OverSince(k)'
    /\ now <= now'

LEMMA SameLog ==
    ASSUME TypeOK, TypeOK', LogOK, rows' = rows, now <= now'
    PROVE  LogOK' /\ Grows
<1>1. LogLength \in Nat /\ LogLength' = LogLength
  BY LengthIsNat DEF LogLength
<1>2. \A k \in Nat : OverSince(k) => OverSince(k)'
  BY DEF OverSince, OverBudget, Usage, PageAt, ListEvents, LogLength
<1>3. LogOK'
  BY DEF LogOK, GapFree, Seqs
<1>4. QED BY <1>1, <1>2, <1>3 DEF Grows

\* The guard of InsertWins and its stale maxSeq leave only one seq to insert.
LEMMA InsertGrows ==
    ASSUME TypeOK, TypeOK', LogOK, NEW c \in Calls, CallOK(c), InsertWins(c)
    PROVE  /\ base[c] = LogLength
           /\ LogOK'
           /\ Grows
           /\ LogLength' = LogLength + 1
           /\ Seqs' = Seqs \cup {LogLength + 1}
<1>1. PICK b \in Bodies : InsertRow(base[c] + 1, who[c], b)
  BY DEF InsertWins
<1>2. base[c] \in Nat /\ base[c] <= LogLength /\ ~SeqTaken(base[c] + 1)
  BY DEF InsertWins, CallOK, TypeOK
<1>3. /\ base[c] = LogLength
      /\ LogOK'
      /\ LogLength' = LogLength + 1
      /\ Seqs' = Seqs \cup {LogLength + 1}
  BY <1>1, <1>2, InsertAppends
<1>4. LogLength \in Nat /\ now' = now /\ now \in Nat
  BY LengthIsNat DEF InsertWins, TypeOK, StoreTypeOK
<1>5. ASSUME NEW k \in Nat, OverSince(k) PROVE OverSince(k)'
  <2>1. PICK n \in k .. LogLength : OverBudget(PageAt(n))
    BY <1>5 DEF OverSince
  <2>2. n \in Nat /\ n <= LogLength /\ n \in k .. LogLength'
    BY <1>3, <1>4
  <2> DEFINE e == [seq |-> base[c] + 1, runner |-> who[c], body |-> b]
  <2>3. rows' = rows \cup {e} /\ e.seq = LogLength + 1
    BY <1>1, <1>3 DEF InsertRow
  <2> HIDE DEF e
  <2>4. PageAt(n)' = PageAt(n)
    BY <1>3, <2>2, <2>3, PageIsHistory
  <2>5. QED BY <2>1, <2>2, <2>4 DEF OverSince, OverBudget, Usage
<1>6. QED BY <1>3, <1>4, <1>5 DEF Grows

\* A request that does not move keeps what it relies on while the log grows.
LEMMA OthersKeep ==
    ASSUME TypeOK, TypeOK', Grows, NEW d \in Calls, CallOK(d),
           pc'[d] = pc[d], who'[d] = who[d], at'[d] = at[d],
           base'[d] = base[d], tries'[d] = tries[d], first'[d] = first[d]
    PROVE  CallOK(d)'
<1>1. /\ at[d] \in Nat /\ base[d] \in Nat /\ tries[d] \in Nat /\ first[d] \in Nat
      /\ now \in Nat /\ now' \in Nat
  BY DEF TypeOK, StoreTypeOK
<1>2. Budget \in Nat
  OBVIOUS
<1>3. QED BY <1>1, <1>2 DEF CallOK, Grows

LEMMA ArriveKeeps ==
    ASSUME TypeOK, TypeOK', Grows, now' = now, \A d \in Calls : CallOK(d),
           NEW c \in Calls, NEW r \in Runners,
           NEW step \in {"claim", "renew", "gate", "usage"}, Arrive(c, r, step),
           \/ step # "usage" /\ first' = first
           \/ step = "usage" /\ first' = [first EXCEPT ![c] = LogLength]
    PROVE  \A d \in Calls : CallOK(d)'
<1>1. CallOK(c)'
  <2>1. pc[c] = "idle" /\ tries[c] = 0 /\ first[c] = 0
    BY DEF Arrive, CallOK
  <2>2. /\ pc'[c] = step /\ who'[c] = r /\ at'[c] = now /\ tries'[c] = 0
        /\ step # "usage" => first'[c] = 0
        /\ step = "usage" => first'[c] = LogLength
    BY <2>1 DEF Arrive, TypeOK
  <2>3. LogLength \in Nat /\ LogLength' \in Nat /\ LogLength <= LogLength'
    BY DEF Grows
  <2>4. now' = now /\ now \in Nat
    BY DEF TypeOK, StoreTypeOK
  <2>5. QED BY <2>2, <2>3, <2>4 DEF CallOK
<1>2. ASSUME NEW d \in Calls, d # c PROVE CallOK(d)'
  <2>1. /\ pc'[d] = pc[d] /\ who'[d] = who[d] /\ at'[d] = at[d]
        /\ base'[d] = base[d] /\ tries'[d] = tries[d] /\ first'[d] = first[d]
    BY <1>2 DEF Arrive, TypeOK
  <2>2. QED BY <2>1, OthersKeep
<1>3. QED BY <1>1, <1>2

LEMMA ReturnKeeps ==
    ASSUME TypeOK, TypeOK', Grows, \A d \in Calls : CallOK(d),
           NEW c \in Calls, NEW answer, Return(c, answer)
    PROVE  \A d \in Calls : CallOK(d)'
<1>1. CallOK(c)'
  BY DEF Return, CallOK, TypeOK, StoreTypeOK
<1>2. ASSUME NEW d \in Calls, d # c PROVE CallOK(d)'
  <2>1. /\ pc'[d] = pc[d] /\ who'[d] = who[d] /\ at'[d] = at[d]
        /\ base'[d] = base[d] /\ tries'[d] = tries[d] /\ first'[d] = first[d]
    BY <1>2 DEF Return, TypeOK
  <2>2. QED BY <2>1, OthersKeep
<1>3. QED BY <1>1, <1>2

\* A step to another statement that needs nothing of the log.
LEMMA GoToKeeps ==
    ASSUME TypeOK, TypeOK', Grows, now' = now, rows' = rows,
           \A d \in Calls : CallOK(d),
           NEW c \in Calls, pc[c] \in {"claim", "renew", "gate", "usage"},
           NEW step, GoTo(c, step),
           \/ step \in {"claimRead", "renewRead", "max"}
           \/ step = "halt" /\ pc[c] = "usage" /\ OverBudget(ListEvents(0)),
           step # "halt" => pc[c] # "usage", LogOK
    PROVE  \A d \in Calls : CallOK(d)'
<1>1. CallOK(c)'
  <2>1. /\ pc'[c] = step /\ who'[c] = who[c] /\ at'[c] = at[c]
        /\ tries'[c] = 0 /\ first'[c] = first[c] /\ who[c] \in Runners /\ at[c] <= now
        /\ first[c] \in Nat
        /\ pc[c] # "usage" => first[c] = 0
        /\ pc[c] = "usage" => first[c] <= LogLength
    BY DEF GoTo, CallOK, TypeOK
  <2>2. LogLength \in Nat /\ LogLength' \in Nat /\ 0 + 0 <= LogLength'
    BY DEF Grows
  <2>3. ASSUME step = "halt" PROVE OverSince(first[c])'
    <3>1. PICK k \in Nat : k = first[c] /\ k = first'[c] /\ k <= LogLength
      BY <2>1, <2>3
    <3>2. LogLength \in k .. LogLength /\ OverBudget(PageAt(LogLength))
      BY <2>2, <2>3, <3>1, PageNow
    <3>3. OverSince(k)
      BY <3>2 DEF OverSince
    <3>4. OverSince(k)'
      BY <3>3 DEF Grows
    <3>5. QED BY <3>1, <3>4
  <2>4. now' = now /\ step \in {"claimRead", "renewRead", "max", "halt"}
    OBVIOUS
  <2>5. step # "halt" => first'[c] = 0
    BY <2>1
  <2>6. QED BY <2>1, <2>2, <2>3, <2>4, <2>5 DEF CallOK
<1>2. ASSUME NEW d \in Calls, d # c PROVE CallOK(d)'
  <2>1. /\ pc'[d] = pc[d] /\ who'[d] = who[d] /\ at'[d] = at[d]
        /\ base'[d] = base[d] /\ tries'[d] = tries[d] /\ first'[d] = first[d]
    BY <1>2 DEF GoTo, TypeOK
  <2>2. QED BY <2>1, OthersKeep
<1>3. QED BY <1>1, <1>2

LEMMA CallStepKeeps ==
    ASSUME TypeOK, TypeOK', LogOK, \A d \in Calls : CallOK(d),
           NEW c \in Calls, CallStep(c)
    PROVE  LogOK' /\ Grows /\ \A d \in Calls : CallOK(d)'
<1> DEFINE Kept == LogOK' /\ Grows /\ \A d \in Calls : CallOK(d)'
<1>0. now \in Nat
  BY DEF TypeOK, StoreTypeOK
<1>1. ASSUME NEW r \in Runners, ClaimArrives(c, r) PROVE Kept
  BY <1>0, <1>1, SameLog, ArriveKeeps DEF ClaimArrives, storeVars
<1>2. ASSUME NEW r \in Runners, RenewArrives(c, r) PROVE Kept
  BY <1>0, <1>2, SameLog, ArriveKeeps DEF RenewArrives, storeVars
<1>3. ASSUME NEW r \in Runners, AppendArrives(c, r) PROVE Kept
  BY <1>0, <1>3, SameLog, ArriveKeeps DEF AppendArrives, storeVars
<1>4. ASSUME NEW ttl \in Ttls, ClaimWon(c, ttl) PROVE Kept
  BY <1>0, <1>4, SameLog, ReturnKeeps DEF ClaimWon
<1>5. ASSUME NEW ttl \in Ttls, RenewWon(c, ttl) PROVE Kept
  BY <1>0, <1>5, SameLog, ReturnKeeps DEF RenewWon
<1>6. CASE ClaimLost(c)
  BY <1>0, <1>6, SameLog, GoToKeeps DEF ClaimLost, storeVars
<1>7. CASE ClaimReadsHolder(c)
  BY <1>0, <1>7, SameLog, ReturnKeeps DEF ClaimReadsHolder, storeVars
<1>8. CASE RenewLost(c)
  BY <1>0, <1>8, SameLog, GoToKeeps DEF RenewLost, storeVars
<1>9. CASE RenewReadsHolder(c)
  BY <1>0, <1>9, SameLog, ReturnKeeps DEF RenewReadsHolder, storeVars
<1>10. CASE AssertHoldsLease(c)
  BY <1>0, <1>10, SameLog, GoToKeeps, ReturnKeeps DEF AssertHoldsLease, storeVars
<1>11. CASE ReadMaxSeq(c)
  <2>1. LogOK' /\ Grows /\ rows' = rows /\ MaxSeq = LogLength
    BY <1>0, <1>11, SameLog, MaxSeqIsLength DEF ReadMaxSeq, storeVars
  <2>2. LogLength \in Nat /\ LogLength' = LogLength
    BY <2>1, LengthIsNat DEF LogLength
  <2>3. CallOK(c)'
    <3>1. /\ pc'[c] = "insert" /\ base'[c] = LogLength
          /\ first'[c] = IF tries[c] = 0 THEN LogLength ELSE first[c]
          /\ tries'[c] = tries[c] /\ who'[c] = who[c] /\ at'[c] = at[c] /\ now' = now
      BY <1>11, <2>1 DEF ReadMaxSeq, TypeOK, storeVars
    <3>2. /\ first[c] + tries[c] <= LogLength
          /\ tries[c] \in Nat /\ first[c] \in Nat /\ who[c] \in Runners /\ at[c] <= now
      BY <1>11 DEF ReadMaxSeq, CallOK, TypeOK
    <3>3. first'[c] + tries'[c] <= base'[c] /\ base'[c] <= LogLength'
      BY <2>2, <3>1, <3>2
    <3>4. QED BY <3>1, <3>2, <3>3 DEF CallOK
  <2>4. ASSUME NEW d \in Calls, d # c PROVE CallOK(d)'
    <3>1. /\ pc'[d] = pc[d] /\ who'[d] = who[d] /\ at'[d] = at[d]
          /\ base'[d] = base[d] /\ tries'[d] = tries[d] /\ first'[d] = first[d]
      BY <1>11, <2>4 DEF ReadMaxSeq, TypeOK
    <3>2. QED BY <2>1, <3>1, OthersKeep
  <2>5. QED BY <2>1, <2>3, <2>4
<1>12. CASE InsertWins(c)
  BY <1>12, InsertGrows, ReturnKeeps DEF InsertWins
<1>13. CASE InsertConflicts(c)
  <2>1. LogOK' /\ Grows /\ rows' = rows
    BY <1>0, <1>13, SameLog DEF InsertConflicts, storeVars
  <2>2. CASE tries[c] + 1 < MaxSeqRetries
    <3>1. CallOK(c)'
      <4>1. /\ pc'[c] = "max" /\ tries'[c] = tries[c] + 1 /\ first'[c] = first[c]
            /\ who'[c] = who[c] /\ at'[c] = at[c] /\ now' = now
        BY <1>13, <2>2 DEF InsertConflicts, TypeOK, storeVars
      <4>2. LogLength \in Nat /\ LogLength' = LogLength /\ Seqs = 1 .. LogLength
        BY <2>1, LengthIsNat DEF LogOK, GapFree, LogLength
      <4>3. /\ first[c] + tries[c] <= base[c] /\ base[c] + 1 <= LogLength
            /\ tries[c] \in Nat /\ first[c] \in Nat /\ base[c] \in Nat
            /\ who[c] \in Runners /\ at[c] <= now
        BY <1>13, <4>2 DEF InsertConflicts, SeqTaken, CallOK, TypeOK
      <4>4. first'[c] + tries'[c] <= LogLength'
        BY <4>1, <4>2, <4>3
      <4>5. QED BY <4>1, <4>3, <4>4 DEF CallOK
    <3>2. ASSUME NEW d \in Calls, d # c PROVE CallOK(d)'
      <4>1. /\ pc'[d] = pc[d] /\ who'[d] = who[d] /\ at'[d] = at[d]
            /\ base'[d] = base[d] /\ tries'[d] = tries[d] /\ first'[d] = first[d]
        BY <1>13, <2>2, <3>2 DEF InsertConflicts, TypeOK
      <4>2. QED BY <2>1, <4>1, OthersKeep
    <3>3. QED BY <2>1, <3>1, <3>2
  <2>3. CASE ~(tries[c] + 1 < MaxSeqRetries)
    BY <1>13, <2>1, <2>3, ReturnKeeps DEF InsertConflicts
  <2>4. QED BY <2>2, <2>3
<1>14. CASE InsertThrows(c)
  BY <1>0, <1>14, SameLog, ReturnKeeps DEF InsertThrows, storeVars
<1>15. CASE SuperviseReadsLease(c)
  <2>1. lease.holder \in Runners
    BY <1>15, HolderIsARunner DEF SuperviseReadsLease, LeaseActive
  <2>2. LogOK' /\ Grows /\ now' = now
    BY <1>0, <1>15, SameLog DEF SuperviseReadsLease, storeVars
  <2>3. first' = [first EXCEPT ![c] = LogLength]
    BY <1>15, MaxSeqIsLength DEF SuperviseReadsLease
  <2>4. Arrive(c, lease.holder, "usage")
    BY <1>15 DEF SuperviseReadsLease
  <2>5. QED BY <2>1, <2>2, <2>3, <2>4, ArriveKeeps
<1>16. CASE SuperviseReadsUsage(c)
  <2>2. CASE OverBudget(ListEvents(0))
    BY <1>0, <1>16, <2>2, SameLog, GoToKeeps DEF SuperviseReadsUsage, storeVars
  <2>3. CASE ~OverBudget(ListEvents(0))
    BY <1>0, <1>16, <2>3, SameLog, ReturnKeeps DEF SuperviseReadsUsage, storeVars
  <2>4. QED BY <2>2, <2>3
<1>17. CASE SuperviseHalts(c)
  BY <1>0, <1>17, SameLog, ReturnKeeps DEF SuperviseHalts
<1>18. CASE Vanish(c)
  BY <1>0, <1>18, SameLog, ReturnKeeps DEF Vanish, storeVars
<1>19. QED
  BY <1>1, <1>2, <1>3, <1>4, <1>5, <1>6, <1>7, <1>8, <1>9, <1>10, <1>11,
     <1>12, <1>13, <1>14, <1>15, <1>16, <1>17, <1>18 DEF CallStep

-----------------------------------------------------------------------------
(* The event stream *)

LEMMA CallStepStream ==
    ASSUME NEW c \in Calls, CallStep(c)
    PROVE  streamVars' = streamVars /\ (rows' = rows \/ InsertWins(c))
BY DEF CallStep, ClaimArrives, RenewArrives, AppendArrives, ClaimWon, RenewWon,
       ClaimLost, ClaimReadsHolder, RenewLost, RenewReadsHolder,
       AssertHoldsLease, ReadMaxSeq, InsertConflicts, InsertThrows, InsertWins,
       SuperviseReadsLease, SuperviseReadsUsage, SuperviseHalts, Vanish, storeVars

LEMMA StreamIdle ==
    ASSUME LogOK, StreamOK, TypeOK, streamVars' = streamVars,
           \/ rows' = rows
           \/ /\ LogLength' = LogLength + 1
              /\ Seqs' = Seqs \cup {LogLength + 1}
    PROVE  StreamOK'
<1>1. LogLength \in Nat /\ Seqs = 1 .. LogLength /\ cursor \in Nat
  BY LengthIsNat DEF LogOK, GapFree, LogLength, TypeOK
<1>2. cursor' = cursor /\ sent' = sent /\ open' = open /\ page' = page
  BY DEF streamVars
<1>3. CASE rows' = rows
  BY <1>2, <1>3 DEF StreamOK, StreamSkipsNothing, Seqs, LogLength
<1>4. CASE LogLength' = LogLength + 1 /\ Seqs' = Seqs \cup {LogLength + 1}
  <2>1. StreamSkipsNothing'
    BY <1>1, <1>2, <1>4 DEF StreamOK, StreamSkipsNothing
  <2>2. cursor' <= LogLength' + 1
    BY <1>1, <1>2, <1>4 DEF StreamOK
  <2>3. ASSUME NEW p \in open', NEW s \in page'[p]
        PROVE  s \in Seqs' /\ \A t \in Seqs' : t < s => t \in page'[p] \/ t < cursor'
    <3>1. s \in Seqs /\ \A t \in Seqs : t < s => t \in page[p] \/ t < cursor
      BY <1>2, <2>3 DEF StreamOK
    <3>2. ~(LogLength + 1 < s)
      BY <1>1, <3>1
    <3>3. QED BY <1>2, <1>4, <3>1, <3>2
  <2>4. QED BY <2>1, <2>2, <2>3 DEF StreamOK
<1>5. QED BY <1>3, <1>4

\* A bounded non-empty set of numbers has a largest element.
LEMMA LargestOfBounded ==
    ASSUME NEW n \in Nat, NEW S \in SUBSET (0 .. n), S # {}
    PROVE  \E m \in S : \A x \in S : x <= m
<1> DEFINE gaps == {n - x : x \in S}
           R == OpToRel(<, Nat)
<1>0. \A x \in S : x \in Nat /\ x <= n /\ n - x \in Nat
  BY SMT
<1>1. gaps \subseteq Nat /\ gaps # {}
  BY <1>0, Zenon
<1>2. PICK k \in gaps : \A y \in gaps : ~(<<y, k>> \in R)
  BY <1>1, NatLessThanWellFounded, WFMin
<1>3. \A y \in gaps : ~(y < k)
  BY <1>1, <1>2 DEF OpToRel
<1>4. PICK m \in S : k = n - m
  BY <1>2
<1>5. ASSUME NEW x \in S PROVE x <= m
  <2>1. ~(n - x < n - m)
    BY <1>3, <1>4
  <2>2. QED BY <1>0, <2>1
<1>6. QED BY <1>5

\* A page is cut off at its end only: with an event it holds every older one
\* from `since` on.
LEMMA PageIsPrefix ==
    ASSUME LogOK, TypeOK, NEW since \in Nat, NEW e \in ListEvents(since),
           NEW q \in rows, q.seq < e.seq, q.seq >= since
    PROVE  q \in ListEvents(since)
<1> DEFINE from == {r \in rows : r.seq >= since}
           older(x) == {y \in from : y.seq < x.seq}
<1>1. /\ e \in from /\ q \in from
      /\ Cardinality(older(e)) < PageLimit
  BY DEF ListEvents
<1>2. \A r \in rows : r.seq \in Nat
  BY DEF TypeOK, StoreTypeOK, EventRows
<1>3. IsFiniteSet(from)
  BY FS_Subset DEF LogOK
<1>4. IsFiniteSet(older(e)) /\ older(q) \in SUBSET older(e)
  BY <1>1, <1>2, <1>3, FS_Subset
<1>5. Cardinality(older(q)) <= Cardinality(older(e))
  BY <1>4, FS_Subset
<1>6. /\ Cardinality(older(e)) \in Nat /\ IsFiniteSet(older(q))
      /\ Cardinality(older(q)) \in Nat
  BY <1>4, FS_CardinalityType, FS_Subset
<1>7. Cardinality(older(q)) < PageLimit
  BY <1>1, <1>5, <1>6
<1>8. QED BY <1>1, <1>7 DEF ListEvents

\* The cursor moves to a number.
LEMMA CursorIsNat ==
    ASSUME LogOK, TypeOK, StreamOK, NEW p \in Polls, PollWrites(p)
    PROVE  cursor' \in Nat
<1> DEFINE ends == {cursor} \cup {s + 1 : s \in page[p]}
<1>1. LogLength \in Nat /\ Seqs = 1 .. LogLength /\ cursor \in Nat
  BY LengthIsNat DEF LogOK, GapFree, LogLength, TypeOK
<1>2. page[p] \subseteq 1 .. LogLength
  BY <1>1 DEF PollWrites, StreamOK
<1>3. ends # {} /\ LogLength + 1 \in Nat /\ ends \in SUBSET (0 .. LogLength + 1)
  BY <1>1, <1>2 DEF StreamOK
<1>4. \E m \in ends : \A x \in ends : x <= m
  <2> HIDE DEF ends
  <2> QED BY <1>3, LargestOfBounded
<1>5. cursor' \in ends
  BY <1>4 DEF PollWrites
<1>6. QED BY <1>3, <1>5

LEMMA PollStep ==
    ASSUME LogOK, TypeOK, StreamOK, NEW p \in Polls, PollReads(p) \/ PollWrites(p)
    PROVE  StreamOK'
<1>1. LogLength \in Nat /\ Seqs = 1 .. LogLength /\ cursor \in Nat
  BY LengthIsNat DEF LogOK, GapFree, LogLength, TypeOK
<1>2. rows' = rows /\ LogLength' = LogLength /\ Seqs' = Seqs
  BY DEF PollReads, PollWrites, storeVars, LogLength, Seqs
<1>3. CASE PollReads(p)
  <2>1. cursor' = cursor /\ sent' = sent
    BY <1>3 DEF PollReads
  <2>2. ASSUME NEW o \in open', NEW s \in page'[o]
        PROVE  s \in Seqs' /\ \A t \in Seqs' : t < s => t \in page'[o] \/ t < cursor'
    <3>1. CASE o = p
      <4>1. PICK e \in ListEvents(cursor) : s = e.seq
        BY <1>3, <2>2, <3>1 DEF PollReads, TypeOK
      <4>2. e \in rows
        BY <4>1 DEF ListEvents
      <4>3. ASSUME NEW t \in Seqs, t < s, ~(t < cursor) PROVE t \in page'[o]
        <5>1. PICK q \in rows : t = q.seq
          BY <4>3 DEF Seqs
        <5>2. q.seq >= cursor
          BY <1>1, <4>3, <5>1
        <5>3. q \in ListEvents(cursor)
          BY <1>1, <4>1, <4>3, <5>1, <5>2, PageIsPrefix
        <5>4. QED BY <1>3, <3>1, <5>1, <5>3 DEF PollReads, TypeOK
      <4>4. QED BY <1>2, <2>1, <4>1, <4>2, <4>3 DEF Seqs
    <3>2. CASE o # p
      BY <1>2, <1>3, <2>1, <2>2, <3>2 DEF PollReads, TypeOK, StreamOK
    <3>3. QED BY <3>1, <3>2
  <2>3. StreamSkipsNothing' /\ cursor' <= LogLength' + 1
    BY <1>2, <2>1 DEF StreamOK, StreamSkipsNothing
  <2>4. QED BY <2>2, <2>3 DEF StreamOK
<1>4. CASE PollWrites(p)
  <2> DEFINE ends == {cursor} \cup {s + 1 : s \in page[p]}
  <2>1. /\ page[p] \subseteq 1 .. LogLength
        /\ \A s \in page[p] : \A t \in Seqs : t < s => t \in page[p] \/ t < cursor
    BY <1>1, <1>4 DEF PollWrites, StreamOK
  <2>2. ends \subseteq 0 .. LogLength + 1
    BY <1>1, <2>1 DEF StreamOK
  <2>3. cursor' \in ends /\ \A x \in ends : x <= cursor'
    <3>1. ends # {} /\ LogLength + 1 \in Nat /\ ends \in SUBSET (0 .. LogLength + 1)
      BY <1>1, <2>2
    <3>2. \E m \in ends : \A x \in ends : x <= m
      <4> HIDE DEF ends
      <4> QED BY <3>1, LargestOfBounded
    <3>3. QED BY <1>4, <3>2 DEF PollWrites
  <2>4. cursor' \in Nat /\ cursor <= cursor' /\ cursor' <= LogLength + 1
    BY <1>1, <2>2, <2>3
  <2>5. ASSUME NEW t \in Seqs PROVE t \in sent' <=> t < cursor'
    <3>1. CASE t < cursor
      BY <1>1, <1>4, <2>4, <2>5, <3>1 DEF PollWrites, StreamOK, StreamSkipsNothing
    <3>2. CASE ~(t < cursor)
      <4>1. t \in sent' <=> t \in page[p]
        BY <1>1, <1>4, <3>2 DEF PollWrites, StreamOK, StreamSkipsNothing
      <4>2. ASSUME t \in page[p] PROVE t < cursor'
        <5>1. t + 1 \in ends /\ t \in Nat
          BY <1>1, <4>2
        <5>2. t + 1 <= cursor'
          BY <2>3, <5>1
        <5>3. QED BY <2>4, <5>1, <5>2
      <4>3. ASSUME t < cursor' PROVE t \in page[p]
        <5>1. PICK s \in page[p] : cursor' = s + 1
          BY <1>1, <2>3, <3>2, <4>3
        <5>2. t = s \/ t < s
          BY <1>1, <2>1, <4>3, <5>1
        <5>3. QED BY <2>1, <3>2, <5>1, <5>2
      <4>4. QED BY <4>1, <4>2, <4>3
    <3>3. QED BY <3>1, <3>2
  <2>6. sent' \subseteq Seqs
    BY <1>1, <1>4, <2>1 DEF PollWrites, StreamOK, StreamSkipsNothing
  <2>7. StreamSkipsNothing'
    BY <1>2, <2>5, <2>6 DEF StreamSkipsNothing
  <2>8. ASSUME NEW o \in open', NEW s \in page'[o]
        PROVE  s \in Seqs' /\ \A t \in Seqs' : t < s => t \in page'[o] \/ t < cursor'
    <3>1. o \in open /\ o # p /\ page'[o] = page[o]
      BY <1>4, <2>8 DEF PollWrites, TypeOK
    <3>2. s \in Seqs /\ \A t \in Seqs : t < s => t \in page[o] \/ t < cursor
      BY <2>8, <3>1 DEF StreamOK
    <3>3. QED BY <1>1, <1>2, <2>4, <3>1, <3>2
  <2>9. QED BY <1>2, <2>4, <2>7, <2>8 DEF StreamOK
<1>5. QED BY <1>3, <1>4

-----------------------------------------------------------------------------
(* The invariant and the theorems *)

LEMMA InitIInv == Init => IInv
<1> SUFFICES ASSUME Init PROVE IInv
  OBVIOUS
<1>1. TypeOK
  BY DEF Init, StoreInit, TypeOK, StoreTypeOK, Steps, Replies
<1>2. rows = {} /\ Seqs = {} /\ IsFiniteSet(rows) /\ LogLength = 0
  BY FS_EmptySet DEF Init, StoreInit, Seqs, LogLength
<1>3. LogOK
  BY <1>2 DEF LogOK, GapFree, LogLength
<1>4. \A c \in Calls : CallOK(c)
  BY DEF Init, StoreInit, CallOK
<1>5. StreamOK
  BY <1>2 DEF Init, StreamOK, StreamSkipsNothing
<1>6. QED BY <1>1, <1>3, <1>4, <1>5 DEF IInv

LEMMA StepIInv == IInv /\ [Next]_vars => IInv'
<1> SUFFICES ASSUME IInv, [Next]_vars PROVE IInv'
  OBVIOUS
<1>0. TypeOK /\ LogOK /\ StreamOK /\ WhoOK /\ \A c \in Calls : CallOK(c)
  BY DEF IInv, WhoOK, CallOK
<1>1. ASSUME NEW c \in Calls, CallStep(c) PROVE IInv'
  <2>1. TypeOK'
    BY <1>0, <1>1, CallStepTyped
  <2>2. LogOK' /\ \A d \in Calls : CallOK(d)'
    BY <1>0, <1>1, <2>1, CallStepKeeps
  <2>3. StreamOK'
    <3>1. CASE rows' = rows
      BY <1>0, <1>1, <3>1, CallStepStream, StreamIdle
    <3>2. CASE InsertWins(c)
      BY <1>0, <1>1, <2>1, <3>2, CallStepStream, InsertGrows, StreamIdle
    <3>3. QED BY <1>1, <3>1, <3>2, CallStepStream
  <2>4. QED BY <2>1, <2>2, <2>3 DEF IInv
<1>2. ASSUME TypeOK', rows' = rows, now <= now', callVars' = callVars
      PROVE  LogOK' /\ \A c \in Calls : CallOK(c)'
  <2>1. LogOK' /\ Grows
    BY <1>0, <1>2, SameLog
  <2>2. QED BY <1>0, <1>2, <2>1, OthersKeep DEF callVars
<1>3. ASSUME NEW r \in Runners, Release(r) PROVE IInv'
  <2>1. TypeOK'
    BY <1>0, <1>3 DEF Release, DeleteLease, TypeOK, StoreTypeOK, callVars, streamVars
  <2>2. rows' = rows /\ now <= now' /\ callVars' = callVars /\ streamVars' = streamVars
    BY <1>0, <1>3 DEF Release, TypeOK, StoreTypeOK
  <2>3. StreamOK'
    BY <1>0, <2>2, StreamIdle
  <2>4. QED BY <1>2, <2>1, <2>2, <2>3 DEF IInv
<1>4. ASSUME NEW p \in Polls, PollReads(p) \/ PollWrites(p) PROVE IInv'
  <2>1. StreamOK'
    BY <1>0, <1>4, PollStep
  <2>2. rows' = rows /\ now <= now' /\ callVars' = callVars
    BY <1>0, <1>4 DEF PollReads, PollWrites, storeVars, TypeOK, StoreTypeOK
  <2>3. TypeOK'
    <3>1. Seqs \subseteq Nat
      BY <1>0 DEF LogOK, GapFree
    <3>2. CASE PollReads(p)
      <4>1. {e.seq : e \in ListEvents(cursor)} \subseteq Nat
        BY <3>1 DEF ListEvents, Seqs
      <4>2. QED
        BY <1>0, <3>2, <4>1
           DEF PollReads, TypeOK, StoreTypeOK, storeVars, callVars
    <3>3. CASE PollWrites(p)
      <4>1. cursor' \in Nat
        BY <1>0, <3>3, CursorIsNat
      <4>2. QED
        BY <1>0, <3>3, <4>1
           DEF PollWrites, TypeOK, StoreTypeOK, storeVars, callVars
    <3>4. QED BY <1>4, <3>2, <3>3
  <2>4. QED BY <1>2, <2>1, <2>2, <2>3 DEF IInv
<1>5. CASE ClockTick
  <2>1. TypeOK'
    BY <1>0, <1>5 DEF ClockTick, Tick, TypeOK, StoreTypeOK, callVars, streamVars
  <2>2. rows' = rows /\ now <= now' /\ callVars' = callVars /\ streamVars' = streamVars
    BY <1>0, <1>5 DEF ClockTick, Tick, TypeOK, StoreTypeOK
  <2>3. StreamOK'
    BY <1>0, <2>2, StreamIdle
  <2>4. QED BY <1>2, <2>1, <2>2, <2>3 DEF IInv
<1>6. CASE UNCHANGED vars
  <2>1. TypeOK'
    BY <1>0, <1>6
       DEF vars, storeVars, callVars, streamVars, TypeOK, StoreTypeOK
  <2>2. rows' = rows /\ now <= now' /\ callVars' = callVars /\ streamVars' = streamVars
    BY <1>0, <1>6 DEF vars, storeVars, TypeOK, StoreTypeOK
  <2>3. StreamOK'
    BY <1>0, <2>2, StreamIdle
  <2>4. QED BY <1>2, <2>1, <2>2, <2>3 DEF IInv
<1>7. QED BY <1>1, <1>3, <1>4, <1>5, <1>6 DEF Next

\* Every reachable state satisfies the inductive invariant.
THEOREM Invariance == Spec => []IInv
BY InitIInv, StepIInv, PTL DEF Spec

\* Types of the store, the requests and the stream.
THEOREM Typing == Spec => []TypeOK
<1>1. IInv => TypeOK
  BY DEF IInv
<1>2. QED BY <1>1, Invariance, PTL

\* Whatever maxSeq an appender read, the log reads 1 .. n without duplicates
\* (use-cases.ts appendEvent).
THEOREM GapFreeLog == Spec => []GapFree
<1>1. IInv => GapFree
  BY DEF IInv, LogOK
<1>2. QED BY <1>1, Invariance, PTL

\* A follower of the stream is sent every event below its cursor, for any
\* number of overlapping polls and any page limit (sessions.ts poll).
THEOREM StreamIsComplete == Spec => []StreamSkipsNothing
<1>1. IInv => StreamSkipsNothing
  BY DEF IInv, StreamOK
<1>2. QED BY <1>1, Invariance, PTL

\* A lost insert race is always another request's success, for any number of
\* retries (use-cases.ts appendEvent).
THEOREM ConflictsAreProgress == Spec => []ConflictIsProgress
<1>1. ASSUME IInv, NEW c \in Calls, pc[c] \in {"max", "insert"}
      PROVE  first[c] + tries[c] <= MaxSeq
  <2>1. MaxSeq = LogLength /\ LogLength \in Nat
    BY <1>1, MaxSeqIsLength, LengthIsNat DEF IInv
  <2>2. first[c] \in Nat /\ tries[c] \in Nat /\ base[c] \in Nat
    BY <1>1 DEF IInv, TypeOK
  <2>3. QED BY <1>1, <2>1, <2>2 DEF IInv, CallOK
<1>2. IInv => ConflictIsProgress
  BY <1>1 DEF ConflictIsProgress
<1>3. QED BY <1>2, Invariance, PTL

-----------------------------------------------------------------------------
(* Action properties *)

ExclusiveStep ==
    LeaseActive(lease, now) /\ lease' # lease
      => lease' = NoLease \/ lease'.holder = lease.holder

\* A claim's stale clock reading can only make it lose: until a running term
\* ends nobody else takes the session over (use-cases.ts claimLease).
THEOREM ActiveTermsAreExclusive == Spec => ActiveTermIsExclusive
<1>1. ASSUME IInv, Next PROVE ExclusiveStep
  <2> SUFFICES ASSUME LeaseActive(lease, now), lease' # lease
               PROVE  lease' = NoLease \/ lease'.holder = lease.holder
    BY DEF ExclusiveStep
  <2>1. lease # NoLease /\ lease.until > now /\ lease.until \in Nat /\ now \in Nat
    BY <1>1, HolderIsARunner DEF IInv, LeaseActive, TypeOK, StoreTypeOK
  <2>2. ASSUME NEW c \in Calls, NEW ttl \in Ttls, ClaimWon(c, ttl)
        PROVE  lease'.holder = lease.holder
    <3>1. at[c] \in Nat /\ at[c] <= now
      BY <1>1 DEF IInv, TypeOK, CallOK
    <3>2. lease.holder = who[c]
      BY <2>1, <2>2, <3>1 DEF ClaimWon, ClaimWins
    <3>3. QED BY <2>2, <3>2 DEF ClaimWon, SetLease
  <2>3. ASSUME NEW c \in Calls, NEW ttl \in Ttls, RenewWon(c, ttl)
        PROVE  lease'.holder = lease.holder
    BY <2>3 DEF RenewWon, RenewWins, SetLease
  <2>4. ASSUME NEW c \in Calls, SuperviseHalts(c) PROVE lease' = NoLease
    BY <2>4 DEF SuperviseHalts, DeleteLease
  <2>5. ASSUME NEW r \in Runners, Release(r) PROVE lease' = NoLease
    BY <2>5 DEF Release, DeleteLease
  <2>6. ASSUME NEW c \in Calls, CallStep(c)
        PROVE  \/ lease' = lease
               \/ \E ttl \in Ttls : ClaimWon(c, ttl) \/ RenewWon(c, ttl)
               \/ SuperviseHalts(c)
    BY <2>6
       DEF CallStep, ClaimArrives, RenewArrives, AppendArrives, ClaimLost,
           ClaimReadsHolder, RenewLost, RenewReadsHolder, AssertHoldsLease,
           ReadMaxSeq, InsertWins, InsertConflicts, InsertThrows,
           SuperviseReadsLease, SuperviseReadsUsage, Vanish, storeVars
  <2>7. ASSUME NEW p \in Polls, PollReads(p) \/ PollWrites(p) PROVE lease' = lease
    BY <2>7 DEF PollReads, PollWrites, storeVars
  <2>8. CASE ClockTick
    BY <2>8 DEF ClockTick, Tick
  <2>9. QED BY <1>1, <2>2, <2>3, <2>4, <2>5, <2>6, <2>7, <2>8 DEF Next
<1>2. IInv /\ [Next]_vars => [ExclusiveStep]_vars
  BY <1>1
<1>3. QED BY <1>2, Invariance, PTL DEF Spec, ActiveTermIsExclusive, ExclusiveStep

HaltStep ==
    \A c \in Calls :
        pc[c] = "halt" /\ pc'[c] = "idle" /\ lease' # lease
          => /\ lease.holder = who[c]
             /\ \E n \in first[c] .. MaxSeq : OverBudget(PageAt(n))

LEMMA OthersStayPut ==
    ASSUME TypeOK, NEW c \in Calls, NEW d \in Calls, c # d, CallStep(d)
    PROVE  pc'[c] = pc[c]
<1> USE DEF TypeOK, Arrive, GoTo, Return
<1>1. ASSUME NEW r \in Runners,
             ClaimArrives(d, r) \/ RenewArrives(d, r) \/ AppendArrives(d, r)
      PROVE  pc'[c] = pc[c]
  BY <1>1 DEF ClaimArrives, RenewArrives, AppendArrives
<1>2. ASSUME NEW ttl \in Ttls, ClaimWon(d, ttl) \/ RenewWon(d, ttl)
      PROVE  pc'[c] = pc[c]
  BY <1>2 DEF ClaimWon, RenewWon
<1>3. CASE ClaimLost(d) \/ ClaimReadsHolder(d) \/ RenewLost(d) \/ RenewReadsHolder(d)
  BY <1>3 DEF ClaimLost, ClaimReadsHolder, RenewLost, RenewReadsHolder
<1>4. CASE AssertHoldsLease(d) \/ ReadMaxSeq(d) \/ InsertWins(d)
  BY <1>4 DEF AssertHoldsLease, ReadMaxSeq, InsertWins
<1>5. CASE InsertConflicts(d) \/ InsertThrows(d) \/ Vanish(d)
  BY <1>5 DEF InsertConflicts, InsertThrows, Vanish
<1>6. CASE SuperviseReadsLease(d) \/ SuperviseReadsUsage(d) \/ SuperviseHalts(d)
  BY <1>6 DEF SuperviseReadsLease, SuperviseReadsUsage, SuperviseHalts
<1>7. QED BY <1>1, <1>2, <1>3, <1>4, <1>5, <1>6 DEF CallStep

\* The page a supervisor read may be old, refunds may have arrived and the
\* lease may have changed hands since, yet it never takes the lease of a
\* session that was within budget all the time it looked at it, nor of a
\* runner it did not see (supervisor.ts superviseSession).
THEOREM HaltsHitTheRunaway == Spec => HaltHitsTheRunaway
<1>1. ASSUME IInv, Next PROVE HaltStep
  <2> SUFFICES ASSUME NEW c \in Calls, pc[c] = "halt", pc'[c] = "idle",
                      lease' # lease
               PROVE  /\ lease.holder = who[c]
                      /\ \E n \in first[c] .. MaxSeq : OverBudget(PageAt(n))
    BY DEF HaltStep
  <2>1. TypeOK /\ \E n \in first[c] .. MaxSeq : OverBudget(PageAt(n))
    BY <1>1, MaxSeqIsLength DEF IInv, CallOK, OverSince
  <2>2. pc'[c] # pc[c]
    OBVIOUS
  <2>3. ASSUME NEW d \in Calls, CallStep(d) PROVE lease.holder = who[c]
    <3>1. d = c
      BY <2>1, <2>2, <2>3, OthersStayPut
    <3>2. SuperviseHalts(c) \/ lease' = lease
      BY <2>3, <3>1
         DEF CallStep, ClaimArrives, RenewArrives, AppendArrives, Arrive, ClaimWon,
             RenewWon, ClaimLost, ClaimReadsHolder, RenewLost, RenewReadsHolder,
             AssertHoldsLease, ReadMaxSeq, InsertWins, InsertConflicts,
             InsertThrows, SuperviseReadsLease, SuperviseReadsUsage, Vanish,
             storeVars
    <3>3. QED BY <3>2 DEF SuperviseHalts, DeleteLease, ReleaseWins
  <2>4. pc' = pc \/ \E d \in Calls : CallStep(d)
    BY <1>1 DEF Next, Release, PollReads, PollWrites, ClockTick, callVars
  <2>5. QED BY <2>1, <2>2, <2>3, <2>4
<1>2. IInv /\ [Next]_vars => [HaltStep]_vars
  BY <1>1
<1>3. QED BY <1>2, Invariance, PTL DEF Spec, HaltHitsTheRunaway, HaltStep

-----------------------------------------------------------------------------
(* Refinement *)

LEMMA ViewUnchanged ==
    ASSUME rows' = rows
    PROVE  LogView' = LogView
BY DEF LogView, LogEntry

LEMMA InsertAppendsToView ==
    ASSUME IInv, NEW c \in Calls, NEW b \in Bodies, pc[c] = "insert",
           ~SeqTaken(base[c] + 1), InsertRow(base[c] + 1, who[c], b)
    PROVE  LogView' = Append(LogView, [runner |-> who[c], body |-> b])
<1>0. PICK n \in Nat : n = LogLength
  BY LengthIsNat DEF IInv
<1> DEFINE e == [seq |-> n + 1, runner |-> who[c], body |-> b]
<1>1. /\ base[c] = n
      /\ Cardinality(rows') = n + 1
      /\ n = Cardinality(rows) /\ n \in Nat
      /\ LogOK'
      /\ Seqs = 1 .. n
  BY <1>0, InsertAppends DEF IInv, CallOK, TypeOK, LogLength, LogOK, GapFree
<1>2. rows' = rows \cup {e}
  BY <1>1 DEF InsertRow
<1>3. ASSUME NEW i \in 1 .. n PROVE LogEntry(i)' = LogEntry(i)
  <2>1. PICK q \in rows : q.seq = i
    BY <1>1, <1>3 DEF Seqs
  <2>2. \A r \in rows : r.seq = i => r = q
    BY <2>1 DEF IInv, LogOK, GapFree
  <2>3. \A r \in rows' : r.seq = i => r = q
    BY <1>1, <1>2, <1>3, <2>2
  <2>4. q \in rows'
    BY <1>2
  <2>5. (CHOOSE r \in rows : r.seq = i) = q
    BY <2>1, <2>2
  <2>6. (CHOOSE r \in rows' : r.seq = i) = q
    BY <2>1, <2>3, <2>4
  <2>7. QED BY <2>5, <2>6 DEF LogEntry
<1>4. LogEntry(n + 1)' = [runner |-> who[c], body |-> b]
  <2>1. e \in rows' /\ e.seq = n + 1
    BY <1>2
  <2>2. \A r \in rows' : r.seq = n + 1 => r = e
    BY <1>1, <2>1 DEF LogOK, GapFree
  <2>3. (CHOOSE r \in rows' : r.seq = n + 1) = e
    BY <2>1, <2>2
  <2>4. LogEntry(n + 1)' = [runner |-> e.runner, body |-> e.body]
    <3> HIDE DEF e
    <3> QED BY <2>3 DEF LogEntry
  <2>5. QED BY <2>4
<1>5. LogView = [i \in 1 .. n |-> LogEntry(i)]
  BY <1>1 DEF LogView
<1>6. LogView' = [i \in 1 .. n + 1 |-> LogEntry(i)']
  BY <1>1 DEF LogView
<1>7. Len(LogView) = n
  BY <1>1, <1>5
<1>8. Append(LogView, [runner |-> who[c], body |-> b])
        = [i \in 1 .. n + 1 |-> IF i <= n THEN LogView[i] ELSE LogEntry(n + 1)']
  BY <1>1, <1>4, <1>5, <1>7
<1>9. \A i \in 1 .. n + 1 :
         LogEntry(i)' = IF i <= n THEN LogView[i] ELSE LogEntry(n + 1)'
  BY <1>1, <1>3, <1>5
<1>10. QED BY <1>6, <1>8, <1>9

\* A request that does not enter or leave its append keeps its admission.
LEMMA AdmissionKept ==
    ASSUME NEW c \in Calls,
           \A d \in Calls \ {c} : pc'[d] = pc[d] /\ who'[d] = who[d],
           pc[c] \notin {"max", "insert"}, pc'[c] \notin {"max", "insert"}
    PROVE  AdmittedView' = AdmittedView
BY DEF AdmittedView

LEMMA OthersUntouched ==
    ASSUME TypeOK, NEW c \in Calls, NEW r, NEW step,
           Arrive(c, r, step) \/ GoTo(c, step) \/ Return(c, step)
    PROVE  \A d \in Calls \ {c} : pc'[d] = pc[d] /\ who'[d] = who[d]
BY DEF TypeOK, Arrive, GoTo, Return

\* The end of an append withdraws the admission of its request only.
LEMMA AdmissionEnds ==
    ASSUME TypeOK, NEW c \in Calls, NEW answer, Return(c, answer),
           pc[c] \in {"max", "insert"}
    PROVE  AdmittedView' = [AdmittedView EXCEPT ![c] = NoLease]
<1>1. pc'[c] = "idle" /\ \A d \in Calls \ {c} : pc'[d] = pc[d] /\ who'[d] = who[d]
  BY DEF Return, TypeOK
<1>2. QED BY <1>1 DEF AdmittedView

LEMMA InitRefines == Init => Promise!Init
<1> SUFFICES ASSUME Init PROVE Promise!Init
  OBVIOUS
<1>1. Cardinality(rows) = 0
  BY FS_EmptySet DEF Init, StoreInit
<1>2. LogView = <<>>
  BY <1>1 DEF LogView
<1>3. HolderView = NoLease /\ AdmittedView = [c \in Calls |-> NoLease]
  BY DEF Init, StoreInit, HolderView, AdmittedView
<1>4. QED BY <1>2, <1>3 DEF Promise!Init

LEMMA HolderInRange ==
    ASSUME TypeOK
    PROVE  HolderView \in Runners \cup {NoLease}
BY HolderIsARunner DEF HolderView

\* A step that leaves the log and every admission alone at most passes the
\* session on.
LEMMA PassRefines ==
    ASSUME TypeOK', LogView' = LogView, AdmittedView' = AdmittedView
    PROVE  Promise!Next
<1>1. HolderView' \in Runners \cup {NoLease}
  <2>1. lease' # NoLease => lease'.holder \in Runners
    BY DEF TypeOK, StoreTypeOK, LeaseRows
  <2>2. QED BY <2>1 DEF HolderView
<1>2. PICK r \in Runners \cup {NoLease} : HolderView' = r
  BY <1>1
<1>3. Promise!Pass(r)
  BY <1>2 DEF Promise!Pass
<1>4. QED BY <1>3 DEF Promise!Next

\* The end of an append without an event gives the admission up.
LEMMA GiveUpRefines ==
    ASSUME TypeOK, NEW c \in Calls, who[c] \in Runners,
           NEW answer, Return(c, answer), pc[c] \in {"max", "insert"},
           rows' = rows, lease' = lease
    PROVE  Promise!Next
<1>1. LogView' = LogView /\ HolderView' = HolderView
  BY ViewUnchanged DEF HolderView
<1>2. AdmittedView[c] = who[c] /\ who[c] # NoLease
  BY DEF AdmittedView
<1>3. AdmittedView' = [AdmittedView EXCEPT ![c] = NoLease]
  BY AdmissionEnds
<1>4. Promise!GiveUp(c)
  BY <1>1, <1>2, <1>3 DEF Promise!GiveUp
<1>5. QED BY <1>4 DEF Promise!Next

LEMMA CallStepRefines ==
    ASSUME IInv, TypeOK', NEW c \in Calls, CallStep(c)
    PROVE  Promise!Next \/ UNCHANGED Promise!logVars
<1> DEFINE Refined == Promise!Next \/ UNCHANGED Promise!logVars
<1>0. TypeOK /\ CallOK(c) /\ LogOK
  BY DEF IInv
<1>1. ASSUME rows' = rows,
             \A d \in Calls \ {c} : pc'[d] = pc[d] /\ who'[d] = who[d],
             pc[c] \notin {"max", "insert"}, pc'[c] \notin {"max", "insert"}
      PROVE  Refined
  BY <1>1, AdmissionKept, ViewUnchanged, PassRefines
<1>2. ASSUME NEW r \in Runners,
             ClaimArrives(c, r) \/ RenewArrives(c, r) \/ AppendArrives(c, r)
      PROVE  Refined
  BY <1>0, <1>1, <1>2, OthersUntouched
     DEF ClaimArrives, RenewArrives, AppendArrives, Arrive, TypeOK, storeVars
<1>3. ASSUME NEW ttl \in Ttls, ClaimWon(c, ttl) \/ RenewWon(c, ttl)
      PROVE  Refined
  BY <1>0, <1>1, <1>3, OthersUntouched DEF ClaimWon, RenewWon, Return, TypeOK
<1>4. CASE ClaimLost(c) \/ RenewLost(c)
  BY <1>0, <1>1, <1>4, OthersUntouched DEF ClaimLost, RenewLost, GoTo, TypeOK, storeVars
<1>5. CASE ClaimReadsHolder(c) \/ RenewReadsHolder(c)
  BY <1>0, <1>1, <1>5, OthersUntouched
     DEF ClaimReadsHolder, RenewReadsHolder, Return, TypeOK, storeVars
<1>6. CASE SuperviseReadsLease(c) \/ SuperviseReadsUsage(c) \/ SuperviseHalts(c)
  BY <1>0, <1>1, <1>6, OthersUntouched
     DEF SuperviseReadsLease, SuperviseReadsUsage, SuperviseHalts, Arrive, GoTo,
         Return, TypeOK, storeVars
<1>7. CASE AssertHoldsLease(c)
  <2>1. rows' = rows /\ lease' = lease
    BY <1>7 DEF AssertHoldsLease, storeVars
  <2>2. ASSUME NEW answer \in {"NO_LEASE", "LEASE_MISMATCH"}, Return(c, answer)
        PROVE  Refined
    BY <1>0, <1>1, <1>7, <2>1, <2>2, OthersUntouched
       DEF AssertHoldsLease, Return, TypeOK
  <2>3. CASE LeaseActive(lease, at[c]) /\ lease.holder = who[c] /\ GoTo(c, "max")
    <3>1. LogView' = LogView /\ HolderView' = HolderView
      BY <2>1, ViewUnchanged DEF HolderView
    <3>2. HolderView = who[c] /\ HolderView # NoLease
      BY <1>0, <2>3, HolderIsARunner DEF HolderView, LeaseActive
    <3>3. AdmittedView[c] = NoLease
      BY <1>7 DEF AssertHoldsLease, AdmittedView
    <3>4. AdmittedView' = [AdmittedView EXCEPT ![c] = HolderView]
      BY <1>0, <2>3, <3>2 DEF AdmittedView, GoTo, TypeOK
    <3>5. Promise!Admit(c)
      BY <3>1, <3>2, <3>3, <3>4 DEF Promise!Admit
    <3>6. QED BY <3>5 DEF Promise!Next
  <2>4. QED BY <1>7, <2>2, <2>3 DEF AssertHoldsLease
<1>8. CASE ReadMaxSeq(c) \/ (InsertConflicts(c) /\ tries[c] + 1 < MaxSeqRetries)
  <2>1. rows' = rows /\ lease' = lease /\ who' = who
        /\ pc[c] \in {"max", "insert"} /\ pc'[c] \in {"max", "insert"}
        /\ \A d \in Calls \ {c} : pc'[d] = pc[d]
    BY <1>0, <1>8 DEF ReadMaxSeq, InsertConflicts, TypeOK, storeVars
  <2>2. LogView' = LogView /\ HolderView' = HolderView /\ AdmittedView' = AdmittedView
    BY <2>1, ViewUnchanged DEF HolderView, AdmittedView
  <2>3. QED BY <2>2 DEF Promise!logVars
<1>9. CASE InsertWins(c)
  <2>1. PICK b \in Bodies : InsertRow(base[c] + 1, who[c], b)
    BY <1>9 DEF InsertWins
  <2>2. AdmittedView[c] = who[c] /\ who[c] # NoLease
    BY <1>0, <1>9 DEF InsertWins, AdmittedView, CallOK
  <2>3. LogView' = Append(LogView, [runner |-> AdmittedView[c], body |-> b])
    BY <1>9, <2>1, <2>2, InsertAppendsToView DEF InsertWins
  <2>4. AdmittedView' = [AdmittedView EXCEPT ![c] = NoLease]
    BY <1>0, <1>9, AdmissionEnds DEF InsertWins
  <2>5. HolderView' = HolderView
    BY <1>9 DEF InsertWins, HolderView
  <2>6. Promise!Write(c)
    BY <2>2, <2>3, <2>4, <2>5 DEF Promise!Write
  <2>7. QED BY <2>6 DEF Promise!Next
<1>10. CASE InsertThrows(c) \/ (InsertConflicts(c) /\ ~(tries[c] + 1 < MaxSeqRetries))
  BY <1>0, <1>10, GiveUpRefines DEF InsertThrows, InsertConflicts, CallOK, storeVars
<1>11. CASE Vanish(c)
  <2>1. CASE pc[c] \in {"max", "insert"}
    BY <1>0, <1>11, <2>1, GiveUpRefines DEF Vanish, CallOK, storeVars
  <2>2. CASE pc[c] \notin {"max", "insert"}
    BY <1>0, <1>1, <1>11, <2>2, OthersUntouched DEF Vanish, Return, TypeOK, storeVars
  <2>3. QED BY <2>1, <2>2
<1>12. QED
  BY <1>2, <1>3, <1>4, <1>5, <1>6, <1>7, <1>8, <1>9, <1>10, <1>11 DEF CallStep

\* The lease and append use cases implement the append-only log written by
\* admitted requests only.
THEOREM LogRefinement == Spec => ImplementsLog
<1>1. ASSUME IInv, IInv', [Next]_vars
      PROVE  Promise!Next \/ UNCHANGED Promise!logVars
  <2>0. TypeOK /\ TypeOK'
    BY <1>1 DEF IInv
  <2>1. ASSUME NEW c \in Calls, CallStep(c)
        PROVE  Promise!Next \/ UNCHANGED Promise!logVars
    BY <1>1, <2>0, <2>1, CallStepRefines
  <2>2. ASSUME rows' = rows, pc' = pc, who' = who
        PROVE  Promise!Next \/ UNCHANGED Promise!logVars
    <3>1. AdmittedView' = AdmittedView
      BY <2>2 DEF AdmittedView
    <3>2. QED BY <2>0, <2>2, <3>1, ViewUnchanged, PassRefines
  <2>3. ASSUME \/ \E r \in Runners : Release(r)
               \/ \E p \in Polls : PollReads(p) \/ PollWrites(p)
               \/ ClockTick
               \/ UNCHANGED vars
        PROVE  rows' = rows /\ pc' = pc /\ who' = who
    BY <2>3 DEF Release, PollReads, PollWrites, ClockTick, Tick, vars, storeVars, callVars
  <2>4. QED BY <1>1, <2>1, <2>2, <2>3 DEF Next
<1>2. IInv /\ IInv' /\ [Next]_vars => [Promise!Next]_(Promise!logVars)
  BY <1>1
<1>3. QED
  BY <1>2, InitRefines, Invariance, PTL DEF Spec, ImplementsLog, Promise!Spec
=============================================================================
