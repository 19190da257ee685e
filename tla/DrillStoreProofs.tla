-------------------------- MODULE DrillStoreProofs --------------------------
(***************************************************************************)
(* Theorems about DrillStore, for every value of its constants.            *)
(***************************************************************************)
EXTENDS DrillStore, SequenceTheorems, FiniteSetTheorems, TLAPS

-----------------------------------------------------------------------------
(* Lemmas about the operators the actions are built from.                    *)

\* The upsert writes only score rows.
LEMMA UpsertBestType ==
    ASSUME TypeOK, NEW q \in Request, NEW n \in Nat
    PROVE  UpsertBest(q, n) \subseteq ScoreRow
<1>1. CASE \E b \in Standing(q) : Stands(b, q)
  BY <1>1 DEF UpsertBest, TypeOK
<1>2. CASE ~ \E b \in Standing(q) : Stands(b, q)
  <2> DEFINE id == IF Standing(q) = {} THEN n
                   ELSE (CHOOSE b \in Standing(q) : TRUE).id
  <2>1. id \in Nat
    <3>1. CASE Standing(q) = {}
      BY <3>1
    <3>2. CASE Standing(q) # {}
      <4>1. (CHOOSE b \in Standing(q) : TRUE) \in Standing(q)
        BY <3>2
      <4>2. Standing(q) \subseteq ScoreRow
        BY DEF Standing, TypeOK
      <4> QED BY <3>2, <4>1, <4>2 DEF ScoreRow
    <3> QED BY <3>1, <3>2
  <2>2. ScoreRowOf(q, id, n) \in ScoreRow
    BY <2>1 DEF ScoreRowOf, ScoreRow, Request, TypeOK
  <2>3. UpsertBest(q, n) = (bests \ Standing(q)) \cup {ScoreRowOf(q, id, n)}
    BY <1>2 DEF UpsertBest
  <2> QED BY <2>2, <2>3 DEF TypeOK
<1> QED BY <1>1, <1>2

\* Score rows that agree in every column are the same row.
LEMMA ScoreRowEqual ==
    ASSUME NEW r \in ScoreRow, NEW s \in ScoreRow,
           r.id = s.id, r.mode = s.mode, r.player = s.player,
           r.client = s.client, r.body = s.body, r.publish = s.publish,
           r.receipt = s.receipt, r.at = s.at
    PROVE  r = s
  BY DEF ScoreRow

\* The ring holds only receipt rows.
LEMMA AddReceiptType ==
    ASSUME TypeOK, NEW q \in Request, NEW n \in Nat
    PROVE  AddReceipt(q, n) \subseteq ReceiptRow
  BY DEF AddReceipt, Newest, ReceiptsOf, ReceiptRow, Request, TypeOK

\* A publication keeps the run tables, the feed order and the sequence typed.
LEMMA PublishRunType ==
    ASSUME TypeOK, NEW q \in Request, NEW n \in Nat, PublishRun(q, n)
    PROVE  /\ runs' \subseteq ScoreRow
           /\ feed' \subseteq FeedRow
           /\ lastRun' \in [Modes -> Nat]
<1>1. NextRunId(q.mode) \in Nat /\ clock \in Nat /\ q.mode \in Modes
  BY DEF NextRunId, TypeOK, Request
<1>2. ScoreRowOf(q, NextRunId(q.mode), n) \in ScoreRow
  BY <1>1 DEF ScoreRowOf, ScoreRow, Request
<1>3. Appended(q, n) \subseteq FeedRow
  BY <1>1 DEF Appended, FeedRow, Request, TypeOK
<1>4. runs' \subseteq ScoreRow
  BY <1>2 DEF PublishRun, Unexpired, TypeOK
<1>5. feed' \subseteq FeedRow
  BY <1>3 DEF PublishRun, Newest, FeedOf
<1>6. lastRun' \in [Modes -> Nat]
  BY <1>1 DEF PublishRun, TypeOK
<1> QED BY <1>4, <1>5, <1>6

-----------------------------------------------------------------------------
(* Type correctness.                                                         *)

\* The prune workers of a process that starts are well typed.
LEMMA StartType ==
    ASSUME clock \in Nat
    PROVE  /\ StartPc \in [Pruners -> Tables \cup {"idle"}]
           /\ StartCutoff \in [Pruners -> Int]
  BY CapsAssumption DEF StartPc, StartCutoff, Tables, Expiry

\* The empty store is well typed.
LEMMA InitTypeOK == Init => TypeOK
<1> SUFFICES ASSUME Init PROVE TypeOK
  OBVIOUS
<1>1. history \in Seq(Accepted)
  BY DEF Init
<1>2. lastRun \in [Modes -> Nat]
  BY DEF Init
<1> QED BY <1>1, <1>2, StartType DEF Init, TypeOK

\* Every step keeps the types.
LEMMA NextTypeOK ==
    ASSUME TypeOK, [Next]_vars
    PROVE  TypeOK'
<1> USE DEF TypeOK
<1>1. ASSUME NEW q \in Request, Save(q)
      PROVE  TypeOK'
  <2> DEFINE n == Len(history) + 1
             h == [mode |-> q.mode, player |-> q.player, client |-> q.client,
                   body |-> q.body, publish |-> q.publish, at |-> clock]
  <2>1. n \in Nat
    OBVIOUS
  <2>2. h \in Accepted
    BY DEF Accepted, Request
  <2>3. history' \in Seq(Accepted)
    BY <1>1, <2>2 DEF Save
  <2>4. receipts' \subseteq ReceiptRow
    BY <1>1, <2>1, AddReceiptType DEF Save
  <2>5. bests' \subseteq ScoreRow
    BY <1>1, <2>1, UpsertBestType DEF Save
  <2>6. runs' \subseteq ScoreRow /\ feed' \subseteq FeedRow
           /\ lastRun' \in [Modes -> Nat]
    <3>1. CASE q.publish
      BY <1>1, <2>1, <3>1, PublishRunType DEF Save
    <3>2. CASE ~q.publish
      BY <1>1, <3>2 DEF Save, Unexpired
    <3> QED BY <3>1, <3>2
  <2> QED BY <1>1, <2>3, <2>4, <2>5, <2>6 DEF Save
<1>2. ASSUME NEW p \in Players, Erase(p)
      PROVE  TypeOK'
  BY <1>2 DEF Erase
<1>3. ASSUME NEW w \in Pruners, StartPrune(w)
      PROVE  TypeOK'
  BY <1>3, CapsAssumption DEF StartPrune, Expiry, Tables
<1>4. ASSUME NEW w \in Pruners, PruneDrillRuns(w)
      PROVE  TypeOK'
  BY <1>4 DEF PruneDrillRuns, PruneRuns, Unexpired, Tables
<1>5. ASSUME NEW w \in Pruners, PruneArcadeRuns(w)
      PROVE  TypeOK'
  BY <1>5 DEF PruneArcadeRuns, PruneRuns, Unexpired, Tables
<1>6. ASSUME NEW w \in Pruners, PruneFeed(w)
      PROVE  TypeOK'
  BY <1>6 DEF PruneFeed, UnexpiredFeed, Leave
<1>7. ASSUME NEW w \in Pruners, AbandonPrune(w)
      PROVE  TypeOK'
  BY <1>7 DEF AbandonPrune, Leave
<1>8. CASE Restart
  BY <1>8, StartType DEF Restart
<1>9. CASE Tick
  BY <1>9 DEF Tick
<1>10. CASE UNCHANGED vars
  BY <1>10 DEF vars
<1> QED
  BY <1>1, <1>2, <1>3, <1>4, <1>5, <1>6, <1>7, <1>8, <1>9, <1>10
  DEF Next, PruneStep

\* Every variable keeps its type in every reachable state.
THEOREM TypeCorrect == Spec => []TypeOK
  BY InitTypeOK, NextTypeOK, PTL DEF Spec

-----------------------------------------------------------------------------
(* What a save does to the history and to the rows, step by step.            *)

\* The submission a save appends to the history.
Entry(q) == [mode |-> q.mode, player |-> q.player, client |-> q.client,
             body |-> q.body, publish |-> q.publish, at |-> clock]

\* A save appends its own submission and leaves the earlier ones as they were.
LEMMA SaveHistory ==
    ASSUME TypeOK, NEW q \in Request, Save(q)
    PROVE  /\ Len(history) + 1 \in Nat
           /\ DOMAIN history' = DOMAIN history \cup {Len(history) + 1}
           /\ Len(history) + 1 \notin DOMAIN history
           /\ \A i \in DOMAIN history : i <= Len(history)
           /\ history'[Len(history) + 1] = Entry(q)
           /\ \A i \in DOMAIN history : history'[i] = history[i]
<1>1. history \in Seq(Accepted) /\ Entry(q) \in Accepted
  BY DEF TypeOK, Accepted, Entry, Request
<1>2. history' = Append(history, Entry(q))
  BY DEF Save, Entry
<1> QED BY <1>1, <1>2

\* It adds at most its own receipt, best and run rows.
LEMMA SaveRows ==
    ASSUME TypeOK, NEW q \in Request, Save(q),
           NEW n, n = Len(history) + 1
    PROVE  /\ \A r \in receipts' :
                 r \in receipts
                 \/ r = [id |-> n, mode |-> q.mode, player |-> q.player,
                         client |-> q.client, body |-> q.body,
                         publish |-> q.publish]
           /\ \A b \in bests' : b \in bests \/ \E id : b = ScoreRowOf(q, id, n)
           /\ \A r \in runs' :
                 \/ r \in runs
                 \/ q.publish /\ r = ScoreRowOf(q, NextRunId(q.mode), n)
<1>1. receipts' = AddReceipt(q, n) /\ bests' = UpsertBest(q, n)
  BY DEF Save
<1>2. \A r \in receipts' :
         r \in receipts
         \/ r = [id |-> n, mode |-> q.mode, player |-> q.player,
                 client |-> q.client, body |-> q.body, publish |-> q.publish]
  BY <1>1 DEF AddReceipt, Newest, ReceiptsOf
<1>3. \A b \in bests' : b \in bests \/ \E id : b = ScoreRowOf(q, id, n)
  BY <1>1 DEF UpsertBest
<1>4. \A r \in runs' :
         \/ r \in runs
         \/ q.publish /\ r = ScoreRowOf(q, NextRunId(q.mode), n)
  BY DEF Save, PublishRun, Unexpired
<1> QED BY <1>2, <1>3, <1>4

\* The newest n rows of a finite table with distinct natural ids are at most n:
\* the number of rows above a row tells the newest ones apart.
LEMMA NewestBounded ==
    ASSUME NEW S, IsFiniteSet(S), NEW n \in Nat,
           \A r \in S : r.id \in Nat,
           \A r, s \in S : r.id = s.id => r = s
    PROVE  Cardinality(Newest(S, n)) <= n
<1> DEFINE Above(r) == {s \in S : s.id > r.id}
           f == [r \in Newest(S, n) |-> Cardinality(Above(r))]
<1>1. \A r \in S : IsFiniteSet(Above(r)) /\ Cardinality(Above(r)) \in Nat
  BY FS_Subset, FS_CardinalityType
<1>2. \A r \in Newest(S, n) : f[r] \in 0 .. (n - 1)
  <2> SUFFICES ASSUME NEW r \in Newest(S, n)
               PROVE  Cardinality(Above(r)) \in 0 .. (n - 1)
    OBVIOUS
  <2>1. r \in S /\ Cardinality(Above(r)) < n
    BY DEF Newest
  <2>2. Cardinality(Above(r)) \in Nat
    BY <1>1, <2>1
  <2> HIDE DEF Above
  <2> QED BY <2>1, <2>2
<1>3. ASSUME NEW r \in Newest(S, n), NEW s \in Newest(S, n), r.id > s.id
      PROVE  f[r] # f[s]
  <2>1. r \in S /\ s \in S
    BY DEF Newest
  <2>2. Above(r) \subseteq Above(s) /\ r \in Above(s) /\ r \notin Above(r)
    BY <1>3, <2>1
  <2>3. Cardinality(Above(r)) <= Cardinality(Above(s))
           /\ (Cardinality(Above(r)) = Cardinality(Above(s))
                 => Above(r) = Above(s))
    BY <1>1, <2>1, <2>2, FS_Subset
  <2> QED BY <2>2, <2>3
<1>4. f \in Injection(Newest(S, n), 0 .. (n - 1))
  <2>1. f \in [Newest(S, n) -> 0 .. (n - 1)]
    BY <1>2
  <2>2. \A r, s \in Newest(S, n) : f[r] = f[s] => r = s
    <3> SUFFICES ASSUME NEW r \in Newest(S, n), NEW s \in Newest(S, n), r # s
                 PROVE  f[r] # f[s]
      OBVIOUS
    <3>1. r \in S /\ s \in S
      BY DEF Newest
    <3>2. r.id > s.id \/ s.id > r.id
      BY <3>1
    <3> HIDE DEF f
    <3> QED BY <1>3, <3>2
  <2> QED BY <2>1, <2>2 DEF Injection, IsInjective
<1>5. IsFiniteSet(0 .. (n - 1)) /\ Cardinality(0 .. (n - 1)) = n
  BY FS_Interval
<1> HIDE DEF f
<1> QED BY <1>4, <1>5, FS_Injection

-----------------------------------------------------------------------------
(* The ledger is inductive.                                                  *)

\* The empty store agrees with an empty history.
LEMMA InitLedger == Init => Ledger
<1> SUFFICES ASSUME Init PROVE Ledger
  OBVIOUS
<1>1. PrunersLag
  BY CapsAssumption DEF Init, PrunersLag, StartPc, StartCutoff, Expiry
<1>2. PassProgress
  BY DEF Init, PassProgress
<1>3. FeedLedger
  BY DEF Init, FeedLedger
<1>4. RunLedger
  BY DEF Init, RunLedger
<1>5. FeedBounded
  <2>1. \A p \in Players : FeedOf(feed, p) = {}
    BY DEF Init, FeedOf
  <2>2. IsFiniteSet({}) /\ Cardinality({}) = 0
    BY FS_EmptySet
  <2>3. feed = {} /\ 0 <= RunCap
    BY CapsAssumption DEF Init
  <2> QED BY <2>1, <2>2, <2>3 DEF FeedBounded
<1>6. ProofsAreAccepted
  BY DEF Init, ProofsAreAccepted
<1>7. EraseComplete
  BY DEF Init, EraseComplete
<1> QED BY <1>1, <1>2, <1>3, <1>4, <1>5, <1>6, <1>7 DEF Ledger

\* The new row of the feed order when q is published as the n-th submission.
NewFeedRow(q, n) == [id |-> n, mode |-> q.mode, player |-> q.player,
                     run |-> NextRunId(q.mode), at |-> clock]

\* Publishing keeps the feed order one row per submission and per run: run ids
\* never come back, because the sequence is above every one of them.
LEMMA AppendedLedger ==
    ASSUME TypeOK, Ledger, NEW q \in Request, NEW n, n = Len(history) + 1
    PROVE  /\ NewFeedRow(q, n) \in FeedRow
           /\ Appended(q, n) = feed \cup {NewFeedRow(q, n)}
           /\ Appended(q, n) \subseteq FeedRow
           /\ \A f, g \in Appended(q, n) :
                 f.mode = g.mode /\ f.run = g.run => f = g
           /\ \A f, g \in Appended(q, n) : f.id = g.id => f = g
           /\ IsFiniteSet(Appended(q, n))
<1>1. NewFeedRow(q, n) \in FeedRow
  BY DEF NewFeedRow, NextRunId, FeedRow, TypeOK, Request
<1>2. Appended(q, n) = feed \cup {NewFeedRow(q, n)}
  BY DEF Appended, NewFeedRow
<1>3. \A f \in feed : f.id < n
  BY DEF Ledger, FeedLedger, TypeOK
<1>4. \A f \in feed : f.mode = q.mode => f.run < NextRunId(q.mode)
  BY DEF Ledger, FeedLedger, TypeOK, FeedRow, NextRunId, Request
<1>5. n \in Nat
  BY DEF TypeOK
<1>6. \A f \in feed : f.id # NewFeedRow(q, n).id
  BY <1>3, <1>5 DEF NewFeedRow, TypeOK, FeedRow
<1>7. \A f \in feed : ~(/\ f.mode = NewFeedRow(q, n).mode
                        /\ f.run = NewFeedRow(q, n).run)
  BY <1>4, <1>1 DEF NewFeedRow, TypeOK, FeedRow
<1>8. IsFiniteSet(Appended(q, n))
  BY <1>2, FS_AddElement DEF Ledger, FeedBounded
<1> QED BY <1>1, <1>2, <1>6, <1>7, <1>8 DEF Ledger, FeedLedger, TypeOK

\* Deleting feed rows keeps the feed order within its bound.
LEMMA FeedSubset ==
    ASSUME FeedBounded, feed' \subseteq feed
    PROVE  FeedBounded'
<1>1. IsFiniteSet(feed')
  BY FS_Subset DEF FeedBounded
<1>2. ASSUME NEW p \in Players
      PROVE  Cardinality(FeedOf(feed', p)) <= RunCap
  <2>1. FeedOf(feed', p) \subseteq FeedOf(feed, p)
    BY DEF FeedOf
  <2>2. IsFiniteSet(FeedOf(feed, p))
    BY FS_Subset DEF FeedOf, FeedBounded
  <2>3. /\ Cardinality(FeedOf(feed', p)) <= Cardinality(FeedOf(feed, p))
        /\ Cardinality(FeedOf(feed', p)) \in Nat
        /\ Cardinality(FeedOf(feed, p)) \in Nat
    BY <2>1, <2>2, FS_Subset, FS_CardinalityType
  <2> QED BY <2>3, CapsAssumption DEF FeedBounded
<1>3. \A p \in Players : FeedOf(feed, p)' = FeedOf(feed', p)
  BY DEF FeedOf
<1> QED BY <1>1, <1>2, <1>3 DEF FeedBounded

\* A save keeps the ledger.
LEMMA SaveLedger ==
    ASSUME TypeOK, Ledger, NEW q \in Request, Save(q)
    PROVE  Ledger'
<1> DEFINE n == Len(history) + 1
<1>h. /\ n \in Nat
      /\ DOMAIN history' = DOMAIN history \cup {n}
      /\ n \notin DOMAIN history
      /\ history'[n] = Entry(q)
      /\ \A i \in DOMAIN history : history'[i] = history[i]
  BY SaveHistory
<1>r. /\ \A r \in receipts' :
            r \in receipts
            \/ r = [id |-> n, mode |-> q.mode, player |-> q.player,
                    client |-> q.client, body |-> q.body,
                    publish |-> q.publish]
      /\ \A b \in bests' : b \in bests \/ \E id : b = ScoreRowOf(q, id, n)
      /\ \A r \in runs' :
            \/ r \in runs
            \/ q.publish /\ r = ScoreRowOf(q, NextRunId(q.mode), n)
  BY SaveRows
<1>u. /\ clock' = clock /\ live' = live /\ pc' = pc /\ cutoff' = cutoff
      /\ q.player \in live
  BY DEF Save, Insertable
<1>a. /\ NewFeedRow(q, n) \in FeedRow
      /\ Appended(q, n) = feed \cup {NewFeedRow(q, n)}
      /\ Appended(q, n) \subseteq FeedRow
      /\ \A f, g \in Appended(q, n) :
            f.mode = g.mode /\ f.run = g.run => f = g
      /\ \A f, g \in Appended(q, n) : f.id = g.id => f = g
      /\ IsFiniteSet(Appended(q, n))
  BY AppendedLedger
<1>f. feed' \subseteq Appended(q, n)
  BY <1>a DEF Save, PublishRun, Newest, FeedOf
<1>p. ~q.publish => feed' = feed /\ lastRun' = lastRun
  BY DEF Save
<1>s. q.publish => lastRun' = [lastRun EXCEPT ![q.mode] = NextRunId(q.mode)]
  BY DEF Save, PublishRun
<1> HIDE DEF n
<1>1. PrunersLag'
  BY <1>u DEF Ledger, PrunersLag, Expiry
<1>2. PassProgress'
  <2>1. \A w \in Pruners : pc[w] # "idle" => cutoff[w] <= clock
    BY CapsAssumption DEF Ledger, PrunersLag, Expiry, TypeOK
  <2>2. \A r \in runs' : r \in runs \/ r.at = clock
    BY <1>r DEF ScoreRowOf
  <2> QED BY <1>u, <2>1, <2>2 DEF Ledger, PassProgress, TypeOK
<1>3. FeedLedger'
  <2>1. ASSUME NEW f \in feed'
        PROVE  /\ f.id \in DOMAIN history'
               /\ history'[f.id].publish
               /\ f.mode = history'[f.id].mode
               /\ f.player = history'[f.id].player
               /\ f.at = history'[f.id].at
               /\ f.run <= lastRun'[f.mode]
    <3>1. CASE f \in feed
      <4>1. lastRun[f.mode] <= lastRun'[f.mode]
        BY <1>p, <1>s, <3>1 DEF TypeOK, FeedRow, NextRunId, Request
      <4>2. lastRun[f.mode] \in Nat /\ lastRun'[f.mode] \in Nat /\ f.run \in Nat
        BY <1>p, <1>s, <3>1 DEF TypeOK, FeedRow, NextRunId, Request
      <4> QED BY <1>h, <3>1, <4>1, <4>2 DEF Ledger, FeedLedger
    <3>2. CASE f = NewFeedRow(q, n) /\ q.publish
      BY <1>h, <1>s, <3>2 DEF NewFeedRow, Entry, NextRunId, TypeOK, Request
    <3> QED BY <1>a, <1>f, <1>p, <3>1, <3>2
  <2> QED BY <2>1, <1>a, <1>f DEF FeedLedger
<1>4. RunLedger'
  <2> SUFFICES ASSUME NEW r \in runs'
               PROVE  \E f \in feed' : /\ f.mode = r.mode /\ f.run = r.id
                                       /\ f.player = r.player /\ f.at = r.at
                                       /\ f.id = r.receipt
    BY DEF RunLedger
  <2>1. CASE ~q.publish
    BY <1>p, <1>r, <2>1 DEF Ledger, RunLedger
  <2>2. CASE q.publish
    <3> DEFINE mine   == FeedOf(Appended(q, n), q.player)
               newest == Newest(mine, RunCap)
    <3>1. feed' = (Appended(q, n) \ mine) \cup newest
      BY <2>2 DEF Save, PublishRun, n
    <3>2. r.player # q.player
             \/ \E f \in newest : f.mode = r.mode /\ f.run = r.id
      BY <2>2 DEF Save, PublishRun, n
    <3>3. \E f \in Appended(q, n) :
             /\ f.mode = r.mode /\ f.run = r.id /\ f.player = r.player
             /\ f.at = r.at /\ f.id = r.receipt
      <4>1. CASE r \in runs
        BY <1>a, <4>1 DEF Ledger, RunLedger
      <4>2. CASE r = ScoreRowOf(q, NextRunId(q.mode), n)
        BY <1>a, <4>2 DEF ScoreRowOf, NewFeedRow
      <4> QED BY <1>r, <4>1, <4>2
    <3>4. PICK f \in Appended(q, n) :
             /\ f.mode = r.mode /\ f.run = r.id /\ f.player = r.player
             /\ f.at = r.at /\ f.id = r.receipt
      BY <3>3
    <3>5. f \in feed'
      <4>1. CASE r.player # q.player
        BY <3>1, <3>4, <4>1 DEF FeedOf
      <4>2. CASE \E g \in newest : g.mode = r.mode /\ g.run = r.id
        <5>1. PICK g \in newest : g.mode = r.mode /\ g.run = r.id
          BY <4>2
        <5>2. g \in Appended(q, n)
          BY DEF Newest, FeedOf
        <5>3. f = g
          BY <1>a, <3>4, <5>1, <5>2
        <5> QED BY <3>1, <5>3
      <4> QED BY <3>2, <4>1, <4>2
    <3> QED BY <3>4, <3>5
  <2> QED BY <2>1, <2>2
<1>5. FeedBounded'
  <2>1. IsFiniteSet(feed')
    BY <1>a, <1>f, FS_Subset
  <2>2. ASSUME NEW p \in Players
        PROVE  Cardinality(FeedOf(feed', p)) <= RunCap
    <3>1. CASE ~q.publish
      BY <1>p, <3>1 DEF Ledger, FeedBounded
    <3>2. CASE q.publish /\ p = q.player
      <4> DEFINE mine == FeedOf(Appended(q, n), p)
      <4>1. FeedOf(feed', p) = Newest(mine, RunCap)
        BY <3>2 DEF Save, PublishRun, Newest, FeedOf, n
      <4>2. IsFiniteSet(mine)
        BY <1>a, FS_Subset DEF FeedOf
      <4>3. mine \subseteq Appended(q, n)
        BY DEF FeedOf
      <4>4. /\ \A f \in mine : f.id \in Nat
            /\ \A f, g \in mine : f.id = g.id => f = g
        BY <1>a, <4>3 DEF FeedRow
      <4> HIDE DEF mine
      <4> QED BY <4>1, <4>2, <4>4, NewestBounded, CapsAssumption
    <3>3. CASE q.publish /\ p # q.player
      <4> DEFINE mine   == FeedOf(Appended(q, n), q.player)
                 newest == Newest(mine, RunCap)
      <4>2. feed' = (Appended(q, n) \ mine) \cup newest
        BY <3>3 DEF Save, PublishRun, n
      <4>3. newest \subseteq mine /\ mine \subseteq Appended(q, n)
        BY DEF Newest, FeedOf
      <4>4. \A f \in Appended(q, n) : f \in mine <=> f.player = q.player
        BY DEF FeedOf
      <4>5. NewFeedRow(q, n).player = q.player
        BY DEF NewFeedRow
      <4> HIDE DEF mine, newest
      <4>6. ASSUME NEW f \in feed', f.player = p
            PROVE  f \in feed
        BY <1>a, <1>f, <3>3, <4>5, <4>6
      <4>7. ASSUME NEW f \in feed, f.player = p
            PROVE  f \in feed'
        BY <1>a, <3>3, <4>2, <4>4, <4>7
      <4>1. FeedOf(feed', p) = FeedOf(feed, p)
        BY <4>6, <4>7 DEF FeedOf
      <4> QED BY <4>1 DEF Ledger, FeedBounded
    <3> QED BY <3>1, <3>2, <3>3
  <2>3. \A p \in Players : FeedOf(feed, p)' = FeedOf(feed', p)
    BY DEF FeedOf
  <2> QED BY <2>1, <2>2, <2>3 DEF FeedBounded
<1>6. ProofsAreAccepted'
  <2>1. \A r \in receipts' : Claims(r, r.id)'
    BY <1>h, <1>r DEF Ledger, ProofsAreAccepted, Claims, Entry
  <2>2. \A r \in runs' \cup bests' :
           Claims(r, r.receipt)' /\ r.at = history'[r.receipt].at
    BY <1>h, <1>r DEF Ledger, ProofsAreAccepted, Claims, Entry, ScoreRowOf
  <2>3. \A r \in runs' : r.publish
    BY <1>r DEF Ledger, ProofsAreAccepted, ScoreRowOf
  <2> QED BY <2>1, <2>2, <2>3 DEF ProofsAreAccepted
<1>7. EraseComplete'
  <2>1. \A r \in receipts' \cup runs' \cup bests' : r.player \in live
    BY <1>r, <1>u DEF Ledger, EraseComplete, ScoreRowOf
  <2>2. \A f \in feed' : f.player \in live
    BY <1>a, <1>f, <1>u DEF Ledger, EraseComplete, NewFeedRow
  <2> QED BY <1>u, <2>1, <2>2 DEF EraseComplete
<1> QED BY <1>1, <1>2, <1>3, <1>4, <1>5, <1>6, <1>7 DEF Ledger

\* So does erasure: what it removes, it removes from every table alike.
LEMMA EraseLedger ==
    ASSUME TypeOK, Ledger, NEW p \in Players, Erase(p)
    PROVE  Ledger'
<1> USE DEF Erase, Ledger
<1>1. PrunersLag'
  BY DEF PrunersLag, Expiry
<1>2. PassProgress'
  BY DEF PassProgress
<1>3. FeedLedger'
  BY DEF FeedLedger
<1>4. RunLedger'
  BY DEF RunLedger
<1>5. FeedBounded'
  <2>1. feed' \subseteq feed
    OBVIOUS
  <2> QED BY <2>1, FeedSubset
<1>6. ProofsAreAccepted'
  BY DEF ProofsAreAccepted, Claims
<1>7. EraseComplete'
  BY DEF EraseComplete
<1> QED BY <1>1, <1>2, <1>3, <1>4, <1>5, <1>6, <1>7

\* A run table's step of a retention pass.
LEMMA PruneRunsLedger ==
    ASSUME TypeOK, Ledger, NEW w \in Pruners,
           PruneDrillRuns(w) \/ PruneArcadeRuns(w)
    PROVE  Ledger'
<1> USE DEF Ledger
<1>1. PICK m \in {"endless", "arcade"}, table \in Tables, next \in Tables :
         /\ PruneRuns(w, m, table, next)
         /\ m = "endless" => table = "drill_runs" /\ next = "arcade_runs"
         /\ m = "arcade" => table = "arcade_runs" /\ next = "drill_feed_order"
  BY DEF PruneDrillRuns, PruneArcadeRuns, Tables
<1>2. /\ pc[w] = table /\ pc' = [pc EXCEPT ![w] = next]
      /\ runs' = Unexpired(m, cutoff[w])
      /\ UNCHANGED <<clock, live, receipts, bests, feed, lastRun, history,
                     cutoff, serving>>
  BY <1>1 DEF PruneRuns
<1>3. runs' \subseteq runs
  BY <1>2 DEF Unexpired
<1>4. PrunersLag'
  BY <1>1, <1>2 DEF PrunersLag, Expiry, TypeOK
<1>5. PassProgress'
  <2> SUFFICES ASSUME NEW v \in Pruners, NEW r \in runs', r.at < cutoff[v]
               PROVE  /\ pc'[v] = "arcade_runs" => r.mode # "endless"
                      /\ pc'[v] # "drill_feed_order"
    BY <1>2 DEF PassProgress
  <2>1. CASE v # w
    BY <1>2, <1>3, <2>1 DEF PassProgress, TypeOK
  <2>2. CASE v = w
    <3>1. pc'[v] = next
      BY <1>2, <2>2 DEF TypeOK
    <3>2. r.mode # m
      <4>1. r.at \in Int /\ cutoff[v] \in Int
        BY <1>3 DEF TypeOK, ScoreRow
      <4> QED BY <1>2, <2>2, <4>1 DEF Unexpired
    <3>3. r.mode \in {"endless", "arcade"}
      BY <1>3, ModesAssumption DEF TypeOK, ScoreRow
    <3>4. m = "arcade" => r.mode # "endless"
      BY <1>1, <1>2, <1>3, <2>2 DEF PassProgress
    <3> QED BY <1>1, <3>1, <3>2, <3>3, <3>4
  <2> QED BY <2>1, <2>2
<1>6. FeedLedger'
  BY <1>2 DEF FeedLedger
<1>7. RunLedger'
  BY <1>2, <1>3 DEF RunLedger
<1>8. FeedBounded'
  BY <1>2, FeedSubset
<1>9. ProofsAreAccepted'
  BY <1>2, <1>3 DEF ProofsAreAccepted, Claims
<1>10. EraseComplete'
  BY <1>2, <1>3 DEF EraseComplete
<1> QED BY <1>4, <1>5, <1>6, <1>7, <1>8, <1>9, <1>10

\* The last step of a pass takes away only feed rows whose runs the pass has
\* already deleted: this is where the order of the three statements matters.
LEMMA PruneFeedLedger ==
    ASSUME TypeOK, Ledger, NEW w \in Pruners, PruneFeed(w)
    PROVE  Ledger'
<1> USE DEF Ledger
<1>1. /\ pc[w] = "drill_feed_order"
      /\ feed' = UnexpiredFeed(cutoff[w])
      /\ pc' = [pc EXCEPT ![w] = "idle"]
      /\ cutoff' = [cutoff EXCEPT ![w] = 0]
      /\ UNCHANGED <<clock, live, receipts, runs, bests, lastRun, history>>
  BY DEF PruneFeed, Leave
<1>2. feed' \subseteq feed
  BY <1>1 DEF UnexpiredFeed
<1>3. PrunersLag'
  BY <1>1 DEF PrunersLag, Expiry, TypeOK
<1>4. PassProgress'
  BY <1>1 DEF PassProgress, TypeOK
<1>5. FeedLedger'
  BY <1>1, <1>2 DEF FeedLedger
<1>6. RunLedger'
  <2> SUFFICES ASSUME NEW r \in runs
               PROVE  \E f \in feed' : /\ f.mode = r.mode /\ f.run = r.id
                                       /\ f.player = r.player /\ f.at = r.at
                                       /\ f.id = r.receipt
    BY <1>1 DEF RunLedger
  <2>1. PICK f \in feed : /\ f.mode = r.mode /\ f.run = r.id
                          /\ f.player = r.player /\ f.at = r.at
                          /\ f.id = r.receipt
    BY DEF RunLedger
  <2>2. ~(r.at < cutoff[w])
    BY <1>1 DEF PassProgress
  <2>3. f.at >= cutoff[w]
    BY <2>1, <2>2 DEF TypeOK, ScoreRow
  <2> QED BY <1>1, <2>1, <2>3 DEF UnexpiredFeed
<1>7. FeedBounded'
  BY <1>2, FeedSubset
<1>8. ProofsAreAccepted'
  BY <1>1 DEF ProofsAreAccepted, Claims
<1>9. EraseComplete'
  BY <1>1, <1>2 DEF EraseComplete
<1> QED BY <1>3, <1>4, <1>5, <1>6, <1>7, <1>8, <1>9

\* Every step keeps the ledger.
LEMMA NextLedger ==
    ASSUME TypeOK, Ledger, [Next]_vars
    PROVE  Ledger'
<1> DEFINE rest == <<live, receipts, runs, bests, feed, lastRun, history>>
<1>1. ASSUME UNCHANGED rest, PrunersLag', PassProgress'
      PROVE  Ledger'
  <2>1. FeedBounded'
    BY <1>1, FeedSubset DEF Ledger
  <2> QED
    BY <1>1, <2>1 DEF Ledger, FeedLedger, RunLedger, ProofsAreAccepted, Claims,
                      EraseComplete
<1>2. ASSUME NEW q \in Request, Save(q)
      PROVE  Ledger'
  BY <1>2, SaveLedger
<1>3. ASSUME NEW p \in Players, Erase(p)
      PROVE  Ledger'
  BY <1>3, EraseLedger
<1>4. ASSUME NEW w \in Pruners, StartPrune(w)
      PROVE  Ledger'
  <2>1. PrunersLag'
    BY <1>4, CapsAssumption
    DEF StartPrune, Ledger, PrunersLag, Expiry, TypeOK
  <2>2. \A v \in Pruners : pc'[v] # "drill_runs" =>
                              pc'[v] = pc[v] /\ cutoff'[v] = cutoff[v]
    BY <1>4 DEF StartPrune, TypeOK
  <2>3. PassProgress'
    BY <1>4, <2>2 DEF StartPrune, Ledger, PassProgress
  <2> QED BY <1>1, <1>4, <2>1, <2>3 DEF StartPrune
<1>5. ASSUME NEW w \in Pruners, PruneStep(w)
      PROVE  Ledger'
  BY <1>5, PruneRunsLedger, PruneFeedLedger DEF PruneStep
<1>6. ASSUME NEW w \in Pruners, AbandonPrune(w)
      PROVE  Ledger'
  <2>1. PrunersLag' /\ PassProgress'
    BY <1>6 DEF AbandonPrune, Leave, Ledger, PrunersLag, PassProgress, Expiry,
                TypeOK
  <2> QED BY <1>1, <1>6, <2>1 DEF AbandonPrune
<1>7. CASE Restart
  <2>1. PrunersLag'
    BY <1>7, CapsAssumption
    DEF Restart, PrunersLag, StartPc, StartCutoff, Expiry, TypeOK
  <2>2. PassProgress'
    BY <1>7 DEF Restart, PassProgress, StartPc
  <2> QED BY <1>1, <1>7, <2>1, <2>2 DEF Restart
<1>8. CASE Tick
  <2>1. PrunersLag'
    BY <1>8, CapsAssumption DEF Tick, Ledger, PrunersLag, Expiry, TypeOK
  <2>2. PassProgress'
    BY <1>8 DEF Tick, Ledger, PassProgress
  <2> QED BY <1>1, <1>8, <2>1, <2>2 DEF Tick
<1>9. CASE UNCHANGED vars
  <2>1. PrunersLag' /\ PassProgress'
    BY <1>9 DEF vars, Ledger, PrunersLag, PassProgress, Expiry
  <2> QED BY <1>1, <1>9, <2>1 DEF vars
<1> QED
  BY <1>2, <1>3, <1>4, <1>5, <1>6, <1>7, <1>8, <1>9 DEF Next

\* The ledger holds in every reachable state.
THEOREM LedgerInvariant == Spec => []Ledger
<1>1. Init => TypeOK /\ Ledger
  BY InitTypeOK, InitLedger
<1>2. TypeOK /\ Ledger /\ [Next]_vars => (TypeOK /\ Ledger)'
  BY NextTypeOK, NextLedger
<1> QED BY <1>1, <1>2, PTL DEF Spec

-----------------------------------------------------------------------------
(* What the ledger gives.                                                    *)

\* Every published run is in the shared feed order, whatever interleaving of
\* saves, passes, erasures and restarts led here.
THEOREM RunsIndexedInvariant == Spec => []RunsIndexed
<1>1. Ledger => RunsIndexed
  BY DEF Ledger, RunLedger, RunsIndexed
<1> QED BY <1>1, LedgerInvariant, PTL

\* No row outlives its player.
THEOREM EraseCompleteInvariant == Spec => []EraseComplete
<1>1. Ledger => EraseComplete
  BY DEF Ledger
<1> QED BY <1>1, LedgerInvariant, PTL

\* Every row that can answer a retry names a submission accepted with that key,
\* body and route.
THEOREM ProofsAreAcceptedInvariant == Spec => []ProofsAreAccepted
<1>1. Ledger => ProofsAreAccepted
  BY DEF Ledger
<1> QED BY <1>1, LedgerInvariant, PTL

\* A submission found fresh by the lookups never breaks a UNIQUE index.
THEOREM NoUniqueClashInvariant == Spec => []NoUniqueClash
<1>1. TypeOK /\ Ledger => NoUniqueClash
  <2> SUFFICES ASSUME TypeOK, Ledger, NEW q \in Request,
                      Verdict(q) = "created", UniqueClash(q)
               PROVE  FALSE
    BY DEF NoUniqueClash
  <2>1. RunsOf(q) = {}
    BY DEF Verdict, Answer
  <2>2. ~ \E r \in Unexpired(q.mode, Expiry) : SameKey(r, q)
    BY <2>1 DEF RunsOf, Unexpired
  <2>3. ~ \E f \in feed : f.mode = q.mode /\ f.run = NextRunId(q.mode)
    BY DEF Ledger, FeedLedger, NextRunId, TypeOK, FeedRow, Request
  <2> QED BY <2>2, <2>3 DEF UniqueClash
<1> QED BY <1>1, TypeCorrect, LedgerInvariant, PTL

\* No player ever has more than RunCap runs over both modes: the runs are told
\* apart by their places in the feed order, which is bounded.
THEOREM CapAcrossModesInvariant == Spec => []CapAcrossModes
<1>1. TypeOK /\ Ledger => CapAcrossModes
  <2> SUFFICES ASSUME TypeOK, Ledger, NEW p \in Players
               PROVE  Cardinality({r \in runs : r.player = p}) <= RunCap
    BY DEF CapAcrossModes
  <2> DEFINE R == {r \in runs : r.player = p}
             F == FeedOf(feed, p)
             place == [r \in R |-> CHOOSE f \in F : f.id = r.receipt]
  <2>1. \A r \in R : \E f \in F : f.id = r.receipt /\ f.mode = r.mode
                                     /\ f.run = r.id
    BY DEF Ledger, RunLedger, FeedOf
  <2>2. \A r \in R : place[r] \in F /\ place[r].id = r.receipt
                        /\ place[r].run = r.id
    <3> SUFFICES ASSUME NEW r \in R
                 PROVE  place[r] \in F /\ place[r].id = r.receipt
                           /\ place[r].run = r.id
      OBVIOUS
    <3>1. PICK f \in F : f.id = r.receipt /\ f.run = r.id
      BY <2>1
    <3>2. place[r] \in F /\ place[r].id = r.receipt
      BY <3>1
    <3>3. place[r] = f
      BY <3>1, <3>2 DEF Ledger, FeedLedger, FeedOf
    <3> QED BY <3>1, <3>2, <3>3
  <2> HIDE DEF place
  <2>3. ASSUME NEW r \in R, NEW s \in R, place[r] = place[s]
        PROVE  r = s
    <3>1. r.receipt = s.receipt /\ r.id = s.id
      BY <2>2, <2>3
    <3>2. Claims(r, r.receipt) /\ Claims(s, r.receipt) /\ r.at = s.at
      BY <3>1 DEF Ledger, ProofsAreAccepted
    <3>3. /\ r.mode = s.mode /\ r.player = s.player /\ r.client = s.client
          /\ r.body = s.body /\ r.publish = s.publish
      BY <3>2 DEF Claims
    <3>4. r \in ScoreRow /\ s \in ScoreRow
      BY DEF TypeOK
    <3> QED BY <3>1, <3>2, <3>3, <3>4, ScoreRowEqual
  <2>4. place \in [R -> F]
    BY <2>2 DEF place
  <2>5. place \in Injection(R, F)
    BY <2>3, <2>4 DEF Injection, IsInjective
  <2>6. IsFiniteSet(F) /\ Cardinality(F) <= RunCap
    BY FS_Subset DEF Ledger, FeedBounded, FeedOf
  <2>7. Cardinality(R) <= Cardinality(F) /\ IsFiniteSet(R)
    BY <2>5, <2>6, FS_Injection
  <2> QED BY <2>6, <2>7, FS_CardinalityType, CapsAssumption
<1> QED BY <1>1, TypeCorrect, LedgerInvariant, PTL

-----------------------------------------------------------------------------
(* Counting over the history: the tables that hold one row per submission    *)
(* are as large as the sets of submissions they hold.                        *)

\* Rows told apart by ids from D are at most as many as D, and as many when
\* every id has its row.
LEMMA RowsByIds ==
    ASSUME NEW S, NEW D, IsFiniteSet(D),
           \A s \in S : s.id \in D,
           \A s, t \in S : s.id = t.id => s = t
    PROVE  /\ IsFiniteSet(S)
           /\ Cardinality(S) \in Nat /\ Cardinality(D) \in Nat
           /\ Cardinality(S) <= Cardinality(D)
           /\ (\A d \in D : \E s \in S : s.id = d)
                 => Cardinality(D) <= Cardinality(S)
<1> DEFINE f == [s \in S |-> s.id]
<1>1. f \in [S -> D] /\ \A s \in S : f[s] = s.id
  OBVIOUS
<1>2. f \in Injection(S, D)
  BY <1>1 DEF Injection, IsInjective
<1>3. IsFiniteSet(S) /\ Cardinality(S) <= Cardinality(D)
  BY <1>2, FS_Injection
<1>4. ASSUME \A d \in D : \E s \in S : s.id = d
      PROVE  Cardinality(D) <= Cardinality(S)
  <2>1. f \in Surjection(S, D)
    BY <1>1, <1>4 DEF Surjection
  <2> QED BY <1>3, <2>1, FS_Surjection
<1> QED BY <1>3, <1>4, FS_CardinalityType

\* The submissions are numbered from one; every set of them is finite.
LEMMA Numbered ==
    ASSUME TypeOK
    PROVE  /\ Len(history) \in Nat
           /\ DOMAIN history = 1 .. Len(history)
           /\ \A D : D \subseteq DOMAIN history =>
                 IsFiniteSet(D) /\ Cardinality(D) \in Nat
           /\ \A i \in DOMAIN history : /\ history[i] \in Accepted
                                        /\ IsFiniteSet(AcceptedSince(i))
                                        /\ Cardinality(AcceptedSince(i)) \in Nat
<1>1. Len(history) \in Nat /\ DOMAIN history = 1 .. Len(history)
  BY DEF TypeOK
<1>2. ASSUME NEW D, D \subseteq DOMAIN history
      PROVE  IsFiniteSet(D) /\ Cardinality(D) \in Nat
  <2>1. IsFiniteSet(1 .. Len(history))
    BY <1>1, FS_Interval
  <2>2. IsFiniteSet(D)
    BY <1>1, <1>2, <2>1, FS_Subset
  <2> QED BY <2>2, FS_CardinalityType
<1>3. \A i \in DOMAIN history : AcceptedSince(i) \subseteq DOMAIN history
  BY DEF AcceptedSince
<1> QED BY <1>1, <1>2, <1>3 DEF TypeOK

\* A smaller set of submissions has fewer of them.
LEMMA FewerSubmissions ==
    ASSUME NEW D, IsFiniteSet(D), NEW C, C \subseteq D
    PROVE  /\ IsFiniteSet(C)
           /\ Cardinality(C) \in Nat /\ Cardinality(D) \in Nat
           /\ Cardinality(C) <= Cardinality(D)
  BY FS_Subset, FS_CardinalityType

\* After a save the history is one longer.
LEMMA SaveNumbers ==
    ASSUME TypeOK, NEW q \in Request, Save(q), NEW n, n = Len(history) + 1
    PROVE  /\ n \in Nat /\ q.player \in live /\ live' = live /\ clock' = clock
           /\ Len(history) = n - 1 /\ Len(history') = n
           /\ DOMAIN history = 1 .. (n - 1) /\ DOMAIN history' = 1 .. n
           /\ history'[n] = Entry(q)
           /\ \A i \in DOMAIN history : history'[i] = history[i]
           /\ IsFiniteSet(1 .. n)
<1>1. n \in Nat /\ DOMAIN history = 1 .. (n - 1) /\ Len(history) = n - 1
  BY Numbered
<1>2. Len(history') = n
  BY DEF Save, TypeOK
<1>3. IsFiniteSet(1 .. n)
  BY <1>1, FS_Interval
<1> QED BY <1>1, <1>2, <1>3, SaveHistory DEF Save, Insertable

-----------------------------------------------------------------------------
(* The receipt ring.                                                         *)

\* The receipt of the n-th submission.
NewReceipt(q, n) == [id |-> n, mode |-> q.mode, player |-> q.player,
                     client |-> q.client, body |-> q.body,
                     publish |-> q.publish]

\* A ring keeps a receipt exactly when fewer than ReceiptCap submissions of its
\* player and mode came after it: every one of those left a receipt too, since
\* even fewer came after that one.
LEMMA RingKeepsNewest ==
    ASSUME TypeOK, Ledger, ReceiptRing, NEW q \in Request, Save(q),
           NEW n, n = Len(history) + 1,
           NEW r, r \in receipts \/ r = NewReceipt(q, n),
           r.mode = q.mode, r.player = q.player
    PROVE  r \in receipts' <=> Cardinality(AcceptedSince(r.id)') < ReceiptCap
<1> DEFINE added == receipts \cup {NewReceipt(q, n)}
           mine  == ReceiptsOf(added, q.mode, q.player)
           above == {s \in mine : s.id > r.id}
           since == {j \in DOMAIN history' : /\ j > r.id
                                             /\ history'[j].mode = q.mode
                                             /\ history'[j].player = q.player}
<1>h. /\ n \in Nat /\ q.player \in live
      /\ DOMAIN history = 1 .. (n - 1) /\ DOMAIN history' = 1 .. n
      /\ history'[n] = Entry(q)
      /\ \A i \in DOMAIN history : history'[i] = history[i]
  BY SaveNumbers
<1>1. /\ \A s \in mine : /\ s.id \in DOMAIN history'
                         /\ history'[s.id].mode = q.mode
                         /\ history'[s.id].player = q.player
      /\ \A s, t \in mine : s.id = t.id => s = t
  <2>1. ASSUME NEW s \in receipts
        PROVE  /\ s.id \in DOMAIN history /\ s \in ReceiptRow
               /\ Claims(s, s.id)
    BY DEF Ledger, ProofsAreAccepted, Claims, TypeOK
  <2>2. \A s \in mine : s \in receipts \/ s = NewReceipt(q, n)
    BY DEF ReceiptsOf
  <2>3. \A s \in mine : s.mode = q.mode /\ s.player = q.player
    BY DEF ReceiptsOf
  <2>4. \A s, t \in receipts : s.id = t.id => s = t
    BY <2>1 DEF Claims, ReceiptRow
  <2>5. NewReceipt(q, n).id = n
    BY DEF NewReceipt
  <2> HIDE DEF mine
  <2>6. ASSUME NEW s \in mine
        PROVE  /\ s.id \in DOMAIN history'
               /\ history'[s.id].mode = q.mode
               /\ history'[s.id].player = q.player
    <3>1. CASE s \in receipts
      BY <1>h, <2>1, <2>3, <3>1 DEF Claims
    <3>2. CASE s = NewReceipt(q, n)
      BY <1>h, <2>5, <3>2 DEF Entry
    <3> QED BY <2>2, <3>1, <3>2
  <2>7. \A s \in receipts : s.id # n
    BY <1>h, <2>1
  <2>8. \A s, t \in mine : s.id = t.id => s = t
    BY <2>2, <2>4, <2>5, <2>7
  <2> QED BY <2>6, <2>8
<1>2. r \in mine
  BY DEF ReceiptsOf
<1>3. r.id \in 1 .. n
  BY <1>1, <1>2, <1>h
<1>4. AcceptedSince(r.id)' = since
  <2>1. history'[r.id].mode = q.mode /\ history'[r.id].player = q.player
    BY <1>1, <1>2
  <2> QED BY <2>1 DEF AcceptedSince
<1>5. IsFiniteSet(since)
  <2>1. since \subseteq 1 .. n
    BY <1>h
  <2>2. IsFiniteSet(1 .. n)
    BY SaveNumbers
  <2> HIDE DEF since
  <2> QED BY <2>1, <2>2, FS_Subset
<1>6. r \in receipts' <=> Cardinality(above) < ReceiptCap
  <2>1. receipts' = (added \ mine) \cup Newest(mine, ReceiptCap)
    BY DEF Save, AddReceipt, NewReceipt
  <2> HIDE DEF mine, added
  <2> QED BY <1>2, <2>1 DEF Newest
<1>7. /\ \A s \in above : s.id \in since
      /\ \A s, t \in above : s.id = t.id => s = t
  BY <1>1
<1>8. /\ Cardinality(above) \in Nat /\ Cardinality(since) \in Nat
      /\ Cardinality(above) <= Cardinality(since)
      /\ (\A j \in since : \E s \in above : s.id = j)
            => Cardinality(since) <= Cardinality(above)
  <2> HIDE DEF above, since
  <2> QED BY <1>5, <1>7, RowsByIds
\* A kept receipt was kept before, so whatever came after it has a receipt.
<1>9. ASSUME Cardinality(above) < ReceiptCap \/ Cardinality(since) < ReceiptCap,
             r \in receipts => r \in receipts' \/ Cardinality(since) < ReceiptCap,
             NEW j \in since
      PROVE  \E s \in above : s.id = j
  <2>1. CASE j = n
    <3>1. NewReceipt(q, n) \in mine /\ NewReceipt(q, n).id = n
      BY DEF ReceiptsOf, NewReceipt
    <3> QED BY <2>1, <3>1
  <2>2. CASE j # n
    <3>1. j \in DOMAIN history /\ j > r.id
      BY <1>h, <2>2
    <3>2. r \in receipts
      BY <1>h, <3>1 DEF NewReceipt
    <3>3. Claims(r, r.id) /\ r.id \in DOMAIN history
      BY <3>2 DEF Ledger, ProofsAreAccepted, Claims
    <3>4. Cardinality(AcceptedSince(r.id)) < ReceiptCap
      BY <1>h, <3>2, <3>3 DEF ReceiptRing, Claims
    <3>5. /\ history[j].mode = q.mode /\ history[j].player = q.player
          /\ history[r.id].mode = q.mode /\ history[r.id].player = q.player
      BY <1>h, <3>1, <3>3 DEF Claims
    <3>6. AcceptedSince(j) \subseteq AcceptedSince(r.id)
      BY <1>h, <1>3, <3>1, <3>5 DEF AcceptedSince
    <3>7. Cardinality(AcceptedSince(j)) <= Cardinality(AcceptedSince(r.id))
      BY <3>3, <3>6, Numbered, FewerSubmissions
    <3>8. Cardinality(AcceptedSince(j)) < ReceiptCap
      BY <3>1, <3>3, <3>4, <3>7, Numbered, CapsAssumption
    <3>9. PICK s \in receipts : s.id = j
      BY <1>h, <3>1, <3>5, <3>8 DEF ReceiptRing
    <3>10. Claims(s, j)
      BY <3>9 DEF Ledger, ProofsAreAccepted
    <3>11. s \in mine
      BY <3>5, <3>10 DEF Claims, ReceiptsOf
    <3> QED BY <3>1, <3>9, <3>11
  <2> QED BY <2>1, <2>2
<1>10. Cardinality(above) < ReceiptCap => Cardinality(since) < ReceiptCap
  <2> SUFFICES ASSUME Cardinality(above) < ReceiptCap
               PROVE  Cardinality(since) < ReceiptCap
    OBVIOUS
  <2>1. \A j \in since : \E s \in above : s.id = j
    BY <1>6, <1>9
  <2> HIDE DEF above, since
  <2> QED BY <1>8, <2>1, CapsAssumption
<1> HIDE DEF above, since
<1> QED BY <1>4, <1>6, <1>8, <1>10, CapsAssumption

\* Whatever happens, the ring stays the newest ReceiptCap submissions of each
\* player still there, mode by mode.
LEMMA NextRing ==
    ASSUME TypeOK, Ledger, ReceiptRing, [Next]_vars
    PROVE  ReceiptRing'
<1>1. ASSUME NEW q \in Request, Save(q)
      PROVE  ReceiptRing'
  <2>n. PICK n : n = Len(history) + 1
    OBVIOUS
  <2>h. /\ n \in Nat /\ live' = live
        /\ DOMAIN history = 1 .. (n - 1) /\ DOMAIN history' = 1 .. n
        /\ history'[n] = Entry(q)
        /\ \A i \in DOMAIN history : history'[i] = history[i]
    BY <1>1, <2>n, SaveNumbers
  <2>r. \A r \in receipts' : r \in receipts \/ r = NewReceipt(q, n)
    BY <1>1, <2>n, SaveRows DEF NewReceipt
  <2>c. \A r \in receipts : r.id \in DOMAIN history /\ Claims(r, r.id)
    BY DEF Ledger, ProofsAreAccepted, Claims
  <2>k. \A r : r \in receipts \/ r = NewReceipt(q, n) =>
            (r.mode = q.mode /\ r.player = q.player =>
               (r \in receipts' <=> Cardinality(AcceptedSince(r.id)') < ReceiptCap))
    BY <1>1, <2>n, RingKeepsNewest
  <2> SUFFICES ASSUME NEW i \in DOMAIN history', history'[i].player \in live
               PROVE  (\E r \in receipts' : r.id = i)
                         <=> Cardinality(AcceptedSince(i)') < ReceiptCap
    BY <2>h DEF ReceiptRing
  <2>1. CASE i = n
    <3>1. NewReceipt(q, n).id = n /\ NewReceipt(q, n).mode = q.mode
             /\ NewReceipt(q, n).player = q.player
      BY DEF NewReceipt
    <3>2. AcceptedSince(i)' = {}
      BY <2>1, <2>h DEF AcceptedSince
    <3>3. Cardinality(AcceptedSince(i)') < ReceiptCap
      BY <3>2, FS_EmptySet, CapsAssumption
    <3>4. NewReceipt(q, n) \in receipts'
      BY <2>1, <2>k, <3>1, <3>3
    <3> QED BY <2>1, <3>1, <3>3, <3>4
  <2>2. CASE i # n /\ history[i].mode = q.mode /\ history[i].player = q.player
    <3>1. i \in DOMAIN history /\ history'[i] = history[i]
      BY <2>h, <2>2
    <3>2. ASSUME NEW r \in receipts, r.id = i
          PROVE  r \in receipts' <=> Cardinality(AcceptedSince(i)') < ReceiptCap
      BY <2>2, <2>c, <2>k, <3>2 DEF Claims
    <3>3. ASSUME NEW r \in receipts', r.id = i
          PROVE  r \in receipts
      BY <2>2, <2>r, <3>3 DEF NewReceipt
    <3>4. Cardinality(AcceptedSince(i)') < ReceiptCap
             => \E r \in receipts : r.id = i
      <4>1. AcceptedSince(i) \subseteq AcceptedSince(i)'
        BY <2>h, <3>1 DEF AcceptedSince
      <4>2. AcceptedSince(i)' \subseteq 1 .. n
        BY <2>h DEF AcceptedSince
      <4>3. IsFiniteSet(AcceptedSince(i)')
        BY <1>1, <2>n, <4>2, SaveNumbers, FS_Subset
      <4>4. /\ Cardinality(AcceptedSince(i)) <= Cardinality(AcceptedSince(i)')
            /\ Cardinality(AcceptedSince(i)) \in Nat
            /\ Cardinality(AcceptedSince(i)') \in Nat
        BY <4>1, <4>3, FewerSubmissions
      <4> QED BY <3>1, <4>4, CapsAssumption DEF ReceiptRing
    <3> QED BY <3>2, <3>3, <3>4
  <2>3. CASE i # n /\ ~(history[i].mode = q.mode /\ history[i].player = q.player)
    <3>1. i \in DOMAIN history /\ history'[i] = history[i]
      BY <2>h, <2>3
    <3>2. AcceptedSince(i)' = AcceptedSince(i)
      BY <2>3, <2>h, <3>1 DEF AcceptedSince, Entry
    <3>3. ASSUME NEW r \in receipts, r.id = i
          PROVE  r \in receipts'
      <4>1. ~(r.mode = q.mode /\ r.player = q.player)
        BY <2>3, <2>c, <3>3 DEF Claims
      <4> QED BY <1>1, <4>1 DEF Save, AddReceipt, ReceiptsOf
    <3>4. ASSUME NEW r \in receipts', r.id = i
          PROVE  r \in receipts
      BY <2>3, <2>r, <3>4 DEF NewReceipt
    <3> QED BY <3>1, <3>2, <3>3, <3>4 DEF ReceiptRing
  <2> QED BY <2>1, <2>2, <2>3
<1>2. ASSUME NEW p \in Players, Erase(p)
      PROVE  ReceiptRing'
  <2>1. /\ history' = history /\ live' = live \ {p}
        /\ receipts' = {r \in receipts : r.player # p}
    BY <1>2 DEF Erase
  <2>2. \A r \in receipts : Claims(r, r.id)
    BY DEF Ledger, ProofsAreAccepted
  <2>3. \A i \in DOMAIN history : AcceptedSince(i)' = AcceptedSince(i)
    BY <2>1 DEF AcceptedSince
  <2> QED BY <2>1, <2>2, <2>3 DEF ReceiptRing, Claims
<1>3. ASSUME UNCHANGED <<receipts, history, live>>
      PROVE  ReceiptRing'
  BY <1>3 DEF ReceiptRing, AcceptedSince
<1> QED
  BY <1>1, <1>2, <1>3
  DEF Next, StartPrune, PruneStep, PruneDrillRuns, PruneArcadeRuns, PruneRuns,
      PruneFeed, AbandonPrune, Restart, Tick, vars

\* The receipts are the newest ReceiptCap accepted submissions of each player in
\* each mode, however retries, erasures and other players' saves come between:
\* what saveWithIntent and saveArcade promise a prompt retry.
THEOREM ReceiptRingInvariant == Spec => []ReceiptRing
<1>1. Init => ReceiptRing
  BY DEF Init, ReceiptRing
<1> QED
  BY <1>1, NextRing, TypeCorrect, LedgerInvariant, PTL DEF Spec

-----------------------------------------------------------------------------
(* Retention.                                                                *)

\* A feed row is among the newest RunCap of its player when fewer than RunCap
\* publications of that player came after it.
LEMMA NewestKeepsPlace ==
    ASSUME TypeOK, Ledger, NEW q \in Request, Save(q), q.publish,
           NEW n, n = Len(history) + 1,
           NEW f, f \in Appended(q, n), f.player = q.player,
           Cardinality(PublishedSince(f.id, q.player)') < RunCap
    PROVE  f \in Newest(FeedOf(Appended(q, n), q.player), RunCap)
<1> DEFINE mine  == FeedOf(Appended(q, n), q.player)
           above == {g \in mine : g.id > f.id}
           since == {j \in DOMAIN history' : /\ j > f.id
                                             /\ history'[j].player = q.player
                                             /\ history'[j].publish}
<1>h. /\ n \in Nat
      /\ DOMAIN history = 1 .. (n - 1) /\ DOMAIN history' = 1 .. n
      /\ history'[n] = Entry(q)
      /\ \A i \in DOMAIN history : history'[i] = history[i]
  BY SaveNumbers
<1>1. PublishedSince(f.id, q.player)' = since
  BY DEF PublishedSince
<1>2. IsFiniteSet(since)
  <2>1. since \subseteq 1 .. n
    BY <1>h
  <2>2. IsFiniteSet(1 .. n)
    BY SaveNumbers
  <2> HIDE DEF since
  <2> QED BY <2>1, <2>2, FS_Subset
<1>3. ASSUME NEW g \in above
      PROVE  g.id \in since
  <2>1. g.player = q.player /\ g.id > f.id
    BY DEF FeedOf
  <2>2. g \in feed \/ g = NewFeedRow(q, n)
    BY AppendedLedger DEF FeedOf
  <2>3. CASE g \in feed
    <3>1. /\ g.id \in DOMAIN history /\ history[g.id].publish
          /\ history[g.id].player = g.player
      BY <2>3 DEF Ledger, FeedLedger
    <3> QED BY <1>h, <2>1, <3>1
  <2>4. CASE g = NewFeedRow(q, n)
    <3>1. g.id = n
      BY <2>4 DEF NewFeedRow
    <3> QED BY <1>h, <2>1, <3>1 DEF Entry
  <2> QED BY <2>2, <2>3, <2>4
<1>4. \A g, k \in above : g.id = k.id => g = k
  BY AppendedLedger DEF FeedOf
<1>5. /\ Cardinality(above) <= Cardinality(since)
      /\ Cardinality(above) \in Nat /\ Cardinality(since) \in Nat
  <2> HIDE DEF above, since
  <2> QED BY <1>2, <1>3, <1>4, RowsByIds
<1>6. Cardinality(above) < RunCap
  <2> HIDE DEF above, since
  <2> QED BY <1>1, <1>5, CapsAssumption
<1> QED BY <1>6 DEF Newest, FeedOf

\* A save deletes no run that is young and among its player's newest.
LEMMA SaveRetains ==
    ASSUME TypeOK, Ledger, NewestRetained, NEW q \in Request, Save(q)
    PROVE  NewestRetained'
<1>n. PICK n : n = Len(history) + 1
  OBVIOUS
<1>h. /\ n \in Nat /\ live' = live /\ Expiry' = Expiry
      /\ DOMAIN history = 1 .. (n - 1) /\ DOMAIN history' = 1 .. n
      /\ history'[n] = Entry(q)
      /\ \A i \in DOMAIN history : history'[i] = history[i]
  BY <1>n, SaveNumbers DEF Expiry
<1>p. q.publish => PublishRun(q, n)
  BY <1>n DEF Save
<1> SUFFICES ASSUME NEW i \in DOMAIN history',
                    history'[i].publish, history'[i].player \in live,
                    history'[i].at >= Expiry,
                    Cardinality(PublishedSince(i, history[i].player)') < RunCap
             PROVE  \E r \in runs' : r.mode = history'[i].mode /\ r.receipt = i
  BY <1>h DEF NewestRetained
<1>1. CASE i = n
  <2>1. /\ q.publish /\ history'[i].player = q.player
        /\ history'[i].mode = q.mode
    BY <1>1, <1>h DEF Entry
  <2>2. /\ NewFeedRow(q, n) \in Appended(q, n)
        /\ NewFeedRow(q, n).id = n /\ NewFeedRow(q, n).player = q.player
        /\ NewFeedRow(q, n).mode = q.mode
        /\ NewFeedRow(q, n).run = NextRunId(q.mode)
    BY <1>n, AppendedLedger DEF NewFeedRow
  <2>3. NewFeedRow(q, n) \in Newest(FeedOf(Appended(q, n), q.player), RunCap)
    BY <1>1, <1>n, <2>1, <2>2, NewestKeepsPlace
  <2>4. /\ ScoreRowOf(q, NextRunId(q.mode), n).mode = q.mode
        /\ ScoreRowOf(q, NextRunId(q.mode), n).receipt = n
        /\ ScoreRowOf(q, NextRunId(q.mode), n).id = NextRunId(q.mode)
    BY DEF ScoreRowOf
  <2>5. ScoreRowOf(q, NextRunId(q.mode), n) \in runs'
    BY <1>p, <2>1, <2>2, <2>3, <2>4 DEF PublishRun
  <2> QED BY <1>1, <2>1, <2>4, <2>5
<1>2. CASE i # n
  <2>1. i \in DOMAIN history /\ history'[i] = history[i]
    BY <1>h, <1>2
  <2>2. Cardinality(PublishedSince(i, history[i].player)) < RunCap
    <3> DEFINE before == PublishedSince(i, history[i].player)
               after  == PublishedSince(i, history[i].player)'
    <3>1. before \subseteq after /\ after \subseteq 1 .. n
      BY <1>h, <2>1 DEF PublishedSince
    <3>2. IsFiniteSet(1 .. n)
      BY <1>n, SaveNumbers
    <3>0. Cardinality(after) < RunCap
      OBVIOUS
    <3> HIDE DEF before, after
    <3>3. IsFiniteSet(after)
      BY <3>1, <3>2, FS_Subset
    <3>4. /\ Cardinality(before) <= Cardinality(after)
          /\ Cardinality(before) \in Nat /\ Cardinality(after) \in Nat
      BY <3>1, <3>3, FewerSubmissions
    <3>5. Cardinality(before) < RunCap
      BY <3>0, <3>4, CapsAssumption
    <3> QED BY <3>5 DEF before
  <2>3. PICK r \in runs : r.mode = history[i].mode /\ r.receipt = i
    BY <2>1, <2>2 DEF NewestRetained
  <2>4. /\ r.at = history[i].at /\ r.player = history[i].player
    BY <2>3 DEF Ledger, ProofsAreAccepted, Claims
  <2>5. r \in Unexpired(q.mode, Expiry)
    BY <2>1, <2>4 DEF Unexpired
  <2>6. CASE ~q.publish
    BY <2>1, <2>3, <2>5, <2>6 DEF Save
  <2>7. CASE q.publish /\ r.player # q.player
    BY <1>p, <2>1, <2>3, <2>5, <2>7 DEF PublishRun
  <2>8. CASE q.publish /\ r.player = q.player
    <3>1. PICK f \in feed : /\ f.mode = r.mode /\ f.run = r.id
                            /\ f.player = r.player /\ f.id = r.receipt
      BY <2>3 DEF Ledger, RunLedger
    <3>2. f \in Appended(q, n) /\ f.id = i /\ f.player = q.player
      BY <2>3, <2>8, <3>1 DEF Appended
    <3>3. history'[i].player = q.player
      BY <2>1, <2>4, <2>8
    <3>4. f \in Newest(FeedOf(Appended(q, n), q.player), RunCap)
      BY <1>n, <2>8, <3>2, <3>3, NewestKeepsPlace
    <3>5. r \in runs'
      BY <1>p, <2>5, <2>8, <3>1, <3>4 DEF PublishRun
    <3> QED BY <2>1, <2>3, <3>5
  <2> QED BY <2>6, <2>7, <2>8
<1> QED BY <1>1, <1>2

\* A statement of a pass deletes only runs older than a cutoff that is no later
\* than today's.
LEMMA PruneRetains ==
    ASSUME TypeOK, Ledger, NewestRetained, NEW w \in Pruners,
           NEW m \in {"endless", "arcade"}, NEW table \in Tables, NEW next,
           PruneRuns(w, m, table, next)
    PROVE  NewestRetained'
<1>1. /\ history' = history /\ live' = live /\ clock' = clock
      /\ runs' = Unexpired(m, cutoff[w])
  BY DEF PruneRuns
<1>2. cutoff[w] \in Int /\ Expiry \in Int /\ cutoff[w] <= Expiry
  BY CapsAssumption DEF Ledger, PrunersLag, PruneRuns, Tables, TypeOK, Expiry
<1>3. ASSUME NEW i \in DOMAIN history, NEW r \in runs,
             r.mode = history[i].mode, r.receipt = i, history[i].at >= Expiry
      PROVE  r \in runs'
  <2>1. r.at = history[i].at /\ history[i].at \in Nat
    BY <1>3, Numbered DEF Ledger, ProofsAreAccepted, Accepted
  <2> QED BY <1>1, <1>2, <1>3, <2>1 DEF Unexpired
<1> QED BY <1>1, <1>3 DEF NewestRetained, PublishedSince, Expiry

\* Every step lets nothing disappear early.
LEMMA NextRetains ==
    ASSUME TypeOK, Ledger, NewestRetained, [Next]_vars
    PROVE  NewestRetained'
<1>1. ASSUME NEW q \in Request, Save(q)
      PROVE  NewestRetained'
  BY <1>1, SaveRetains
<1>2. ASSUME NEW p \in Players, Erase(p)
      PROVE  NewestRetained'
  <2>1. /\ history' = history /\ live' = live \ {p} /\ clock' = clock
        /\ runs' = {r \in runs : r.player # p}
    BY <1>2 DEF Erase
  <2>2. \A r \in runs : r.player = history[r.receipt].player
    BY DEF Ledger, ProofsAreAccepted, Claims
  <2> QED BY <2>1, <2>2 DEF NewestRetained, PublishedSince, Expiry
<1>3. ASSUME NEW w \in Pruners, PruneDrillRuns(w) \/ PruneArcadeRuns(w)
      PROVE  NewestRetained'
  BY <1>3, PruneRetains DEF PruneDrillRuns, PruneArcadeRuns, Tables
<1>4. CASE Tick
  <2>1. /\ history' = history /\ live' = live /\ runs' = runs
        /\ clock \in Nat /\ clock' = clock + 1
    BY <1>4 DEF Tick, TypeOK
  <2>2. \A i \in DOMAIN history : history[i].at \in Nat
    BY Numbered DEF Accepted
  <2>3. \A i \in DOMAIN history : history[i].at >= Expiry' => history[i].at >= Expiry
    BY <2>1, <2>2, CapsAssumption DEF Expiry
  <2> QED BY <2>1, <2>3 DEF NewestRetained, PublishedSince
<1>5. ASSUME UNCHANGED <<runs, history, live, clock>>
      PROVE  NewestRetained'
  BY <1>5 DEF NewestRetained, PublishedSince, Expiry
<1> QED
  BY <1>1, <1>2, <1>3, <1>4, <1>5
  DEF Next, StartPrune, PruneStep, PruneFeed, AbandonPrune, Restart, vars

\* A published run of a player still there outlives everything but its ninety
\* days and RunCap newer runs of that player in any mode: no interleaving of
\* saves, passes, reads and restarts (saveWithIntent, saveArcade, PruneExpired)
\* takes it earlier.
THEOREM NewestRetainedInvariant == Spec => []NewestRetained
<1>1. Init => NewestRetained
  BY DEF Init, NewestRetained
<1> QED
  BY <1>1, NextRetains, TypeCorrect, LedgerInvariant, PTL DEF Spec

-----------------------------------------------------------------------------
(* The bests.                                                                *)

\* Whatever a player still there had accepted, its standing row is as good.
Covered ==
    \A i \in DOMAIN history :
        history[i].player \in live =>
            \E b \in bests : /\ SameSlot(b, history[i])
                             /\ b.body.score >= history[i].body.score

\* Standings are compared as integers, and a best row tells the truth.
LEMMA Standings ==
    ASSUME TypeOK, Ledger
    PROVE  /\ \A i \in DOMAIN history : history[i].body.score \in Int
           /\ \A b \in bests : /\ b.receipt \in DOMAIN history
                               /\ SameSlot(b, history[b.receipt])
                               /\ b.player = history[b.receipt].player
                               /\ b.body.score = history[b.receipt].body.score
           /\ \A q \in Request : q.body.score \in Int
<1>1. \A i \in DOMAIN history : history[i].body.score \in Int
  BY Numbered, ScoresAssumption DEF Accepted, Body
<1>2. \A b \in bests : Claims(b, b.receipt)
  BY DEF Ledger, ProofsAreAccepted
<1>3. \A q \in Request : q.body.score \in Int
  BY ScoresAssumption DEF Request, Body
<1> QED BY <1>1, <1>2, <1>3 DEF Claims, SameSlot

\* A submission that does not beat the standing row is not a personal best, and
\* makes none of the earlier ones less of one.
LEMMA BeatenSave ==
    ASSUME TypeOK, Ledger, BestIsMax, Covered, NEW q \in Request, Save(q),
           \E b \in Standing(q) : Stands(b, q)
    PROVE  BestIsMax' /\ Covered'
<1>n. PICK n : n = Len(history) + 1
  OBVIOUS
<1>h. /\ n \in Nat /\ live' = live /\ Len(history) = n - 1 /\ Len(history') = n
      /\ DOMAIN history = 1 .. (n - 1) /\ DOMAIN history' = 1 .. n
      /\ history'[n] = Entry(q) /\ bests' = bests
      /\ \A i \in DOMAIN history : history'[i] = history[i]
  BY <1>n, SaveNumbers DEF Save, UpsertBest
<1>1. PICK b \in Standing(q) : b.body.score >= q.body.score
  BY DEF Stands
<1>2. /\ b \in bests /\ SameSlot(b, q)
      /\ b.receipt \in 1 .. (n - 1)
      /\ b.body.score = history[b.receipt].body.score
      /\ SameSlot(b, history[b.receipt])
  BY <1>h, <1>1, Standings DEF Standing, SameSlot
<1>e. /\ Entry(q).player = q.player /\ Entry(q).body = q.body
      /\ \A h : SameSlot(h, Entry(q)) <=> SameSlot(h, q)
      /\ \A h : SameSlot(Entry(q), h) <=> SameSlot(q, h)
  BY DEF Entry, SameSlot
<1>s. /\ \A i \in 1 .. (n - 1) : history[i].body.score \in Int
      /\ q.body.score \in Int
  BY <1>h, Standings
<1>3. Covered'
  <2> SUFFICES ASSUME NEW i \in 1 .. n, history'[i].player \in live
               PROVE  \E c \in bests : /\ SameSlot(c, history'[i])
                                       /\ c.body.score >= history'[i].body.score
    BY <1>h DEF Covered
  <2>1. CASE i = n
    BY <1>1, <1>2, <1>e, <1>h, <2>1
  <2>2. CASE i # n
    BY <1>h, <2>2 DEF Covered
  <2> QED BY <2>1, <2>2
<1>4. BestIsMax'
  <2> SUFFICES ASSUME NEW i \in 1 .. n, history'[i].player \in live
               PROVE  (\E c \in bests : c.receipt = i) <=> PersonalBest(i, n)'
    BY <1>h DEF BestIsMax, PersonalBest
  <2>1. CASE i = n
    <3>1. ~ \E c \in bests : c.receipt = i
      BY <1>h, <2>1, Standings
    <3>2. SameSlot(history'[b.receipt], history'[i])
      BY <1>2, <1>e, <1>h, <2>1 DEF SameSlot
    <3>3. ~(\/ history'[b.receipt].body.score < history'[i].body.score
            \/ /\ history'[b.receipt].body.score = history'[i].body.score
               /\ b.receipt >= i)
      BY <1>1, <1>2, <1>e, <1>h, <1>s, <2>1
    <3>4. ~PersonalBest(i, n)'
      BY <1>2, <1>h, <3>2, <3>3 DEF PersonalBest
    <3> QED BY <3>1, <3>4
  <2>2. CASE i # n
    <3>1. /\ i \in 1 .. (n - 1) /\ history'[i] = history[i]
          /\ (\E c \in bests : c.receipt = i) <=> PersonalBest(i, n - 1)
      BY <1>h, <2>2 DEF BestIsMax
    <3>2. PersonalBest(i, n)' => PersonalBest(i, n - 1)
      BY <1>h, <3>1 DEF PersonalBest
    <3>3. ASSUME PersonalBest(i, n - 1), SameSlot(history'[n], history'[i])
          PROVE  \/ history'[n].body.score < history'[i].body.score
                 \/ history'[n].body.score = history'[i].body.score /\ n >= i
      <4>1. SameSlot(history[b.receipt], history[i])
        BY <1>2, <1>e, <1>h, <3>1, <3>3 DEF SameSlot
      <4>2. history[b.receipt].body.score <= history[i].body.score
        BY <1>2, <1>s, <3>1, <3>3, <4>1 DEF PersonalBest
      <4> QED BY <1>1, <1>2, <1>e, <1>h, <1>s, <3>1, <4>2
    <3>4. PersonalBest(i, n - 1) => PersonalBest(i, n)'
      BY <1>h, <3>1, <3>3 DEF PersonalBest
    <3> QED BY <3>1, <3>2, <3>4
  <2> QED BY <2>1, <2>2
<1> QED BY <1>3, <1>4

\* A submission that beats the standing row beats everything of its slot.
LEMMA BeatingSave ==
    ASSUME TypeOK, Ledger, BestIsMax, Covered, NEW q \in Request, Save(q),
           ~ \E b \in Standing(q) : Stands(b, q)
    PROVE  BestIsMax' /\ Covered'
<1>n. PICK n : n = Len(history) + 1
  OBVIOUS
<1>h. /\ n \in Nat /\ live' = live /\ Len(history) = n - 1 /\ Len(history') = n
      /\ DOMAIN history = 1 .. (n - 1) /\ DOMAIN history' = 1 .. n
      /\ history'[n] = Entry(q)
      /\ \A i \in DOMAIN history : history'[i] = history[i]
  BY <1>n, SaveNumbers
<1>1. PICK id : bests' = (bests \ Standing(q)) \cup {ScoreRowOf(q, id, n)}
  BY <1>n DEF Save, UpsertBest
<1> DEFINE row == ScoreRowOf(q, id, n)
<1>2. /\ row.receipt = n /\ row.body = q.body /\ SameSlot(row, q)
  BY DEF ScoreRowOf, SameSlot
<1>e. /\ Entry(q).player = q.player /\ Entry(q).body = q.body
      /\ \A h : SameSlot(h, Entry(q)) <=> SameSlot(h, q)
      /\ \A h : SameSlot(Entry(q), h) <=> SameSlot(q, h)
  BY DEF Entry, SameSlot
<1>s. /\ \A i \in 1 .. (n - 1) : history[i].body.score \in Int
      /\ q.body.score \in Int
      /\ \A b \in bests : b.body.score \in Int
      /\ q.player \in live
  BY <1>h, Standings DEF Save, Insertable
<1>b. /\ \A b \in bests : b \in Standing(q) <=> SameSlot(b, q)
      /\ \A b \in Standing(q) : b \in bests /\ b.body.score < q.body.score
  BY <1>s DEF Standing, SameSlot, Stands
<1> HIDE DEF row
<1>3. ASSUME NEW i \in 1 .. (n - 1), SameSlot(history[i], q)
      PROVE  history[i].body.score < q.body.score
  <2>1. history[i].player \in live
    BY <1>3, <1>s DEF SameSlot
  <2>2. PICK b \in bests : /\ SameSlot(b, history[i])
                           /\ b.body.score >= history[i].body.score
    BY <1>h, <2>1 DEF Covered
  <2>3. SameSlot(b, q)
    BY <1>3, <2>2 DEF SameSlot
  <2>4. b.body.score < q.body.score
    BY <1>b, <2>3
  <2> QED BY <1>s, <2>2, <2>4
<1>4. Covered'
  <2> SUFFICES ASSUME NEW i \in 1 .. n, history'[i].player \in live
               PROVE  \E c \in bests' : /\ SameSlot(c, history'[i])
                                        /\ c.body.score >= history'[i].body.score
    BY <1>h DEF Covered
  <2>r. row \in bests'
    BY <1>1 DEF row
  <2>1. CASE i = n
    BY <1>2, <1>e, <1>h, <1>s, <2>1, <2>r
  <2>2. CASE i # n /\ SameSlot(history[i], q)
    <3>1. i \in 1 .. (n - 1) /\ history'[i] = history[i]
      BY <1>h, <2>2
    <3>2. SameSlot(row, history'[i])
      BY <1>2, <2>2, <3>1 DEF SameSlot
    <3>3. row.body.score >= history'[i].body.score
      BY <1>2, <1>3, <1>s, <2>2, <3>1
    <3> QED BY <2>r, <3>2, <3>3
  <2>3. CASE i # n /\ ~SameSlot(history[i], q)
    <3>1. i \in 1 .. (n - 1) /\ history'[i] = history[i]
      BY <1>h, <2>3
    <3>2. PICK b \in bests : /\ SameSlot(b, history[i])
                             /\ b.body.score >= history[i].body.score
      BY <1>h, <3>1 DEF Covered
    <3>3. b \notin Standing(q)
      BY <1>b, <2>3, <3>2 DEF SameSlot
    <3> QED BY <1>1, <3>1, <3>2, <3>3
  <2> QED BY <2>1, <2>2, <2>3
<1>5. BestIsMax'
  <2> SUFFICES ASSUME NEW i \in 1 .. n, history'[i].player \in live
               PROVE  (\E c \in bests' : c.receipt = i) <=> PersonalBest(i, n)'
    BY <1>h DEF BestIsMax, PersonalBest
  <2>1. CASE i = n
    <3>1. row \in bests' /\ row.receipt = i
      BY <1>1, <1>2, <2>1 DEF row
    <3>2. ASSUME NEW k \in 1 .. n, SameSlot(history'[k], history'[i])
          PROVE  \/ history'[k].body.score < history'[i].body.score
                 \/ history'[k].body.score = history'[i].body.score /\ k >= i
      <4>1. CASE k = n
        BY <1>h, <2>1, <4>1
      <4>2. CASE k # n
        <5>1. k \in 1 .. (n - 1) /\ history'[k] = history[k]
          BY <1>h, <4>2
        <5>2. SameSlot(history[k], q)
          BY <1>e, <1>h, <2>1, <3>2, <5>1
        <5> QED BY <1>3, <1>e, <1>h, <2>1, <5>1, <5>2
      <4> QED BY <4>1, <4>2
    <3>3. PersonalBest(i, n)'
      BY <1>h, <3>2 DEF PersonalBest
    <3> QED BY <3>1, <3>3
  <2>2. CASE i # n /\ SameSlot(history[i], q)
    <3>1. i \in 1 .. (n - 1) /\ history'[i] = history[i]
      BY <1>h, <2>2
    <3>2. ~ \E c \in bests' : c.receipt = i
      <4>1. ASSUME NEW c \in bests, c.receipt = i
            PROVE  c \in Standing(q)
        BY <1>b, <2>2, <4>1, Standings DEF SameSlot
      <4> QED BY <1>1, <1>2, <2>2, <4>1 DEF row
    <3>3. SameSlot(history'[n], history'[i])
      BY <1>e, <1>h, <2>2, <3>1 DEF SameSlot
    <3>4. history'[n].body.score > history'[i].body.score
      BY <1>3, <1>e, <1>h, <2>2, <3>1
    <3>5. /\ n \in 1 .. n
          /\ ~(history'[n].body.score < history'[i].body.score)
          /\ history'[n].body.score # history'[i].body.score
      BY <1>e, <1>h, <1>s, <3>1, <3>4
    <3>6. ~PersonalBest(i, n)'
      BY <1>h, <3>3, <3>5 DEF PersonalBest
    <3> QED BY <3>2, <3>6
  <2>3. CASE i # n /\ ~SameSlot(history[i], q)
    <3>1. /\ i \in 1 .. (n - 1) /\ history'[i] = history[i]
          /\ (\E c \in bests : c.receipt = i) <=> PersonalBest(i, n - 1)
      BY <1>h, <2>3 DEF BestIsMax
    <3>2. ~SameSlot(history'[n], history'[i])
      BY <1>e, <1>h, <2>3, <3>1 DEF SameSlot
    <3>3. PersonalBest(i, n)' <=> PersonalBest(i, n - 1)
      BY <1>h, <3>1, <3>2 DEF PersonalBest
    <3>4. ASSUME NEW c \in bests, c.receipt = i
          PROVE  c \in bests'
      <4>1. c \notin Standing(q)
        BY <1>b, <2>3, <3>4, Standings DEF SameSlot
      <4> QED BY <1>1, <4>1
    <3>5. ASSUME NEW c \in bests', c.receipt = i
          PROVE  c \in bests
      BY <1>1, <1>2, <2>3, <3>5 DEF row
    <3> QED BY <3>1, <3>3, <3>4, <3>5
  <2> QED BY <2>1, <2>2, <2>3
<1> QED BY <1>4, <1>5

\* Every step keeps the best of each player the greatest.
LEMMA NextBests ==
    ASSUME TypeOK, Ledger, BestIsMax, Covered, [Next]_vars
    PROVE  BestIsMax' /\ Covered'
<1>1. ASSUME NEW q \in Request, Save(q)
      PROVE  BestIsMax' /\ Covered'
  BY <1>1, BeatenSave, BeatingSave
<1>2. ASSUME NEW p \in Players, Erase(p)
      PROVE  BestIsMax' /\ Covered'
  <2>1. /\ history' = history /\ live' = live \ {p}
        /\ bests' = {b \in bests : b.player # p}
    BY <1>2 DEF Erase
  <2>2. \A b \in bests : b.player = history[b.receipt].player
    BY Standings
  <2>3. BestIsMax'
    BY <2>1, <2>2 DEF BestIsMax, PersonalBest
  <2>4. Covered'
    BY <2>1 DEF Covered, SameSlot
  <2> QED BY <2>3, <2>4
<1>3. ASSUME UNCHANGED <<bests, history, live>>
      PROVE  BestIsMax' /\ Covered'
  BY <1>3 DEF BestIsMax, PersonalBest, Covered
<1> QED
  BY <1>1, <1>2, <1>3
  DEF Next, StartPrune, PruneStep, PruneDrillRuns, PruneArcadeRuns, PruneRuns,
      PruneFeed, AbandonPrune, Restart, Tick, vars

\* So the bests are the greatest in every behaviour.
LEMMA BestsHold == Spec => [](BestIsMax /\ Covered)
<1>1. Init => BestIsMax /\ Covered
  BY DEF Init, BestIsMax, Covered
<1> QED
  BY <1>1, NextBests, TypeCorrect, LedgerInvariant, PTL DEF Spec

\* The best rows are the personal bests over everything ever accepted, with the
\* date of the first that reached them: no replay, prune or erasure of somebody
\* else moves one.
THEOREM BestIsMaxInvariant == Spec => []BestIsMax
  BY BestsHold, PTL

-----------------------------------------------------------------------------
(* Client ids.                                                               *)

\* What Verdict finds when it answers "created".
LEMMA NothingRemembers ==
    ASSUME NEW q, Verdict(q) = "created"
    PROVE  /\ Receipts(q) = {} /\ RunsOf(q) = {}
           /\ q.mode = "arcade" \/ q.publish => BestsOf(q) = {}
  BY DEF Verdict, Answer

\* Accepting a client id again needs all three tables to have forgotten it,
\* and what they hold is exactly what they should.
LEMMA SaveReuses ==
    ASSUME TypeOK, Ledger, ReceiptRing, NewestRetained, BestIsMax, NoEarlyReuse,
           NEW q \in Request, Save(q)
    PROVE  NoEarlyReuse'
<1>n. PICK n : n = Len(history) + 1
  OBVIOUS
<1>h. /\ n \in Nat /\ q.player \in live /\ Len(history) = n - 1
      /\ DOMAIN history = 1 .. (n - 1) /\ DOMAIN history' = 1 .. n
      /\ history'[n] = Entry(q)
      /\ \A i \in DOMAIN history : history'[i] = history[i]
  BY <1>n, SaveNumbers
<1>a. ASSUME NEW i \in 1 .. (n - 1), NEW j \in 1 .. n
      PROVE  /\ (AcceptedSince(i)' \cap 1 .. (j - 1)) = AcceptedSince(i) \cap 1 .. (j - 1)
             /\ (PublishedSince(i, history[i].player)' \cap 1 .. (j - 1))
                   = PublishedSince(i, history[i].player) \cap 1 .. (j - 1)
             /\ PersonalBest(i, j - 1)' <=> PersonalBest(i, j - 1)
  BY <1>h DEF AcceptedSince, PublishedSince, PersonalBest
<1> SUFFICES ASSUME NEW i \in 1 .. n, NEW j \in 1 .. n, i < j,
                    SameKey(history'[i], history'[j])
             PROVE  /\ Cardinality(AcceptedSince(i)' \cap 1 .. (j - 1)) >= ReceiptCap
                    /\ history'[i].publish =>
                         \/ history'[i].at < history'[j].at - Retention
                         \/ Cardinality(PublishedSince(i, history[i].player)'
                                            \cap 1 .. (j - 1)) >= RunCap
                    /\ history'[j].mode = "arcade" \/ history'[j].publish =>
                         ~PersonalBest(i, j - 1)'
  BY <1>h DEF NoEarlyReuse
<1>i. i \in 1 .. (n - 1) /\ history'[i] = history[i]
  BY <1>h
<1>1. CASE j # n
  <2>1. j \in 1 .. (n - 1) /\ history'[j] = history[j]
    BY <1>h, <1>1
  <2> QED BY <1>a, <1>h, <1>i, <2>1 DEF NoEarlyReuse
<1>2. CASE j = n
  <2>1. /\ SameKey(history[i], q) /\ history'[j].mode = q.mode
        /\ history'[j].publish = q.publish /\ history'[j].at = clock
        /\ history[i].player \in live
    BY <1>2, <1>h, <1>i DEF SameKey, Entry
  <2>2. /\ Receipts(q) = {} /\ RunsOf(q) = {}
        /\ q.mode = "arcade" \/ q.publish => BestsOf(q) = {}
    BY NothingRemembers DEF Save
  <2>3. ASSUME NEW r, Claims(r, i)
        PROVE  SameKey(r, q)
    BY <2>1, <2>3 DEF Claims, SameKey
  <2>4. Cardinality(AcceptedSince(i)' \cap 1 .. (j - 1)) >= ReceiptCap
    <3>1. ~ \E r \in receipts : r.id = i
      BY <2>2, <2>3 DEF Receipts, Ledger, ProofsAreAccepted
    <3>2. ~(Cardinality(AcceptedSince(i)) < ReceiptCap)
      BY <1>h, <1>i, <2>1, <3>1 DEF ReceiptRing
    <3>3. AcceptedSince(i) \cap 1 .. (j - 1) = AcceptedSince(i)
      BY <1>2, <1>h DEF AcceptedSince
    <3>4. AcceptedSince(i)' \cap 1 .. (j - 1) = AcceptedSince(i)
      BY <1>a, <1>i, <3>3
    <3>5. Cardinality(AcceptedSince(i)) \in Nat
      BY <1>h, <1>i, Numbered
    <3>6. Cardinality(AcceptedSince(i)) >= ReceiptCap
      BY <3>2, <3>5, CapsAssumption
    <3> QED BY <3>4, <3>6
  <2>5. ASSUME history'[i].publish
        PROVE  \/ history'[i].at < history'[j].at - Retention
               \/ Cardinality(PublishedSince(i, history[i].player)'
                                  \cap 1 .. (j - 1)) >= RunCap
    <3>1. ~ \E r \in runs : r.mode = history[i].mode /\ r.receipt = i
      BY <2>2, <2>3 DEF RunsOf, Ledger, ProofsAreAccepted
    <3>2. ~(/\ history[i].at >= Expiry
            /\ Cardinality(PublishedSince(i, history[i].player)) < RunCap)
      BY <1>h, <1>i, <2>1, <2>5, <3>1 DEF NewestRetained
    <3>3. PublishedSince(i, history[i].player) \cap 1 .. (j - 1)
             = PublishedSince(i, history[i].player)
      BY <1>2, <1>h DEF PublishedSince
    <3>4. PublishedSince(i, history[i].player) \subseteq DOMAIN history
      BY DEF PublishedSince
    <3>5. Cardinality(PublishedSince(i, history[i].player)) \in Nat
      BY <3>4, Numbered
    <3>6. history[i].at \in Nat
      BY <1>h, <1>i, Numbered DEF Accepted
    <3>7. Expiry \in Int /\ Expiry = history'[j].at - Retention
      BY <2>1, CapsAssumption DEF TypeOK, Expiry
    <3>8. PublishedSince(i, history[i].player)' \cap 1 .. (j - 1)
             = PublishedSince(i, history[i].player)
      BY <1>a, <1>i, <3>3
    <3>9. CASE history[i].at < Expiry
      BY <1>i, <3>7, <3>9
    <3>10. CASE ~(Cardinality(PublishedSince(i, history[i].player)) < RunCap)
      <4>1. Cardinality(PublishedSince(i, history[i].player)) >= RunCap
        BY <3>5, <3>10, CapsAssumption
      <4> QED BY <3>8, <4>1
    <3> QED BY <3>2, <3>6, <3>7, <3>9, <3>10
  <2>6. ASSUME q.mode = "arcade" \/ q.publish
        PROVE  ~PersonalBest(i, j - 1)'
    <3>1. ~ \E b \in bests : b.receipt = i
      BY <2>2, <2>3, <2>6 DEF BestsOf, Ledger, ProofsAreAccepted
    <3>2. ~PersonalBest(i, n - 1)
      BY <1>h, <1>i, <2>1, <3>1 DEF BestIsMax
    <3> QED BY <1>2, <1>a, <1>i, <3>2
  <2> QED BY <2>1, <2>4, <2>5, <2>6
<1> QED BY <1>1, <1>2

\* Every step keeps client ids from being accepted again too early.
LEMMA NextReuses ==
    ASSUME TypeOK, Ledger, ReceiptRing, NewestRetained, BestIsMax, NoEarlyReuse,
           [Next]_vars
    PROVE  NoEarlyReuse'
<1>1. ASSUME NEW q \in Request, Save(q)
      PROVE  NoEarlyReuse'
  BY <1>1, SaveReuses
<1>2. ASSUME UNCHANGED history
      PROVE  NoEarlyReuse'
  <2>1. /\ history' = history
        /\ \A i : AcceptedSince(i)' = AcceptedSince(i)
        /\ \A i, p : PublishedSince(i, p)' = PublishedSince(i, p)
        /\ \A i, k : PersonalBest(i, k)' <=> PersonalBest(i, k)
    BY <1>2 DEF AcceptedSince, PublishedSince, PersonalBest
  <2>2. \A i : PublishedSince(i, history[i].player)'
                  = PublishedSince(i, history[i].player)
    BY <1>2 DEF PublishedSince
  <2> QED BY <2>1, <2>2 DEF NoEarlyReuse, SameKey
<1> QED
  BY <1>1, <1>2
  DEF Next, Erase, StartPrune, PruneStep, PruneDrillRuns, PruneArcadeRuns,
      PruneRuns, PruneFeed, AbandonPrune, Restart, Tick, vars

\* A client id is accepted a second time only when the ring, the run table and,
\* in Arcade or when publishing, the best had a right to have forgotten the
\* first: the look-ups of saveWithIntent and saveArcade miss nothing.
THEOREM NoEarlyReuseInvariant == Spec => []NoEarlyReuse
<1>1. Init => NoEarlyReuse
  BY DEF Init, NoEarlyReuse
<1> QED
  BY <1>1, NextReuses, TypeCorrect, LedgerInvariant, ReceiptRingInvariant,
     NewestRetainedInvariant, BestIsMaxInvariant, PTL DEF Spec
=============================================================================
