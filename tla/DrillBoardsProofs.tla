-------------------------- MODULE DrillBoardsProofs --------------------------
(***************************************************************************)
(* The three boards answer exactly what the history of accepted            *)
(* submissions says, for any players, drills, scores, caps, retention,     *)
(* window and limit.                                                       *)
(*                                                                         *)
(* The store's own invariants (DrillStoreProofs) say that the best rows    *)
(* are the personal bests and that no run disappears early.  What is added *)
(* here is that none stays too long: the feed order has no gaps, so a run  *)
(* still listed is among its player's newest.  The rest is about the       *)
(* queries: what one row per player and a LIMIT make of a pool of rows.    *)
(***************************************************************************)
EXTENDS DrillBoards, DrillStoreProofs, WellFoundedInduction

-----------------------------------------------------------------------------
(* The order of arrival.                                                     *)

\* Submissions are dated in the order in which they were accepted.
Dated ==
    \A i \in DOMAIN history :
        /\ history[i].at <= clock
        /\ \A j \in DOMAIN history : i <= j => history[i].at <= history[j].at

\* While a place in the feed order lasts, so does every later one of its player.
Gapless ==
    \A f \in feed : \A j \in PublishedSince(f.id, f.player) :
        \E g \in feed : g.id = j

\* The run ids of a mode ascend in the order of arrival.
InOrder ==
    \A f, g \in feed : f.mode = g.mode /\ f.run < g.run => f.id < g.id

Arrivals == /\ Dated /\ Gapless /\ InOrder
            /\ IsFiniteSet(bests) /\ IsFiniteSet(runs)

\* An empty store keeps the order of arrival.
LEMMA InitArrivals == Init => Arrivals
<1> SUFFICES ASSUME Init PROVE Arrivals
  OBVIOUS
<1>1. Dated /\ Gapless /\ InOrder
  BY DEF Init, Dated, Gapless, InOrder
<1>2. IsFiniteSet(bests) /\ IsFiniteSet(runs)
  BY FS_EmptySet DEF Init
<1> QED BY <1>1, <1>2 DEF Arrivals

\* What is cut off the feed order on a publication is the oldest end.
LEMMA PublishGapless ==
    ASSUME TypeOK, Ledger, Arrivals, NEW q \in Request, Save(q), q.publish
    PROVE  Gapless'
<1>n. PICK n : n = Len(history) + 1
  OBVIOUS
<1> DEFINE mine   == FeedOf(Appended(q, n), q.player)
           newest == Newest(mine, RunCap)
           new    == NewFeedRow(q, n)
<1>h. /\ n \in Nat
      /\ DOMAIN history = 1 .. (n - 1) /\ DOMAIN history' = 1 .. n
      /\ history'[n] = Entry(q)
      /\ \A i \in DOMAIN history : history'[i] = history[i]
  BY <1>n, SaveNumbers
<1>1. /\ Appended(q, n) = feed \cup {new} /\ IsFiniteSet(Appended(q, n))
      /\ new.id = n /\ new.player = q.player
  BY <1>n, AppendedLedger DEF NewFeedRow
<1>2. feed' = (Appended(q, n) \ mine) \cup newest
  BY <1>n DEF Save, PublishRun
<1>3. newest \subseteq mine /\ mine \subseteq Appended(q, n)
  BY DEF Newest, FeedOf
<1>4. \A f \in feed : f.id \in DOMAIN history
  BY DEF Ledger, FeedLedger
<1> SUFFICES ASSUME NEW f \in feed', NEW j \in PublishedSince(f.id, f.player)'
             PROVE  \E g \in feed' : g.id = j
  BY DEF Gapless
<1>5. /\ j \in 1 .. n /\ j > f.id /\ history'[j].player = f.player
      /\ history'[j].publish
  BY <1>h DEF PublishedSince
<1>6. f \in Appended(q, n)
  BY <1>2, <1>3
<1>7. f \in feed
  <2>1. f # new
    BY <1>1, <1>5, <1>h
  <2> QED BY <1>1, <1>6, <2>1
<1>8. \E g \in Appended(q, n) : g.id = j /\ g.player = f.player
  <2>1. CASE j = n
    <3>1. f.player = q.player
      BY <1>5, <1>h, <2>1 DEF Entry
    <3> QED BY <1>1, <2>1, <3>1
  <2>2. CASE j # n
    <3>1. j \in PublishedSince(f.id, f.player)
      BY <1>5, <1>h, <2>2 DEF PublishedSince
    <3>2. PICK g \in feed : g.id = j
      BY <1>7, <3>1 DEF Arrivals, Gapless
    <3>3. g.player = f.player
      BY <1>5, <1>h, <2>2, <3>2 DEF Ledger, FeedLedger
    <3> QED BY <1>1, <3>2, <3>3
  <2> QED BY <2>1, <2>2
<1>9. PICK g \in Appended(q, n) : g.id = j /\ g.player = f.player
  BY <1>8
<1>10. CASE f.player # q.player
  BY <1>2, <1>9, <1>10 DEF FeedOf
<1>11. CASE f.player = q.player
  <2> DEFINE above(r) == {s \in mine : s.id > r.id}
  <2>1. f \in mine /\ f \in newest /\ g \in mine
    BY <1>2, <1>3, <1>6, <1>9, <1>11 DEF FeedOf
  <2>2. \A r \in mine : r.id \in Nat
    <3>1. \A r \in Appended(q, n) : r.id \in Nat
      BY <1>n, AppendedLedger DEF FeedRow
    <3> QED BY <1>3, <3>1
  <2>3. above(g) \subseteq above(f)
    <3>1. f.id \in Nat /\ g.id \in Nat /\ f.id < g.id
      BY <1>5, <1>9, <2>1, <2>2
    <3> HIDE DEF mine
    <3>2. \A r \in mine : r.id > g.id => r.id > f.id
      BY <2>2, <3>1
    <3> QED BY <3>2
  <2>4. IsFiniteSet(mine) /\ IsFiniteSet(above(f))
    <3>1. IsFiniteSet(mine)
      BY <1>1, <1>3, FS_Subset
    <3>2. above(f) \subseteq mine
      OBVIOUS
    <3> QED BY <3>1, <3>2, FS_Subset
  <2>5. /\ Cardinality(above(g)) \in Nat /\ Cardinality(above(f)) \in Nat
        /\ Cardinality(above(g)) <= Cardinality(above(f))
    BY <2>3, <2>4, FewerSubmissions
  <2>6. Cardinality(above(f)) < RunCap
    BY <2>1 DEF Newest
  <2>7. g \in newest
    BY <2>1, <2>5, <2>6, CapsAssumption DEF Newest
  <2> QED BY <1>2, <1>9, <2>7
<1> QED BY <1>10, <1>11

\* A save appends the newest arrival, with the next number of its mode.
LEMMA SaveArrivals ==
    ASSUME TypeOK, Ledger, Arrivals, NEW q \in Request, Save(q)
    PROVE  Arrivals'
<1>n. PICK n : n = Len(history) + 1
  OBVIOUS
<1>h. /\ n \in Nat /\ clock' = clock
      /\ DOMAIN history = 1 .. (n - 1) /\ DOMAIN history' = 1 .. n
      /\ history'[n] = Entry(q)
      /\ \A i \in DOMAIN history : history'[i] = history[i]
  BY <1>n, SaveNumbers
<1>1. Dated'
  <2>1. clock \in Nat /\ \A i \in DOMAIN history : history[i].at \in Nat
    BY Numbered DEF TypeOK, Accepted
  <2>2. Entry(q).at = clock
    BY DEF Entry
  <2>3. \A i \in 1 .. n : i # n => i \in DOMAIN history
    BY <1>h
  <2>4. \A i \in DOMAIN history : i # n /\ ~(n <= i)
    BY <1>h
  <2>5. \A i \in 1 .. n : history'[i].at <= clock
    BY <1>h, <2>1, <2>2, <2>3 DEF Arrivals, Dated
  <2>6. ASSUME NEW i \in 1 .. n, NEW j \in 1 .. n, i <= j
        PROVE  history'[i].at <= history'[j].at
    <3>1. CASE j = n
      BY <1>h, <2>2, <2>5, <3>1
    <3>2. CASE j # n
      <4>1. i \in DOMAIN history /\ j \in DOMAIN history
        BY <1>h, <2>3, <2>4, <2>6, <3>2
      <4> QED BY <1>h, <2>6, <4>1 DEF Arrivals, Dated
    <3> QED BY <3>1, <3>2
  <2> QED BY <1>h, <2>5, <2>6 DEF Dated
<1>2. Gapless'
  <2>1. CASE q.publish
    BY <2>1, PublishGapless
  <2>2. CASE ~q.publish
    <3>1. feed' = feed
      BY <2>2 DEF Save
    <3>2. ~history'[n].publish
      BY <1>h, <2>2 DEF Entry
    <3>3. \A f \in feed : PublishedSince(f.id, f.player)'
                              \subseteq PublishedSince(f.id, f.player)
      BY <1>h, <3>1, <3>2 DEF PublishedSince
    <3> QED BY <3>1, <3>3 DEF Arrivals, Gapless
  <2> QED BY <2>1, <2>2
<1>3. InOrder'
  <2>1. CASE q.publish
    <3>1. feed' \subseteq feed \cup {NewFeedRow(q, n)}
      BY <1>n, <2>1 DEF Save, PublishRun, Appended, NewFeedRow, Newest, FeedOf
    <3>2. \A f \in feed : /\ f.id < n /\ f.id \in Nat /\ f.run \in Nat
                          /\ f.mode = q.mode => f.run < NextRunId(q.mode)
      <4>1. \A f \in feed : f.id \in DOMAIN history /\ f.run <= lastRun[f.mode]
        BY DEF Ledger, FeedLedger
      <4>2. \A f \in feed : f.id \in Nat /\ f.run \in Nat
        BY DEF TypeOK, FeedRow
      <4>3. lastRun[q.mode] \in Nat
        BY DEF TypeOK, Request
      <4> QED BY <1>h, <4>1, <4>2, <4>3 DEF NextRunId
    <3>3. /\ NewFeedRow(q, n).id = n /\ NewFeedRow(q, n).mode = q.mode
          /\ NewFeedRow(q, n).run = NextRunId(q.mode) /\ NextRunId(q.mode) \in Nat
      BY DEF NewFeedRow, NextRunId, TypeOK, Request
    <3> QED BY <1>h, <3>1, <3>2, <3>3 DEF Arrivals, InOrder
  <2>2. CASE ~q.publish
    BY <2>2 DEF Save, Arrivals, InOrder
  <2> QED BY <2>1, <2>2
<1>4. IsFiniteSet(bests')
  <2>1. PICK row : bests' \subseteq bests \cup {row}
    BY DEF Save, UpsertBest
  <2>2. IsFiniteSet(bests \cup {row})
    BY FS_AddElement DEF Arrivals
  <2> QED BY <2>1, <2>2, FS_Subset
<1>5. IsFiniteSet(runs')
  <2>1. PICK row : runs' \subseteq runs \cup {row}
    BY <1>n, SaveRows
  <2>2. IsFiniteSet(runs \cup {row})
    BY FS_AddElement DEF Arrivals
  <2> QED BY <2>1, <2>2, FS_Subset
<1> QED BY <1>1, <1>2, <1>3, <1>4, <1>5 DEF Arrivals

\* A pass deletes an oldest end of every feed order.
LEMMA PruneFeedArrivals ==
    ASSUME TypeOK, Ledger, Arrivals, NEW w \in Pruners, PruneFeed(w)
    PROVE  Arrivals'
<1>1. /\ feed' = {f \in feed : f.at >= cutoff[w]}
      /\ UNCHANGED <<clock, live, receipts, runs, bests, lastRun, history>>
  BY DEF PruneFeed, UnexpiredFeed
<1>2. Gapless'
  <2> SUFFICES ASSUME NEW f \in feed, f.at >= cutoff[w],
                      NEW j \in PublishedSince(f.id, f.player)
               PROVE  \E g \in feed' : g.id = j
    BY <1>1 DEF Gapless, PublishedSince
  <2>1. PICK g \in feed : g.id = j
    BY DEF Arrivals, Gapless
  <2>2. f.id \in DOMAIN history /\ f.at = history[f.id].at /\ g.at = history[j].at
    BY <2>1 DEF Ledger, FeedLedger
  <2>3. j \in DOMAIN history /\ j > f.id
    BY DEF PublishedSince
  <2>4. history[f.id].at <= history[j].at
    BY <2>2, <2>3, Numbered DEF Arrivals, Dated
  <2>5. f.at \in Nat /\ g.at \in Nat /\ cutoff[w] \in Int
    BY DEF TypeOK, FeedRow
  <2> QED BY <1>1, <2>1, <2>2, <2>4, <2>5
<1>3. Dated' /\ InOrder' /\ IsFiniteSet(bests') /\ IsFiniteSet(runs')
  BY <1>1 DEF Arrivals, Dated, InOrder
<1> QED BY <1>2, <1>3 DEF Arrivals

\* An erasure takes away all rows of one player, and leaves no gap.
LEMMA EraseArrivals ==
    ASSUME TypeOK, Ledger, Arrivals, NEW p \in Players, Erase(p)
    PROVE  Arrivals'
<1>1. /\ feed' = {f \in feed : f.player # p}
      /\ runs' \subseteq runs /\ bests' \subseteq bests
      /\ UNCHANGED <<clock, history>>
  BY DEF Erase
<1>2. Gapless'
  <2> SUFFICES ASSUME NEW f \in feed, f.player # p,
                      NEW j \in PublishedSince(f.id, f.player)
               PROVE  \E g \in feed' : g.id = j
    BY <1>1 DEF Gapless, PublishedSince
  <2>1. PICK g \in feed : g.id = j
    BY DEF Arrivals, Gapless
  <2>2. g.player = f.player
    BY <2>1 DEF Ledger, FeedLedger, PublishedSince
  <2> QED BY <1>1, <2>1, <2>2
<1>3. IsFiniteSet(bests') /\ IsFiniteSet(runs')
  BY <1>1, FS_Subset DEF Arrivals
<1>4. Dated' /\ InOrder'
  BY <1>1 DEF Arrivals, Dated, InOrder
<1> QED BY <1>2, <1>3, <1>4 DEF Arrivals

\* So every step keeps it.
LEMMA NextArrivals ==
    ASSUME TypeOK, Ledger, Arrivals, [Next]_vars
    PROVE  Arrivals'
<1>1. ASSUME UNCHANGED <<clock, bests, feed, history>>, runs' \subseteq runs
      PROVE  Arrivals'
  <2>1. IsFiniteSet(runs')
    BY <1>1, FS_Subset DEF Arrivals
  <2> QED BY <1>1, <2>1 DEF Arrivals, Dated, Gapless, InOrder, PublishedSince
<1>2. CASE Tick
  <2>1. clock' = clock + 1 /\ UNCHANGED <<runs, bests, feed, history>>
    BY <1>2 DEF Tick
  <2>2. clock \in Nat /\ \A i \in DOMAIN history : history[i].at \in Nat
    BY Numbered DEF TypeOK, Accepted
  <2>3. Dated'
    BY <2>1, <2>2 DEF Arrivals, Dated
  <2> QED BY <2>1, <2>3 DEF Arrivals, Gapless, InOrder, PublishedSince
<1>3. ASSUME NEW w \in Pruners, StartPrune(w) \/ PruneStep(w) \/ AbandonPrune(w)
      PROVE  Arrivals'
  <2>1. CASE PruneFeed(w)
    BY <2>1, PruneFeedArrivals
  <2>2. CASE StartPrune(w) \/ AbandonPrune(w) \/ PruneDrillRuns(w) \/ PruneArcadeRuns(w)
    BY <1>1, <2>2 DEF StartPrune, AbandonPrune, PruneDrillRuns, PruneArcadeRuns,
                      PruneRuns, Unexpired
  <2> QED BY <1>3, <2>1, <2>2 DEF PruneStep
<1>4. CASE Restart
  BY <1>1, <1>4 DEF Restart
<1>5. CASE UNCHANGED vars
  BY <1>1, <1>5 DEF vars
<1> QED BY <1>2, <1>3, <1>4, <1>5, SaveArrivals, EraseArrivals DEF Next

\* The feed order keeps the order of arrival and has no gaps, through every
\* publication, pass, erasure and restart.
THEOREM ArrivalsInvariant == Spec => []Arrivals
  BY InitArrivals, NextArrivals, TypeCorrect, LedgerInvariant, PTL DEF Spec

-----------------------------------------------------------------------------
(* Pools of rows.                                                            *)

\* A set of numbers has a least one.
LEMMA LeastNumber ==
    ASSUME NEW S, S \subseteq Nat, S # {}
    PROVE  \E a \in S : \A b \in S : a <= b
<1> DEFINE Less == {w \in Nat \X Nat : w[1] < w[2]}
<1>1. OpToRel(<, Nat) = Less
  BY Zenon DEF OpToRel
<1>2. PICK a \in S : \A b \in S : <<b, a>> \notin Less
  BY <1>1, NatLessThanWellFounded, WFMin
<1>3. \A b \in S : a \in Nat /\ b \in Nat /\ ~(b < a)
  BY <1>2
<1> QED BY <1>3

\* Of rows whose ranking does not run in circles some are behind none.
LEMMA LeaderExists ==
    ASSUME NEW S, S \subseteq ScoreRow, IsFiniteSet(S), S # {}
    PROVE  \E r \in S : \A s \in S : ~Ahead(s, r)
<1> DEFINE front(r) == {s \in S : Ahead(s, r)}
           sizes    == {Cardinality(front(r)) : r \in S}
<1>1. \A r \in S : IsFiniteSet(front(r)) /\ Cardinality(front(r)) \in Nat
  BY FS_Subset, FS_CardinalityType
<1>2. sizes \subseteq Nat /\ sizes # {}
  BY <1>1
<1>3. PICK a \in sizes : \A b \in sizes : a <= b
  BY <1>2, LeastNumber
<1>4. PICK r \in S : a = Cardinality(front(r))
  BY <1>3
<1>5. ASSUME NEW s \in S, Ahead(s, r)
      PROVE  FALSE
  <2>1. \A t \in S : /\ t.body.score \in Int /\ t.at \in Nat /\ t.id \in Nat
    BY ScoresAssumption DEF ScoreRow, Body
  <2>2. s \in front(r) /\ s \notin front(s) /\ front(s) \subseteq front(r)
    BY <1>5, <2>1 DEF Ahead
  <2>3. Cardinality(front(s)) \in sizes
    OBVIOUS
  <2>4. Cardinality(front(r)) <= Cardinality(front(s))
    BY <1>3, <1>4, <2>3
  <2> HIDE DEF front
  <2>5. Cardinality(front(s)) < Cardinality(front(r))
    <3>1. /\ Cardinality(front(s)) <= Cardinality(front(r))
          /\ Cardinality(front(s)) = Cardinality(front(r)) => front(s) = front(r)
      BY <1>1, <2>2, FS_Subset
    <3> QED BY <1>1, <2>2, <3>1
  <2> QED BY <1>1, <2>4, <2>5
<1> QED BY <1>5

\* Row r says of its player what submission i says of its own.
Says(r, i) == /\ r.player = history[i].player
              /\ r.body.score = history[i].body.score
              /\ r.at = history[i].at

\* Row r does at least as well as submission i, for the same player.
Attains(r, i) ==
    /\ r.player = history[i].player
    /\ \/ r.body.score > history[i].body.score
       \/ r.body.score = history[i].body.score /\ r.at <= history[i].at

\* A pool stands for a set of submissions: its rows say what some of them say,
\* and every one of them is attained.
StandsFor(pool, C) ==
    /\ pool \subseteq ScoreRow /\ IsFiniteSet(pool)
    /\ C \subseteq DOMAIN history
    /\ \A r \in pool : \E i \in C : Says(r, i)
    /\ \A i \in C : \E r \in pool : Attains(r, i)

\* The numbers that the order compares.
LEMMA Comparable ==
    ASSUME TypeOK
    PROVE  /\ \A r \in ScoreRow : r.body.score \in Int /\ r.at \in Nat /\ r.id \in Nat
           /\ \A i \in DOMAIN history :
                  history[i].body.score \in Int /\ history[i].at \in Nat
<1>1. \A r \in ScoreRow : r.body.score \in Int /\ r.at \in Nat /\ r.id \in Nat
  BY ScoresAssumption DEF ScoreRow, Body
<1>2. \A i \in DOMAIN history : history[i].body.score \in Int /\ history[i].at \in Nat
  BY Numbered, ScoresAssumption DEF Accepted, Body
<1> QED BY <1>1, <1>2

\* The row picked for a player says what the player's bests say.
LEMMA PickedSays ==
    ASSUME TypeOK, NEW pool, NEW C, StandsFor(pool, C)
    PROVE  /\ \A r \in Picked(pool) : \E i \in Bests(C) : Says(r, i)
           /\ \A i \in Bests(C) : \E r \in Picked(pool) : Says(r, i)
<1>1. ASSUME NEW r \in Picked(pool)
      PROVE  \E i \in Bests(C) : Says(r, i)
  <2>1. r \in pool /\ \A s \in pool : s.player = r.player => ~Ahead(s, r)
    BY DEF Picked
  <2>2. PICK i \in C : Says(r, i)
    BY <2>1 DEF StandsFor
  <2>3. ASSUME NEW j \in C, history[j].player = history[i].player, Outdoes(j, i)
        PROVE  FALSE
    <3>1. PICK s \in pool : Attains(s, j)
      BY DEF StandsFor
    <3>2. s.player = r.player
      BY <2>2, <2>3, <3>1 DEF Says, Attains
    <3>3. i \in DOMAIN history /\ j \in DOMAIN history /\ s \in ScoreRow /\ r \in ScoreRow
      BY <2>1 DEF StandsFor
    <3>4. Ahead(s, r)
      BY <2>2, <2>3, <3>1, <3>3, Comparable DEF Says, Attains, Outdoes, Ahead
    <3> QED BY <2>1, <3>2, <3>4
  <2> QED BY <2>2, <2>3 DEF Bests
<1>2. ASSUME NEW i \in Bests(C)
      PROVE  \E r \in Picked(pool) : Says(r, i)
  <2>1. i \in C /\ \A j \in C : history[j].player = history[i].player => ~Outdoes(j, i)
    BY DEF Bests
  <2> DEFINE able == {r \in pool : Attains(r, i)}
  <2>2. able \subseteq ScoreRow /\ IsFiniteSet(able) /\ able # {}
    BY <2>1, FS_Subset DEF StandsFor
  <2>3. PICK r \in able : \A s \in able : ~Ahead(s, r)
    BY <2>2, LeaderExists
  <2>4. i \in DOMAIN history /\ r \in pool /\ r \in ScoreRow /\ Attains(r, i)
    BY <2>1, <2>2 DEF StandsFor
  <2>5. ASSUME NEW s \in pool, s.player = r.player, Ahead(s, r)
        PROVE  FALSE
    <3>1. s \in ScoreRow
      BY DEF StandsFor
    <3>2. Attains(s, i)
      BY <2>4, <2>5, <3>1, Comparable DEF Attains, Ahead
    <3> QED BY <2>3, <2>5, <3>2
  <2>6. r \in Picked(pool)
    BY <2>4, <2>5 DEF Picked
  <2>7. PICK j \in C : Says(r, j)
    BY <2>4 DEF StandsFor
  <2>8. j \in DOMAIN history /\ history[j].player = history[i].player /\ ~Outdoes(j, i)
    BY <2>1, <2>4, <2>7 DEF StandsFor, Says, Attains
  <2>9. Says(r, i)
    BY <2>4, <2>7, <2>8, Comparable DEF Says, Attains, Outdoes
  <2> QED BY <2>6, <2>9
<1> QED BY <1>1, <1>2

\* Then the first Limit rows of the ranking answer for those submissions.
LEMMA PoolAnswers ==
    ASSUME TypeOK, NEW pool, NEW C, StandsFor(pool, C)
    PROVE  Answers(Ranking(pool), C)
<1> DEFINE ahead(r)   == {s.player : s \in {t \in Picked(pool) : Ahead(t, r)}}
           better(i)  == {history[j].player : j \in {k \in Bests(C) : Outdoes(k, i)}}
           notBehind(i) == {history[j].player : j \in {k \in Bests(C) : ~Outdoes(i, k)}}
<1>0. /\ \A r \in Picked(pool) : r \in pool /\ r \in ScoreRow
      /\ \A i \in Bests(C) : i \in C /\ i \in DOMAIN history
      /\ Limit \in Nat
  BY LimitAssumption DEF Picked, Bests, StandsFor
<1>1. \A r : IsFiniteSet(ahead(r)) /\ Cardinality(ahead(r)) \in Nat
  <2> SUFFICES ASSUME NEW r
               PROVE  IsFiniteSet(ahead(r)) /\ Cardinality(ahead(r)) \in Nat
    OBVIOUS
  <2> DEFINE T == {t \in Picked(pool) : Ahead(t, r)}
             f == [t \in T |-> t.player]
  <2>1. T \subseteq pool /\ IsFiniteSet(pool)
    BY DEF Picked, StandsFor
  <2>2. IsFiniteSet(T)
    BY <2>1, FS_Subset
  <2>3. f \in Surjection(T, ahead(r))
    BY DEF Surjection
  <2> QED BY <2>2, <2>3, FS_Surjection, FS_CardinalityType
<1>2. \A i : /\ IsFiniteSet(better(i)) /\ Cardinality(better(i)) \in Nat
             /\ IsFiniteSet(notBehind(i)) /\ Cardinality(notBehind(i)) \in Nat
  <2> SUFFICES ASSUME NEW K, K \subseteq Bests(C)
               PROVE  LET S == {history[j].player : j \in K}
                      IN  IsFiniteSet(S) /\ Cardinality(S) \in Nat
    OBVIOUS
  <2> DEFINE S == {history[j].player : j \in K}
             f == [j \in K |-> history[j].player]
  <2>1. IsFiniteSet(K)
    BY <1>0, Numbered
  <2>2. f \in Surjection(K, S)
    BY DEF Surjection
  <2> QED BY <2>1, <2>2, FS_Surjection, FS_CardinalityType
<1>3. ASSUME NEW r \in Ranking(pool)
      PROVE  \E i \in Bests(C) : Says(r, i) /\ Cardinality(better(i)) < Limit
  <2>1. r \in Picked(pool) /\ Cardinality(ahead(r)) < Limit
    BY DEF Ranking
  <2>2. PICK i \in Bests(C) : Says(r, i)
    BY <2>1, PickedSays
  <2>3. ASSUME NEW k \in Bests(C), Outdoes(k, i)
        PROVE  history[k].player \in ahead(r)
    <3>1. PICK s \in Picked(pool) : Says(s, k)
      BY PickedSays
    <3>2. Ahead(s, r)
      BY <1>0, <2>1, <2>2, <2>3, <3>1, Comparable DEF Says, Outdoes, Ahead
    <3> QED BY <3>1, <3>2 DEF Says
  <2>4. better(i) \subseteq ahead(r)
    BY <2>3
  <2>5. Cardinality(better(i)) <= Cardinality(ahead(r))
    BY <1>1, <2>4, FS_Subset
  <2>6. Cardinality(ahead(r)) \in Nat /\ Cardinality(better(i)) \in Nat
    BY <1>1, <1>2
  <2> HIDE DEF ahead, better
  <2>7. Cardinality(better(i)) < Limit
    BY <1>0, <2>1, <2>5, <2>6
  <2> QED BY <2>2, <2>7
<1>4. ASSUME NEW i \in Bests(C), Cardinality(notBehind(i)) <= Limit
      PROVE  \E r \in Ranking(pool) : r.player = history[i].player
  <2>1. PICK r \in Picked(pool) : Says(r, i)
    BY PickedSays
  <2>2. ASSUME NEW t \in Picked(pool), Ahead(t, r)
        PROVE  t.player \in notBehind(i) /\ t.player # history[i].player
    <3>1. PICK k \in Bests(C) : Says(t, k)
      BY PickedSays
    <3>2. ~Outdoes(i, k)
      BY <1>0, <2>1, <2>2, <3>1, Comparable DEF Says, Outdoes, Ahead
    <3>3. t.player # r.player
      BY <1>0, <2>2 DEF Picked
    <3> QED BY <2>1, <3>1, <3>2, <3>3 DEF Says
  <2>3. ahead(r) \subseteq notBehind(i) \ {history[i].player}
    BY <2>2
  <2>4. history[i].player \in notBehind(i)
    <3>1. ~Outdoes(i, i)
      BY <1>0, Comparable DEF Outdoes
    <3> QED BY <3>1
  <2>9. /\ Cardinality(ahead(r)) \in Nat /\ Cardinality(notBehind(i)) \in Nat
        /\ Cardinality(notBehind(i)) <= Limit
    BY <1>1, <1>2, <1>4
  <2> HIDE DEF ahead, notBehind
  <2>5. /\ IsFiniteSet(notBehind(i) \ {history[i].player})
        /\ Cardinality(notBehind(i) \ {history[i].player}) = Cardinality(notBehind(i)) - 1
    BY <1>2, <2>4, FS_RemoveElement
  <2>6. Cardinality(ahead(r)) <= Cardinality(notBehind(i)) - 1
    BY <2>3, <2>5, FS_Subset
  <2>7. Cardinality(ahead(r)) < Limit
    BY <1>0, <2>6, <2>9
  <2> USE DEF ahead
  <2>8. r \in Ranking(pool)
    BY <2>1, <2>7 DEF Ranking
  <2> QED BY <2>1, <2>8 DEF Says
<1> QED BY <1>3, <1>4 DEF Answers, Says

-----------------------------------------------------------------------------
(* The three pools.                                                          *)

\* What a best row is: its player's best submission of its drill.
LEMMA BestRows ==
    ASSUME TypeOK, Ledger, BestIsMax, NEW b \in bests
    PROVE  /\ b \in ScoreRow /\ b.receipt \in DOMAIN history
           /\ b.player \in live /\ Says(b, b.receipt)
           /\ SameSlot(b, history[b.receipt])
           /\ PersonalBest(b.receipt, Len(history))
<1>1. b \in ScoreRow /\ b.player \in live
  BY DEF TypeOK, Ledger, EraseComplete
<1>2. Claims(b, b.receipt) /\ b.at = history[b.receipt].at
  BY DEF Ledger, ProofsAreAccepted
<1> QED BY <1>1, <1>2 DEF BestIsMax, Claims, Says, SameSlot

\* What a run row is: a publication after which its player made fewer than
\* RunCap others, for each of those has its place in the feed order too.
LEMMA RunRows ==
    ASSUME TypeOK, Ledger, Arrivals, NEW r \in runs
    PROVE  /\ r \in ScoreRow /\ r.receipt \in DOMAIN history
           /\ r.player \in live /\ Says(r, r.receipt)
           /\ SameSlot(r, history[r.receipt]) /\ history[r.receipt].publish
           /\ Cardinality(PublishedSince(r.receipt, r.player)) < RunCap
<1>1. r \in ScoreRow /\ r.player \in live
  BY DEF TypeOK, Ledger, EraseComplete
<1>2. /\ Claims(r, r.receipt) /\ r.at = history[r.receipt].at /\ r.publish
  BY DEF Ledger, ProofsAreAccepted
<1>3. PICK f \in feed : f.id = r.receipt /\ f.player = r.player
  BY DEF Ledger, RunLedger
<1> DEFINE later == PublishedSince(r.receipt, r.player)
           mine  == FeedOf(feed, r.player)
           rows  == {g \in mine : g.id \in later}
<1>4. Cardinality(later) < RunCap
  <2>1. /\ IsFiniteSet(mine) /\ Cardinality(mine) \in Nat
        /\ Cardinality(mine) <= RunCap /\ f \in mine
    <3>1. mine \subseteq feed /\ IsFiniteSet(feed) /\ r.player \in Players
      BY <1>1 DEF FeedOf, Ledger, FeedBounded, ScoreRow
    <3>2. IsFiniteSet(mine) /\ Cardinality(mine) \in Nat
      BY <3>1, FewerSubmissions
    <3> QED BY <1>3, <3>1, <3>2 DEF FeedOf, Ledger, FeedBounded
  <2>2. /\ IsFiniteSet(mine \ {f})
        /\ Cardinality(mine \ {f}) = Cardinality(mine) - 1
    BY <2>1, FS_RemoveElement
  <2>3. rows \subseteq mine \ {f}
    <3>1. f.id \notin later
      BY <1>2, <1>3, Numbered DEF PublishedSince, Claims
    <3> QED BY <3>1
  <2>4. Cardinality(rows) <= Cardinality(mine \ {f})
    BY <2>2, <2>3, FewerSubmissions
  <2>5. IsFiniteSet(later)
    BY Numbered DEF PublishedSince
  <2>6. \A s, t \in rows : s.id = t.id => s = t
    BY DEF FeedOf, Ledger, FeedLedger
  <2>7. \A j \in later : \E g \in rows : g.id = j
    <3> SUFFICES ASSUME NEW j \in later PROVE \E g \in rows : g.id = j
      OBVIOUS
    <3>1. PICK g \in feed : g.id = j
      BY <1>3 DEF Arrivals, Gapless
    <3>2. g.player = r.player
      BY <3>1 DEF PublishedSince, Ledger, FeedLedger
    <3> QED BY <3>1, <3>2 DEF FeedOf
  <2>8. /\ Cardinality(rows) \in Nat /\ Cardinality(later) \in Nat
        /\ Cardinality(later) <= Cardinality(rows)
    BY <2>5, <2>6, <2>7, RowsByIds
  <2> HIDE DEF rows, later, mine
  <2> QED BY <2>1, <2>2, <2>4, <2>8, CapsAssumption
<1> QED BY <1>1, <1>2, <1>4 DEF Claims, Says, SameSlot

\* The rows an all-time board reads stand for the accepted runs.
LEMMA AllTimeStandsFor ==
    ASSUME TypeOK, Ledger, Arrivals, BestIsMax, Covered, NEW m, NEW d
    PROVE  StandsFor(AllTimePool(m, d), AllTimeCounted(m, d))
<1> DEFINE pool == AllTimePool(m, d)
           C    == AllTimeCounted(m, d)
<1>1. /\ pool \subseteq ScoreRow /\ IsFiniteSet(pool) /\ C \subseteq DOMAIN history
  <2>1. pool \subseteq bests
    BY DEF AllTimePool, OnDrill
  <2> QED BY <2>1, FS_Subset DEF Arrivals, AllTimeCounted, TypeOK
<1>2. ASSUME NEW r \in pool
      PROVE  \E i \in C : Says(r, i)
  <2>1. r \in bests /\ r.mode = m /\ r.body.drill = d
    BY DEF AllTimePool, OnDrill
  <2>2. /\ r.receipt \in DOMAIN history /\ r.player \in live
        /\ Says(r, r.receipt) /\ SameSlot(r, history[r.receipt])
    BY <2>1, BestRows
  <2> QED BY <2>1, <2>2 DEF AllTimeCounted, Of, SameSlot
<1>3. ASSUME NEW i \in C
      PROVE  \E r \in pool : Attains(r, i)
  <2>1. /\ i \in DOMAIN history /\ history[i].player \in live
        /\ history[i].mode = m /\ history[i].body.drill = d
    BY DEF AllTimeCounted, Of
  <2>2. PICK b \in bests : /\ SameSlot(b, history[i])
                           /\ b.body.score >= history[i].body.score
    BY <2>1 DEF Covered
  <2>3. /\ b \in ScoreRow /\ b.receipt \in DOMAIN history
        /\ Says(b, b.receipt) /\ SameSlot(b, history[b.receipt])
        /\ PersonalBest(b.receipt, Len(history))
    BY BestRows
  <2>4. b \in pool /\ b.player = history[i].player
    BY <2>1, <2>2 DEF AllTimePool, OnDrill, SameSlot
  <2>5. \/ history[i].body.score < b.body.score
        \/ history[i].body.score = b.body.score /\ i >= b.receipt
    <3>1. SameSlot(history[i], history[b.receipt])
      BY <2>2, <2>3 DEF SameSlot
    <3> QED BY <2>1, <2>3, <3>1, Numbered DEF PersonalBest, Says
  <2>6. i >= b.receipt => b.at <= history[i].at
    BY <2>1, <2>3, Numbered DEF Arrivals, Dated, Says
  <2>7. b.body.score \in Int /\ history[i].body.score \in Int
    BY <2>1, <2>3, Comparable
  <2>8. Attains(b, i)
    BY <2>4, <2>5, <2>6, <2>7 DEF Attains
  <2> QED BY <2>4, <2>8
<1> QED BY <1>1, <1>2, <1>3 DEF StandsFor

\* Dates of the window are unexpired.
LEMMA SinceUnexpired ==
    ASSUME TypeOK
    PROVE  Since \in Int /\ Expiry \in Int /\ Since >= Expiry
  BY WindowAssumption, CapsAssumption DEF TypeOK, Since, Expiry

\* The rows a windowed board reads stand for the runs of the window.
LEMMA WindowStandsFor ==
    ASSUME TypeOK, Ledger, Arrivals, BestIsMax, NewestRetained, NEW m, NEW d
    PROVE  StandsFor(WindowPool(m, d), WindowCounted(m, d))
<1> DEFINE pool == WindowPool(m, d)
           C    == WindowCounted(m, d)
<1>1. /\ pool \subseteq ScoreRow /\ IsFiniteSet(pool) /\ C \subseteq DOMAIN history
  <2>1. pool \subseteq bests \cup runs
    BY DEF WindowPool, OnDrill
  <2>2. IsFiniteSet(bests \cup runs)
    BY FS_Union DEF Arrivals
  <2> QED BY <2>1, <2>2, FS_Subset DEF AllTimeCounted, WindowCounted, TypeOK
<1>2. ASSUME NEW r \in pool
      PROVE  \E i \in C : Says(r, i)
  <2>1. /\ r \in bests \cup runs /\ r.mode = m /\ r.body.drill = d /\ r.at >= Since
    BY DEF WindowPool, OnDrill
  <2>2. /\ r \in ScoreRow /\ r.receipt \in DOMAIN history /\ r.player \in live
        /\ Says(r, r.receipt) /\ SameSlot(r, history[r.receipt])
    BY <2>1, BestRows, RunRows
  <2>3. r.receipt \in AllTimeCounted(m, d) /\ history[r.receipt].at >= Since
    BY <2>1, <2>2 DEF AllTimeCounted, Of, SameSlot, Says
  <2>4. CASE r \in bests
    BY <2>2, <2>3, <2>4, BestRows DEF WindowCounted
  <2>5. CASE r \in runs
    <3>1. history[r.receipt].at >= Expiry
      BY <2>2, <2>3, SinceUnexpired, Comparable
    <3>2. Kept(r.receipt)
      BY <2>2, <2>5, <3>1, RunRows DEF Kept, Says
    <3> QED BY <2>2, <2>3, <3>2 DEF WindowCounted
  <2> QED BY <2>1, <2>4, <2>5
<1>3. ASSUME NEW i \in C
      PROVE  \E r \in pool : Attains(r, i)
  <2>1. /\ i \in DOMAIN history /\ history[i].player \in live
        /\ history[i].mode = m /\ history[i].body.drill = d
        /\ history[i].at >= Since
        /\ Kept(i) \/ PersonalBest(i, Len(history))
    BY DEF WindowCounted, AllTimeCounted, Of
  <2>2. \E r \in bests \cup runs : r.receipt = i
    BY <2>1 DEF BestIsMax, NewestRetained, Kept
  <2>3. PICK r \in bests \cup runs : r.receipt = i
    BY <2>2
  <2>4. r \in ScoreRow /\ Says(r, i) /\ SameSlot(r, history[i])
    BY <2>3, BestRows, RunRows
  <2>5. r \in pool
    BY <2>1, <2>3, <2>4 DEF WindowPool, OnDrill, SameSlot, Says
  <2>6. Attains(r, i)
    BY <2>1, <2>4, Comparable DEF Says, Attains
  <2> QED BY <2>5, <2>6
<1> QED BY <1>1, <1>2, <1>3 DEF StandsFor

\* Rows told apart by the submissions they record are as many as those.
LEMMA RowsByReceipts ==
    ASSUME NEW S, NEW D, IsFiniteSet(D),
           {s.receipt : s \in S} = D,
           \A s, t \in S : s.receipt = t.receipt => s = t
    PROVE  Cardinality(S) = Cardinality(D)
<1> DEFINE f == [s \in S |-> s.receipt]
<1>1. f \in [S -> D] /\ \A s \in S : f[s] = s.receipt
  OBVIOUS
<1>2. f \in Injection(S, D)
  BY <1>1 DEF Injection, IsInjective
<1>3. IsFiniteSet(S) /\ Cardinality(S) <= Cardinality(D)
  BY <1>2, FS_Injection
<1>4. f \in Surjection(S, D)
  BY <1>1 DEF Surjection
<1>5. Cardinality(D) <= Cardinality(S)
  BY <1>3, <1>4, FS_Surjection
<1> QED BY <1>3, <1>5, FS_CardinalityType

\* Among the runs of a mode the query's order, latest day first and then the
\* highest run id, is the order of arrival; no two runs record one submission.
LEMMA NewerIsLater ==
    ASSUME TypeOK, Ledger, Arrivals,
           NEW r \in runs, NEW s \in runs, r.mode = s.mode
    PROVE  /\ Newer(s, r) <=> s.receipt > r.receipt
           /\ r.receipt = s.receipt => r = s
<1>1. PICK f \in feed : /\ f.mode = r.mode /\ f.run = r.id /\ f.id = r.receipt
                        /\ f.at = r.at
  BY DEF Ledger, RunLedger
<1>2. PICK g \in feed : /\ g.mode = s.mode /\ g.run = s.id /\ g.id = s.receipt
                        /\ g.at = s.at
  BY DEF Ledger, RunLedger
<1>3. /\ r \in ScoreRow /\ s \in ScoreRow
      /\ Claims(r, r.receipt) /\ r.at = history[r.receipt].at
      /\ Claims(s, s.receipt) /\ s.at = history[s.receipt].at
  BY DEF TypeOK, Ledger, ProofsAreAccepted
<1>4. /\ r.receipt \in DOMAIN history /\ s.receipt \in DOMAIN history
      /\ r.receipt \in Nat /\ s.receipt \in Nat
      /\ r.at \in Nat /\ s.at \in Nat /\ r.id \in Nat /\ s.id \in Nat
  BY <1>3 DEF Claims, ScoreRow
<1>5. /\ r.receipt <= s.receipt => r.at <= s.at
      /\ s.receipt <= r.receipt => s.at <= r.at
  BY <1>3, <1>4 DEF Arrivals, Dated
<1>6. /\ r.id < s.id => r.receipt < s.receipt
      /\ s.id < r.id => s.receipt < r.receipt
  BY <1>1, <1>2 DEF Arrivals, InOrder
<1>7. /\ r.id = s.id => r.receipt = s.receipt
      /\ r.receipt = s.receipt => r.id = s.id
  BY <1>1, <1>2 DEF Ledger, FeedLedger
<1>8. Newer(s, r) <=> s.receipt > r.receipt
  BY <1>4, <1>5, <1>6, <1>7 DEF Newer
<1>9. r.receipt = s.receipt => r = s
  BY <1>3, <1>7, ScoreRowEqual DEF Claims
<1> QED BY <1>8, <1>9

\* The runs the store promises to keep, of one board, since the bound.
Promised(m, d, bound) ==
    {i \in AllTimeCounted(m, d) : Kept(i) /\ history[i].at >= bound}

\* What Recent reads of one mode are the latest runs of that mode.
LEMMA RecentAnswers ==
    ASSUME TypeOK, Ledger, Arrivals, NewestRetained,
           NEW m, NEW d, NEW windowed \in BOOLEAN
    PROVE  LET C == Promised(m, d, FeedBound(windowed))
           IN  {r.receipt : r \in Recent(m, d, windowed)}
                   = {i \in C : Cardinality({j \in C : j > i}) < Limit}
<1> DEFINE pool == RecentPool(m, d, windowed)
           C    == Promised(m, d, FeedBound(windowed))
           newer(r) == {s \in pool : Newer(s, r)}
           later(i) == {j \in C : j > i}
<1>1. FeedBound(windowed) \in Int /\ FeedBound(windowed) >= Expiry /\ Expiry \in Int
  BY SinceUnexpired DEF FeedBound
<1>2. ASSUME NEW r \in pool
      PROVE  /\ r \in runs /\ r.mode = m /\ r.receipt \in C
  <2>1. /\ r \in runs /\ r.mode = m /\ r.body.drill = d /\ r.at >= FeedBound(windowed)
    BY DEF RecentPool, OnDrill
  <2>2. /\ r \in ScoreRow /\ r.receipt \in DOMAIN history /\ r.player \in live
        /\ Says(r, r.receipt)
        /\ SameSlot(r, history[r.receipt]) /\ history[r.receipt].publish
        /\ Cardinality(PublishedSince(r.receipt, r.player)) < RunCap
    BY <2>1, RunRows
  <2>3. r.receipt \in AllTimeCounted(m, d)
    BY <2>1, <2>2 DEF AllTimeCounted, Of, SameSlot, Says
  <2>4. history[r.receipt].at = r.at /\ r.at \in Nat
    BY <2>2, Comparable DEF Says
  <2>5. Kept(r.receipt)
    BY <1>1, <2>1, <2>2, <2>4 DEF Kept, Says
  <2> QED BY <2>1, <2>3, <2>4, <2>5 DEF Promised
<1>3. ASSUME NEW i \in C
      PROVE  \E r \in pool : r.receipt = i
  <2>1. /\ i \in DOMAIN history /\ history[i].player \in live
        /\ history[i].mode = m /\ history[i].body.drill = d
        /\ history[i].at >= FeedBound(windowed) /\ Kept(i)
    BY DEF Promised, AllTimeCounted, Of
  <2>2. PICK r \in runs : r.mode = m /\ r.receipt = i
    BY <2>1 DEF NewestRetained, Kept
  <2>3. Says(r, i) /\ SameSlot(r, history[i])
    BY <2>2, RunRows
  <2> QED BY <2>1, <2>2, <2>3 DEF RecentPool, OnDrill, SameSlot, Says
<1>4. ASSUME NEW r \in pool
      PROVE  Cardinality(newer(r)) = Cardinality(later(r.receipt))
  <2>1. \A s \in pool : Newer(s, r) <=> s.receipt > r.receipt
    BY <1>2, NewerIsLater
  <2>2. {s.receipt : s \in newer(r)} = later(r.receipt)
    <3>1. \A s \in newer(r) : s.receipt \in later(r.receipt)
      BY <1>2, <2>1
    <3>2. \A j \in later(r.receipt) : \E s \in newer(r) : s.receipt = j
      BY <1>3, <2>1
    <3> QED BY <3>1, <3>2
  <2>3. IsFiniteSet(later(r.receipt))
    <3>1. later(r.receipt) \subseteq DOMAIN history
      BY DEF Promised, AllTimeCounted
    <3> QED BY <3>1, Numbered
  <2>4. \A s, t \in newer(r) : s.receipt = t.receipt => s = t
    BY <1>2, NewerIsLater
  <2> QED BY <2>2, <2>3, <2>4, RowsByReceipts
<1>5. Recent(m, d, windowed) = {r \in pool : Cardinality(newer(r)) < Limit}
  BY DEF Recent
<1>6. \A i : i \in {r.receipt : r \in Recent(m, d, windowed)}
               <=> i \in C /\ Cardinality(later(i)) < Limit
  <2> HIDE DEF pool, C, newer, later
  <2> QED BY <1>2, <1>3, <1>4, <1>5
<1> QED BY <1>6

-----------------------------------------------------------------------------
(* The boards.                                                               *)

\* The all-time board (read and readArcade) answers, for any limit, exactly
\* the best scores ever accepted of the players still there, whatever was
\* retried, pruned, erased or restarted in between.
THEOREM AllTimeExactHolds == Spec => []AllTimeExact
<1>1. TypeOK /\ Ledger /\ Arrivals /\ BestIsMax /\ Covered => AllTimeExact
  BY AllTimeStandsFor, PoolAnswers DEF AllTimeExact
<1> QED
  BY <1>1, TypeCorrect, LedgerInvariant, ArrivalsInvariant, BestsHold, PTL

\* The windowed board (readSince, readArcade), read from two stores of which
\* one is pruned, answers exactly the best scores of the window among the runs
\* the consent promises to keep and the personal bests.
THEOREM WindowExactHolds == Spec => []WindowExact
<1>1. TypeOK /\ Ledger /\ Arrivals /\ BestIsMax /\ NewestRetained => WindowExact
  BY WindowStandsFor, PoolAnswers DEF WindowExact
<1> QED
  BY <1>1, TypeCorrect, LedgerInvariant, ArrivalsInvariant, BestsHold,
     NewestRetainedInvariant, PTL

\* Recent (readRecentSince) answers exactly the latest runs the store promises
\* to keep, although it reads a table that is pruned late and orders it by
\* date and run id.
THEOREM RecentExactHolds == Spec => []RecentExact
<1>1. TypeOK /\ Ledger /\ Arrivals /\ NewestRetained => RecentExact
  <2> SUFFICES ASSUME TypeOK, Ledger, Arrivals, NewestRetained,
                      NEW m \in Modes, NEW d \in Drills, NEW windowed \in BOOLEAN
               PROVE  LET C == Promised(m, d, FeedBound(windowed))
                      IN  {r.receipt : r \in Recent(m, d, windowed)}
                              = {i \in C : Cardinality({j \in C : j > i}) < Limit}
    BY Zenon DEF RecentExact, Promised
  <2> QED BY RecentAnswers
<1> QED
  BY <1>1, TypeCorrect, LedgerInvariant, ArrivalsInvariant,
     NewestRetainedInvariant, PTL

=============================================================================
