----------------------------- MODULE DrillStore -----------------------------
(***************************************************************************)
(* The drills score store: four families of SQLite tables shared by        *)
(* Endless and Arcade submissions, the two save transactions that write    *)
(* them, the retention passes that prune them and the account erasure that *)
(* cascades through them.                                                  *)
(*                                                                         *)
(* SQLite runs one transaction at a time, so a save is one action.  A      *)
(* retention pass is three autocommitted statements, so it is three        *)
(* actions, between which saves, reads, erasures and restarts may happen.  *)
(***************************************************************************)
EXTENDS Integers, FiniteSets, Sequences

CONSTANTS
    Modes,        \* the modes in play, of "endless" and "arcade"
    Players,      \* player ids; ids are minted at random, never reused
    Clients,      \* client ids the apps put on their submissions
    Drills,       \* drill ids
    Scores,       \* standings of a run: a score, or Arcade's ranking tuple
    RunCap,       \* published runs kept per player (RunCap, 200)
    ReceiptCap,   \* retry receipts kept per player and mode (100)
    Retention,    \* days a published run is kept (RunRetention, 90)
    Readers,      \* concurrent Recent or Arcade board reads
    MaxClock,     \* bound: last day of the clock
    MaxAccepts    \* bound: submissions accepted

ASSUME ModesAssumption == Modes \subseteq {"endless", "arcade"}
ASSUME ScoresAssumption == Scores \subseteq Int
ASSUME CapsAssumption == /\ RunCap \in Nat \ {0}
                         /\ ReceiptCap \in Nat \ {0}
                         /\ Retention \in Nat \ {0}
ASSUME BoundsAssumption == MaxClock \in Nat /\ MaxAccepts \in Nat
ASSUME ReadersAssumption == "worker" \notin Readers

VARIABLES
    clock,      \* days since the first start
    live,       \* players whose row exists
    receipts,   \* drill_receipts and arcade_receipts
    runs,       \* drill_runs and arcade_runs
    bests,      \* drill_bests and arcade_bests
    feed,       \* drill_feed_order
    lastRun,    \* sqlite_sequence of the two run tables
    history,    \* every accepted submission, in commit order (history variable)
    pc,         \* the statement each retention pass runs next, or "idle"
    cutoff,     \* the expiry bound each retention pass computed when it began
    serving     \* the startup pass is over and requests are served

vars   == <<clock, live, receipts, runs, bests, feed, lastRun, history,
            pc, cutoff, serving>>

-----------------------------------------------------------------------------
(* Rows.  The body hash is injective, so a row carries the body itself: the  *)
(* drill and the standing it claims.  Receipt, best and feed ids are only    *)
(* ever compared for order inside one table and are taken from one counter,  *)
(* the length of the history; run ids are per mode, because drill_feed_order *)
(* holds both modes' run ids side by side.                                   *)
(*                                                                           *)
(* A definition with a suffix after an underscore is the one below it with a *)
(* fault seeded in; no action uses it.                                       *)

Body     == [drill : Drills, score : Scores]
Request  == [mode : Modes, player : Players, client : Clients, body : Body,
             publish : BOOLEAN]
Accepted == [mode : Modes, player : Players, client : Clients, body : Body,
             publish : BOOLEAN, at : Nat]
ReceiptRow == [id : Nat, mode : Modes, player : Players, client : Clients,
               body : Body, publish : BOOLEAN]
ScoreRow   == [id : Nat, mode : Modes, player : Players, client : Clients,
               body : Body, publish : BOOLEAN, receipt : Nat, at : Nat]
FeedRow    == [id : Nat, mode : Modes, player : Players, run : Nat, at : Nat]

\* The worker owns the startup pass and the hourly ones; a Recent read or any
\* Arcade read runs a pass of its own first.
Worker  == "worker"
Pruners == Readers \cup {Worker}
Tables  == {"drill_runs", "arcade_runs", "drill_feed_order"}

Expiry == clock - Retention

\* The n rows of S with the highest ids: ORDER BY id DESC LIMIT n.
Newest_OneMore(S, n) == {r \in S : Cardinality({s \in S : s.id > r.id}) <= n}
Newest(S, n) == {r \in S : Cardinality({s \in S : s.id > r.id}) < n}

-----------------------------------------------------------------------------
(* Deduplication: what a save finds before it writes anything.               *)

SameKey(r, q) == r.mode = q.mode /\ r.player = q.player /\ r.client = q.client

Receipts(q) == {r \in receipts : SameKey(r, q)}
RunsOf_Forgotten(q) == {}
RunsOf(q)   == {r \in runs : SameKey(r, q)}
BestsOf(q)  == {b \in bests : SameKey(b, q)}

\* A row vouches for an identical retry when body and route both agree.
Answer(rows, q) ==
    IF \E r \in rows : r.body = q.body /\ r.publish = q.publish
    THEN "repeated" ELSE "conflict"

\* 201 created, 200 with the original receipt id, or 422 client_id_conflict.
\* The receipt is asked first, then the published run, then the retained best.
\* An Endless best keeps neither body hash nor route, so it can only refuse,
\* and an Endless save that does not publish never asks it.
Verdict(q) ==
    IF Receipts(q) # {} THEN Answer(Receipts(q), q)
    ELSE IF RunsOf(q) # {} THEN Answer(RunsOf(q), q)
    ELSE IF BestsOf(q) = {} THEN "created"
    ELSE IF q.mode = "arcade" THEN Answer(BestsOf(q), q)
    ELSE IF q.publish THEN "conflict"
    ELSE "created"

-----------------------------------------------------------------------------
(* The writes of one accepted submission, n-th of the history.               *)

\* Player p's feed order, and player p's receipts in mode m.
FeedOf(S, p) == {f \in S : f.player = p}

ReceiptsOf_EitherMode(S, m, p) == {r \in S : r.player = p}
ReceiptsOf(S, m, p)            == {r \in S : r.mode = m /\ r.player = p}

\* What DELETE ... WHERE created_at < bound leaves of mode m's run table, and
\* of the feed order.  A save runs the first over its own table, for every
\* player; a retention pass runs both.
Unexpired_DayEarly(m, bound) == {r \in runs : r.mode = m => r.at > bound}
Unexpired(m, bound)          == {r \in runs : r.mode = m => r.at >= bound}

UnexpiredFeed_DayEarly(bound) == {f \in feed : f.at > bound}
UnexpiredFeed_Kept(bound)     == feed
UnexpiredFeed(bound)          == {f \in feed : f.at >= bound}

AddReceipt(q, n) ==
    LET row   == [id |-> n, mode |-> q.mode, player |-> q.player,
                  client |-> q.client, body |-> q.body, publish |-> q.publish]
        added == receipts \cup {row}
        mine  == ReceiptsOf(added, q.mode, q.player)
    IN  (added \ mine) \cup Newest(mine, ReceiptCap)

\* The standing row of the submission's player, mode and drill.
Standing(q) == {b \in bests : /\ b.mode = q.mode
                              /\ b.player = q.player
                              /\ b.body.drill = q.body.drill}

ScoreRowOf_OwnIdAsReceipt(q, id, n) ==
    [id |-> id, mode |-> q.mode, player |-> q.player, client |-> q.client,
     body |-> q.body, publish |-> q.publish, receipt |-> id, at |-> clock]

ScoreRowOf(q, id, n) ==
    [id |-> id, mode |-> q.mode, player |-> q.player, client |-> q.client,
     body |-> q.body, publish |-> q.publish, receipt |-> n, at |-> clock]

\* A standing row yields only to a strictly better submission.
Stands_NotOnTies(b, q) == b.body.score > q.body.score
Stands(b, q)           == b.body.score >= q.body.score

\* The upsert: a strictly better submission takes the row over, and the row
\* keeps the id it was first inserted with.
UpsertBest(q, n) ==
    IF \E b \in Standing(q) : Stands(b, q) THEN bests
    ELSE LET id == IF Standing(q) = {} THEN n
                   ELSE (CHOOSE b \in Standing(q) : TRUE).id
         IN  (bests \ Standing(q)) \cup {ScoreRowOf(q, id, n)}

NextRunId_Reused(m) ==
    LET ids == {r.id : r \in {s \in runs : s.mode = m}}
    IN  IF ids = {} THEN 1 ELSE (CHOOSE i \in ids : \A j \in ids : j <= i) + 1

\* AUTOINCREMENT: above every id the table ever held.
NextRunId(m) == lastRun[m] + 1

\* drill_feed_order with the new run appended.
Appended(q, n) ==
    feed \cup {[id |-> n, mode |-> q.mode, player |-> q.player,
                run |-> NextRunId(q.mode), at |-> clock]}

\* prunePlayerRuns: of the player's runs, in both tables, only those among the
\* newest RunCap feed rows stay; so do only those feed rows.
PublishRun(q, n) ==
    LET mine   == FeedOf(Appended(q, n), q.player)
        newest == Newest(mine, RunCap)
    IN  /\ runs' = {r \in Unexpired(q.mode, Expiry)
                          \cup {ScoreRowOf(q, NextRunId(q.mode), n)} :
                       \/ r.player # q.player
                       \/ \E f \in newest : f.mode = r.mode /\ f.run = r.id}
        /\ feed' = (Appended(q, n) \ mine) \cup newest
        /\ lastRun' = [lastRun EXCEPT ![q.mode] = NextRunId(q.mode)]

\* An insert that would break UNIQUE(player_id,client_id) or UNIQUE(mode,run_id)
\* rolls the whole save back; so does the foreign key of an erased player.
UniqueClash(q) ==
    /\ q.publish
    /\ \/ \E r \in Unexpired(q.mode, Expiry) : SameKey(r, q)
       \/ \E f \in feed : f.mode = q.mode /\ f.run = NextRunId(q.mode)

Insertable_NoForeignKey(q) == ~UniqueClash(q)
Insertable(q)              == q.player \in live /\ ~UniqueClash(q)

-----------------------------------------------------------------------------
(* Actions.                                                                  *)

\* A process starts: only the startup pass runs, before anything is served.
StartPc     == [w \in Pruners |-> IF w = Worker THEN "drill_runs" ELSE "idle"]
StartCutoff == [w \in Pruners |-> IF w = Worker THEN Expiry ELSE 0]

Init ==
    /\ clock = 0
    /\ live = Players
    /\ receipts = {} /\ runs = {} /\ bests = {} /\ feed = {}
    /\ lastRun = [m \in Modes |-> 0]
    /\ history = <<>>
    /\ pc = StartPc
    /\ cutoff = StartCutoff
    /\ serving = FALSE

\* saveWithIntent and saveArcade, the accepting path.  The bearer was checked
\* earlier, outside the transaction: the player may have been erased since.
\* A refused or repeated submission, or one rolled back, leaves every table as
\* it was and is a stuttering step.
Save(q) ==
    LET n == Len(history) + 1 IN
    /\ serving
    /\ n <= MaxAccepts
    /\ Verdict(q) = "created"
    /\ Insertable(q)
    /\ receipts' = AddReceipt(q, n)
    /\ bests' = UpsertBest(q, n)
    /\ IF q.publish
       THEN PublishRun(q, n)
       ELSE runs' = Unexpired(q.mode, Expiry) /\ UNCHANGED <<feed, lastRun>>
    /\ history' = Append(history, [mode |-> q.mode, player |-> q.player,
                                   client |-> q.client, body |-> q.body,
                                   publish |-> q.publish, at |-> clock])
    /\ UNCHANGED <<clock, live, pc, cutoff, serving>>

\* DELETE FROM players; every table cascades.
Erase(p) ==
    /\ serving
    /\ p \in live
    /\ live' = live \ {p}
    /\ receipts' = {r \in receipts : r.player # p}
    /\ runs' = {r \in runs : r.player # p}
    /\ bests' = {b \in bests : b.player # p}
    /\ feed' = {f \in feed : f.player # p}
    /\ UNCHANGED <<clock, lastRun, history, pc, cutoff, serving>>

\* PruneExpired begins: the hourly tick, or a board read.
StartPrune(w) ==
    /\ serving
    /\ pc[w] = "idle"
    /\ pc' = [pc EXCEPT ![w] = "drill_runs"]
    /\ cutoff' = [cutoff EXCEPT ![w] = Expiry]
    /\ UNCHANGED <<clock, live, receipts, runs, bests, feed, lastRun, history,
                   serving>>

\* A finished or failed pass drops its cutoff.
Leave(w) ==
    /\ pc' = [pc EXCEPT ![w] = "idle"]
    /\ cutoff' = [cutoff EXCEPT ![w] = 0]

PruneRuns(w, m, table, next) ==
    /\ pc[w] = table
    /\ runs' = Unexpired(m, cutoff[w])
    /\ pc' = [pc EXCEPT ![w] = next]
    /\ UNCHANGED <<clock, live, receipts, bests, feed, lastRun, history,
                   cutoff, serving>>

PruneDrillRuns(w)  == PruneRuns(w, "endless", "drill_runs", "arcade_runs")
PruneArcadeRuns(w) == PruneRuns(w, "arcade", "arcade_runs", "drill_feed_order")

\* The last statement; the startup pass is over and the server begins to serve.
PruneFeed(w) ==
    /\ pc[w] = "drill_feed_order"
    /\ feed' = UnexpiredFeed(cutoff[w])
    /\ Leave(w)
    /\ serving' = (serving \/ w = Worker)
    /\ UNCHANGED <<clock, live, receipts, runs, bests, lastRun, history>>

\* A statement fails, or the reader's request context is cancelled: the pass
\* ends where it is and the statements already committed stay committed.
AbandonPrune(w) ==
    /\ serving
    /\ pc[w] # "idle"
    /\ Leave(w)
    /\ UNCHANGED <<clock, live, receipts, runs, bests, feed, lastRun, history,
                   serving>>

\* The process dies and starts again: what was committed is what the startup
\* pass finds.  A failing startup pass ends the process and is this step too.
Restart ==
    /\ serving' = FALSE
    /\ pc' = StartPc
    /\ cutoff' = StartCutoff
    /\ UNCHANGED <<clock, live, receipts, runs, bests, feed, lastRun, history>>

Tick ==
    /\ clock < MaxClock
    /\ clock' = clock + 1
    /\ UNCHANGED <<live, receipts, runs, bests, feed, lastRun, history, pc,
                   cutoff, serving>>

PruneStep(w) == PruneDrillRuns(w) \/ PruneArcadeRuns(w) \/ PruneFeed(w)

Next ==
    \/ \E q \in Request : Save(q)
    \/ \E p \in Players : Erase(p)
    \/ \E w \in Pruners : StartPrune(w) \/ PruneStep(w) \/ AbandonPrune(w)
    \/ Restart
    \/ Tick

Spec == Init /\ [][Next]_vars

-----------------------------------------------------------------------------
(* Properties.                                                               *)

\* Every variable keeps its shape, and the tables stay finite.
TypeOK ==
    /\ clock \in Nat
    /\ live \subseteq Players
    /\ receipts \subseteq ReceiptRow
    /\ runs \subseteq ScoreRow
    /\ bests \subseteq ScoreRow
    /\ feed \subseteq FeedRow
    /\ lastRun \in [Modes -> Nat]
    /\ history \in Seq(Accepted)
    /\ pc \in [Pruners -> Tables \cup {"idle"}]
    /\ cutoff \in [Pruners -> Int]
    /\ serving \in BOOLEAN

\* Every published run is in the shared feed order, with the same player and
\* date.  A run missing from it would be deleted by that player's next publish
\* however young it is: the cap deletes what the order does not list.
RunsIndexed ==
    \A r \in runs : \E f \in feed :
        f.mode = r.mode /\ f.run = r.id /\ f.player = r.player /\ f.at = r.at

\* The consented bound: no player has more than RunCap runs over both modes.
CapAcrossModes ==
    \A p \in Players : Cardinality({r \in runs : r.player = p}) <= RunCap

\* Publications of p accepted after the i-th submission.
PublishedSince(i, p) ==
    {j \in DOMAIN history : j > i /\ history[j].player = p /\ history[j].publish}

\* Nothing disappears early: a published run of a player not erased is in its
\* table until it expires or RunCap newer ones of that player, in any mode,
\* have been published, whatever passes, restarts and saves came in between.
NewestRetained ==
    \A i \in DOMAIN history :
        /\ history[i].publish
        /\ history[i].player \in live
        /\ history[i].at >= Expiry
        /\ Cardinality(PublishedSince(i, history[i].player)) < RunCap
        => \E r \in runs : r.mode = history[i].mode /\ r.receipt = i

\* Submissions of the same player and mode as the i-th, accepted after it.
AcceptedSince(i) ==
    {j \in DOMAIN history : /\ j > i
                            /\ history[j].mode = history[i].mode
                            /\ history[j].player = history[i].player}

\* The receipt ring holds exactly the newest ReceiptCap accepted submissions of
\* each player in each mode: the promise that a prompt retry hears 200.
ReceiptRing ==
    \A i \in DOMAIN history :
        history[i].player \in live =>
            ((\E r \in receipts : r.id = i)
                <=> Cardinality(AcceptedSince(i)) < ReceiptCap)

Claims(r, i) ==
    /\ i \in DOMAIN history
    /\ r.mode = history[i].mode /\ r.player = history[i].player
    /\ r.client = history[i].client /\ r.body = history[i].body
    /\ r.publish = history[i].publish

\* Whatever answers a retry names a submission that really was accepted with
\* that key, body and route: no row answers with another submission's id.
ProofsAreAccepted ==
    /\ \A r \in receipts : Claims(r, r.id)
    /\ \A r \in runs \cup bests :
           Claims(r, r.receipt) /\ r.at = history[r.receipt].at
    /\ \A r \in runs : r.publish

SameSlot(h, k) == /\ h.mode = k.mode /\ h.player = k.player
                  /\ h.body.drill = k.body.drill

\* Of the first n submissions none in its slot beats the i-th, and those that
\* tie with it came later.
PersonalBest(i, n) ==
    \A k \in 1..n :
        SameSlot(history[k], history[i]) =>
            \/ history[k].body.score < history[i].body.score
            \/ history[k].body.score = history[i].body.score /\ k >= i

\* The best rows are exactly the personal bests over everything ever accepted:
\* a replay whose receipt is gone cannot lower a best, nor give an equal score
\* a new date.
BestIsMax ==
    \A i \in DOMAIN history :
        history[i].player \in live =>
            ((\E b \in bests : b.receipt = i) <=> PersonalBest(i, Len(history)))

\* A client id is accepted a second time only after everything that remembers
\* it is gone: the receipt rolled off the ring, the published run expired or
\* was pushed out, and, in Arcade or when publishing, it was not the best.
NoEarlyReuse ==
    \A i, j \in DOMAIN history :
        i < j /\ SameKey(history[i], history[j]) =>
            /\ Cardinality(AcceptedSince(i) \cap 1..(j-1)) >= ReceiptCap
            /\ history[i].publish =>
                 \/ history[i].at < history[j].at - Retention
                 \/ Cardinality(PublishedSince(i, history[i].player)
                                    \cap 1..(j-1)) >= RunCap
            /\ history[j].mode = "arcade" \/ history[j].publish =>
                 ~PersonalBest(i, j - 1)

\* Erasure is complete and stays so: no table has a row of a player whose own
\* row is gone, even when a save authenticated before the erasure comes after.
EraseComplete ==
    \A r \in receipts \cup runs \cup bests \cup feed : r.player \in live

\* No accepted submission is ever rolled back by a UNIQUE index: run ids are
\* not reused while the feed order still lists an old one.
NoUniqueClash ==
    \A q \in Request : Verdict(q) = "created" => ~UniqueClash(q)

-----------------------------------------------------------------------------
(* The inductive strengthening behind the safety properties.                 *)

\* A pass under way deletes nothing that is not expired now.
PrunersLag ==
    \A w \in Pruners : pc[w] # "idle" => cutoff[w] <= Expiry

\* A pass that has left a run table behind has cleared it up to its cutoff, and
\* nothing that old has been inserted since.
PassProgress ==
    \A w \in Pruners : \A r \in runs :
        r.at < cutoff[w] => /\ pc[w] = "arcade_runs" => r.mode # "endless"
                            /\ pc[w] # "drill_feed_order"

\* The feed order lists published submissions, one row each, one run each.
FeedLedger ==
    /\ \A f \in feed :
           /\ f.id \in DOMAIN history
           /\ history[f.id].publish
           /\ f.mode = history[f.id].mode
           /\ f.player = history[f.id].player
           /\ f.at = history[f.id].at
           /\ f.run <= lastRun[f.mode]
    /\ \A f, g \in feed : f.mode = g.mode /\ f.run = g.run => f = g
    /\ \A f, g \in feed : f.id = g.id => f = g

\* Every run is listed there under its own submission.
RunLedger ==
    \A r \in runs : \E f \in feed : /\ f.mode = r.mode /\ f.run = r.id
                                    /\ f.player = r.player /\ f.at = r.at
                                    /\ f.id = r.receipt

\* No player has more than RunCap places in the feed order.
FeedBounded ==
    /\ IsFiniteSet(feed)
    /\ \A p \in Players : Cardinality(FeedOf(feed, p)) <= RunCap

Ledger ==
    /\ PrunersLag
    /\ PassProgress
    /\ FeedLedger
    /\ RunLedger
    /\ FeedBounded
    /\ ProofsAreAccepted
    /\ EraseComplete

-----------------------------------------------------------------------------
(* Statements of the documentation the code does not keep.                   *)

\* "Cross-route retries never promote best-only intent" (drills.go): a client
\* id once accepted best-only is never afterwards published with the same body.
NeverPromoted ==
    \A i, j \in DOMAIN history :
        /\ i < j
        /\ SameKey(history[i], history[j])
        /\ history[i].body = history[j].body
        /\ ~history[i].publish
        => ~history[j].publish

\* "A repeated client ID/body/route returns the original receipt" (README): the
\* identical retry of a submission whose client id was used for nothing else is
\* never told that the id belongs to a different body.
RetryNotRefused ==
    \A i \in DOMAIN history :
        /\ history[i].player \in live
        /\ \A j \in DOMAIN history : SameKey(history[i], history[j]) => i = j
        => Verdict(history[i]) # "conflict"

-----------------------------------------------------------------------------
(* Fairness: days pass, the hourly ticker fires, and a statement of the      *)
(* worker's pass that is attempted again and again is one day committed.     *)
(* Nothing makes a caller submit, read or erase.                             *)

Fairness ==
    /\ WF_vars(Tick)
    /\ WF_vars(StartPrune(Worker))
    /\ SF_vars(PruneDrillRuns(Worker))
    /\ SF_vars(PruneArcadeRuns(Worker))
    /\ SF_vars(PruneFeed(Worker))

FairSpec == Spec /\ Fairness

\* Every published run is really removed once it has expired, and so is its
\* place in the feed order, with no help from any caller.
ExpiredGo ==
    \A m \in Modes, i \in 1..MaxAccepts :
        /\ (\E r \in runs : r.mode = m /\ r.id = i /\ r.at < Expiry)
             ~> ~(\E r \in runs : r.mode = m /\ r.id = i)
        /\ (\E f \in feed : f.mode = m /\ f.run = i /\ f.at < Expiry)
             ~> ~(\E f \in feed : f.mode = m /\ f.run = i)
=============================================================================
