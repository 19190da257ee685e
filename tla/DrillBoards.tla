----------------------------- MODULE DrillBoards -----------------------------
(***************************************************************************)
(* What GET /v1/drills/board answers from the drills store: the all-time   *)
(* ranking, the 30-day ranking over two stores, and the Recent feed.  Each *)
(* is one query, so each is an operator on a state of DrillStore; the      *)
(* retention pass that Recent and Arcade reads run first is DrillStore's   *)
(* pass of a reader.  The caller's own standing, which every answer        *)
(* carries, is its row of the same ranking and is left out.                *)
(*                                                                         *)
(* The properties compare each answer with the history of accepted         *)
(* submissions, as if nothing were ever stored in bounded tables.          *)
(***************************************************************************)
EXTENDS DrillStore

CONSTANTS
    Window,   \* days of the limited ranking (WindowDays, 30)
    Limit     \* entries asked for

ASSUME WindowAssumption == Window \in Nat \ {0} /\ Window <= Retention
ASSUME LimitAssumption  == Limit \in Nat \ {0}

-----------------------------------------------------------------------------
(* The queries.                                                              *)

Since == clock - Window

OnDrill(S, m, d) == {r \in S : r.mode = m /\ r.body.drill = d}

\* The two pools a ranking draws from: the personal bests alone, or in a window
\* the bests and the published runs of both stores.
AllTimePool(m, d)          == OnDrill(bests, m, d)
WindowPool_BestsOnly(m, d) == {r \in OnDrill(bests, m, d) : r.at >= Since}
WindowPool(m, d) == {r \in OnDrill(bests \cup runs, m, d) : r.at >= Since}

\* ORDER BY score DESC, created_at ASC, id ASC; arcadeOrder ends the same way.
Ahead_Latest(r, s) ==
    \/ r.body.score > s.body.score
    \/ r.body.score = s.body.score /\ r.at > s.at
    \/ r.body.score = s.body.score /\ r.at = s.at /\ r.id < s.id
Ahead(r, s) ==
    \/ r.body.score > s.body.score
    \/ r.body.score = s.body.score /\ r.at < s.at
    \/ r.body.score = s.body.score /\ r.at = s.at /\ r.id < s.id

\* One row per player.  A run and a best may share score, date and id: then
\* either may be picked, and they say the same.
Picked(pool) ==
    {r \in pool : \A s \in pool : s.player = r.player => ~Ahead(s, r)}

\* The rows of rank at most Limit; rows that tie in everything may all be shown.
Ranking(pool) ==
    {r \in Picked(pool) :
        Cardinality({s.player : s \in {t \in Picked(pool) : Ahead(t, r)}})
            < Limit}

\* The newest runs, of the window when one is asked for; expired ones are left
\* out while they await deletion.  Since is never before Expiry.
Newer(r, s) == r.at > s.at \/ (r.at = s.at /\ r.id > s.id)

FeedBound(windowed) == IF windowed THEN Since ELSE Expiry

RecentPool_Expired(m, d, windowed) == OnDrill(runs, m, d)
RecentPool(m, d, windowed) ==
    {r \in OnDrill(runs, m, d) : r.at >= FeedBound(windowed)}

Recent(m, d, windowed) ==
    LET pool == RecentPool(m, d, windowed)
    IN  {r \in pool : Cardinality({s \in pool : Newer(s, r)}) < Limit}

-----------------------------------------------------------------------------
(* The same answers, from the history.                                       *)

Of(i, m, d) == /\ history[i].player \in live
               /\ history[i].mode = m
               /\ history[i].body.drill = d

\* Published, unexpired and among the player's newest RunCap: the runs the
\* consent promises to keep.
Kept(i) == /\ history[i].publish
           /\ history[i].at >= Expiry
           /\ Cardinality(PublishedSince(i, history[i].player)) < RunCap

\* Submissions a ranking takes into account.
AllTimeCounted(m, d) == {i \in DOMAIN history : Of(i, m, d)}
WindowCounted(m, d) ==
    {i \in AllTimeCounted(m, d) :
        history[i].at >= Since /\ (Kept(i) \/ PersonalBest(i, Len(history)))}

\* i outdoes j: a higher score, or the same score on an earlier day.
Outdoes(i, j) ==
    \/ history[i].body.score > history[j].body.score
    \/ /\ history[i].body.score = history[j].body.score
       /\ history[i].at < history[j].at

\* The submissions no other one of the same player outdoes.
Bests(C) ==
    {i \in C : \A j \in C :
                  history[j].player = history[i].player => ~Outdoes(j, i)}

\* A ranking shows the counted submissions that fewer than Limit players outdo.
\* Where score and date tie, the row ids decide, so a submission that Limit
\* players outdo or equal may be shown or not.
Answers(rows, C) ==
    /\ \A r \in rows : \E i \in Bests(C) :
           /\ r.player = history[i].player
           /\ r.body.score = history[i].body.score
           /\ r.at = history[i].at
           /\ Cardinality({history[j].player : j \in
                              {k \in Bests(C) : Outdoes(k, i)}}) < Limit
    /\ \A i \in Bests(C) :
           Cardinality({history[j].player : j \in
                           {k \in Bests(C) : ~Outdoes(i, k)}}) <= Limit
           => \E r \in rows : r.player = history[i].player

\* The all-time board ranks each player's best score ever accepted, ties to the
\* earlier day, whatever was retried, pruned, erased or restarted in between.
AllTimeExact ==
    \A m \in Modes, d \in Drills :
        Answers(Ranking(AllTimePool(m, d)), AllTimeCounted(m, d))

\* The windowed board ranks each player's best score among the runs the store
\* promises to keep and the personal bests, of those set in the window.
WindowExact ==
    \A m \in Modes, d \in Drills :
        Answers(Ranking(WindowPool(m, d)), WindowCounted(m, d))

\* Recent shows exactly the Limit latest of the runs the store promises to keep,
\* in order of arrival: never a best-only submission, never an expired run,
\* never a run pushed out by newer ones of its player in either mode.
RecentExact ==
    \A m \in Modes, d \in Drills, windowed \in BOOLEAN :
        LET C == {i \in AllTimeCounted(m, d) :
                     Kept(i) /\ history[i].at >= FeedBound(windowed)}
        IN  {r.receipt : r \in Recent(m, d, windowed)}
                = {i \in C : Cardinality({j \in C : j > i}) < Limit}
=============================================================================
