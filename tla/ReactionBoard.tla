----------------------------- MODULE ReactionBoard -----------------------------
(***************************************************************************)
(* The Reaction board: POST /v1/scores as its three steps (the clock is    *)
(* read before the transaction is waited for, the insert commits, the rank *)
(* is read after the commit) and the queries over the submissions table.   *)
(*                                                                         *)
(* A submission was validated and its bearer checked before the first      *)
(* step.  The server's recompute of a trial is data here: its attempts and *)
(* its score.  Tiers, names, devices and last_seen_at, which nothing reads *)
(* back, are left out.  The table is all there is, so a restart only loses *)
(* the requests under way.  A definition with a suffix after an underscore *)
(* is the one below it with a fault seeded in; no action uses it.          *)
(***************************************************************************)
EXTENDS Integers, Sequences, FiniteSets, Functions

CONSTANTS
    Players,       \* player ids; ids are minted at random, never reused
    Clients,       \* client ids an app gives its trials
    Sources,       \* touch, pad, keyboard
    All,           \* the mixed board, which is no source
    Trials,        \* scored trials: [attempts, score]
    Slots,         \* requests under way at once
    Threshold,     \* a best at least this slow needs no backing
    Within,        \* how close the second fastest attempt backs the fastest
    BackingSince,  \* runs submitted before it are grandfathered
    Window,        \* the 30-day window
    Limit,         \* the row limit of a board or feed
    MaxClock,      \* bound: last instant of the clock
    MaxRows        \* bound: rows in the table at once

ASSUME SourcesAssumption == All \notin Sources
ASSUME TrialsAssumption ==
    \A t \in Trials : /\ t.attempts \in Seq(Nat) /\ t.score \in Nat
                      /\ Len(t.attempts) \in 1..3
ASSUME BoundsAssumption ==
    /\ {Threshold, Within, BackingSince, MaxClock, MaxRows} \subseteq Nat
    /\ {Window, Limit} \subseteq Nat \ {0}

VARIABLES
    clock,  \* seconds, in the unit of the window
    live,   \* players whose row exists
    rows,   \* submissions table
    reqs    \* what each request under way has done

vars == <<clock, live, rows, reqs>>

Row == [id : Nat, player : Players, client : Clients, source : Sources,
        trial : Trials, at : Nat]

Idle    == [pc |-> "idle"]
Stamped == [pc : {"stamped"}, at : Nat]
Stored  == [pc : {"stored"}, player : Players, client : Clients, id : Nat,
            source : Sources]

-----------------------------------------------------------------------------
(* The backing rule, twice: in SQL, which the boards use, and in Go.         *)

Fastest == [t \in Trials |-> CHOOSE a \in Range(t.attempts) :
                                 \A b \in Range(t.attempts) : a <= b]

\* Whether an attempt other than the fastest is within reach of it:
\* ORDER BY value LIMIT 1 OFFSET 1, and NULL backs nothing.
Backed_Strict(t) == \E a \in Range(t.attempts) :
                        a > Fastest[t] /\ a <= Fastest[t] + Within
Backed(t) ==
    \E i, j \in DOMAIN t.attempts :
        /\ i # j
        /\ t.attempts[i] = Fastest[t]
        /\ t.attempts[j] <= Fastest[t] + Within

\* qualifiedSQL, over a stored row.
Qualified(r) == \/ r.at < BackingSince
                \/ Fastest[r.trial] >= Threshold
                \/ Backed(r.trial)

\* leaderboard.Qualifies, over the attempts alone.
Orders(n) == {f \in [1..n -> 1..n] : \A i, j \in 1..n : f[i] = f[j] => i = j}
Sorted == [attempts \in {t.attempts : t \in Trials} |->
    LET f == CHOOSE f \in Orders(Len(attempts)) :
                 \A i, j \in 1..Len(attempts) :
                     i < j => attempts[f[i]] <= attempts[f[j]]
    IN  [i \in 1..Len(attempts) |-> attempts[f[i]]]]
Qualifies(attempts) ==
    LET sorted == Sorted[attempts]
    IN  /\ attempts # <<>>
        /\ \/ sorted[1] >= Threshold
           \/ Len(sorted) >= 2 /\ sorted[2] <= sorted[1] + Within

-----------------------------------------------------------------------------
(* The queries, over a submissions table S.                                  *)

Boards == Sources \cup {All}
Sorts  == {"fastest", "score"}

Arrived(r, s) == r.at < s.at \/ (r.at = s.at /\ r.id < s.id)

Faster(r, s) == \/ Fastest[r.trial] < Fastest[s.trial]
                \/ Fastest[r.trial] = Fastest[s.trial] /\ r.trial.score > s.trial.score
Higher(r, s) == \/ r.trial.score > s.trial.score
                \/ r.trial.score = s.trial.score /\ Fastest[r.trial] < Fastest[s.trial]

\* orderBy: the sort's measure, the other one, the earlier date, the lower id.
Ahead(sort, r, s) ==
    LET Beats(x, y) == IF sort = "score" THEN Higher(x, y) ELSE Faster(x, y)
    IN  Beats(r, s) \/ (~Beats(s, r) /\ Arrived(r, s))

OnBoard(S, board) == {r \in S : board = All \/ r.source = board}

\* bestPerPlayer, rn = 1: each player's row on a board since an instant.
Entries(S, board, since, sort) ==
    LET pool == {r \in OnBoard(S, board) : r.at >= since /\ Qualified(r)}
    IN  {r \in pool : \A s \in pool \ {r} :
                          s.player = r.player => Ahead(sort, r, s)}

\* What a submission may name; a board may be asked for All as well.
Submittable == Sources

Since(window) == IF window = "30d" THEN clock - Window ELSE 0

AtMost(n, size) == IF size < n THEN size ELSE n

\* The first Limit entries, in order.
Board(board, window, sort) ==
    LET top == Entries(rows, board, Since(window), sort)
    IN  [i \in 1..AtMost(Limit, Cardinality(top)) |->
            CHOOSE r \in top : Cardinality({s \in top : Ahead(sort, s, r)}) = i - 1]

PlayerCount(board, window) ==
    Cardinality(Entries(rows, board, Since(window), "fastest"))

\* The rank POST /v1/scores answers: a place on the source's all-time fastest
\* board, or 0 when the player has no entry there.
Rank_ByScore(source, p) ==
    LET top  == Entries(rows, source, 0, "fastest")
        mine == {r \in top : r.player = p}
    IN  IF mine = {} THEN 0
        ELSE Cardinality({s \in top : \E r \in mine : ~Ahead("score", r, s)})
Rank(source, p) ==
    LET top  == Entries(rows, source, 0, "fastest")
        mine == {r \in top : r.player = p}
    IN  IF mine = {} THEN 0
        ELSE Cardinality({s \in top : \E r \in mine : ~Ahead("fastest", r, s)})

\* A profile: the player's best per source, in score order.
Bests(p) ==
    LET pool == {r \in rows : r.player = p /\ Qualified(r)}
    IN  {r \in pool : \A s \in pool \ {r} :
                          s.source = r.source => Ahead("score", r, s)}

\* The activity feed: the newest rows of a board, qualified or not.
Recent_FilterLast(board) ==
    {r \in OnBoard(rows, board) :
         Cardinality({s \in rows : Arrived(r, s)}) < Limit}
Recent(board) ==
    LET pool == OnBoard(rows, board)
    IN  {r \in pool : Cardinality({s \in pool : Arrived(r, s)}) < Limit}

-----------------------------------------------------------------------------
(* The insert.                                                               *)

\* UNIQUE (player_id, client_id): the row a retry conflicts with, if any.
Existing_SameSource(p, c, source) ==
    {r \in rows : r.player = p /\ r.client = c /\ r.source = source}
Existing(p, c, source) == {r \in rows : r.player = p /\ r.client = c}

\* INTEGER PRIMARY KEY without AUTOINCREMENT: one above the highest id there
\* is, so the ids of an erased player's last rows are used again.
NextId == IF rows = {} THEN 1
          ELSE (CHOOSE r \in rows : \A s \in rows : s.id <= r.id).id + 1

NewRow(p, c, source, trial, at) ==
    [id |-> NextId, player |-> p, client |-> c, source |-> source,
     trial |-> trial, at |-> at]

\* ON CONFLICT DO NOTHING.
Inserted_Replaces(p, c, source, trial, at) ==
    (rows \ Existing(p, c, source))
        \cup {[r EXCEPT !.source = source, !.trial = trial, !.at = at] :
                  r \in Existing(p, c, source)}
        \cup (IF Existing(p, c, source) = {}
              THEN {NewRow(p, c, source, trial, at)} ELSE {})
Inserted(p, c, source, trial, at) ==
    IF Existing(p, c, source) = {}
    THEN rows \cup {NewRow(p, c, source, trial, at)} ELSE rows

\* The row the answer is about: the new one, or the original with its own
\* source, whatever the source of the retry.
Named(p, c, source, trial, at) ==
    IF Existing(p, c, source) = {} THEN NewRow(p, c, source, trial, at)
    ELSE CHOOSE r \in Existing(p, c, source) : TRUE

Init ==
    /\ clock = 0
    /\ live = Players
    /\ rows = {}
    /\ reqs = [s \in Slots |-> Idle]

\* Insert reads the clock before it waits for the one connection.
Stamp(s) ==
    /\ reqs[s] = Idle
    /\ reqs' = [reqs EXCEPT ![s] = [pc |-> "stamped", at |-> clock]]
    /\ UNCHANGED <<clock, live, rows>>

\* The transaction of Insert.  The player may have been erased since the
\* bearer was checked, and then the foreign key fails the insert (Leave).
Insert(s, p, c, source, trial) ==
    LET at == reqs[s].at
        r  == Named(p, c, source, trial, at)
    IN
    /\ reqs[s].pc = "stamped"
    /\ p \in live
    /\ Cardinality(Inserted(p, c, source, trial, at)) <= MaxRows
    /\ rows' = Inserted(p, c, source, trial, at)
    /\ reqs' = [reqs EXCEPT ![s] =
           [pc |-> "stored", player |-> p, client |-> c, id |-> r.id,
            source |-> r.source]]
    /\ UNCHANGED <<clock, live>>

\* The rank is read and the answer sent: 201 when this request made the row,
\* else 200.  Or the insert is rolled back, the rank cannot be read (500), or
\* the caller is gone.  The table is the same either way.
Leave(s) ==
    /\ reqs[s] # Idle
    /\ reqs' = [reqs EXCEPT ![s] = Idle]
    /\ UNCHANGED <<clock, live, rows>>

Restart ==
    /\ \E s \in Slots : reqs[s] # Idle
    /\ reqs' = [s \in Slots |-> Idle]
    /\ UNCHANGED <<clock, live, rows>>

\* DELETE FROM players; the submissions cascade.
Erase(p) ==
    /\ p \in live
    /\ live' = live \ {p}
    /\ rows' = {r \in rows : r.player # p}
    /\ UNCHANGED <<clock, reqs>>

Tick ==
    /\ clock < MaxClock
    /\ clock' = clock + 1
    /\ UNCHANGED <<live, rows, reqs>>

Submit(s) ==
    \/ Stamp(s)
    \/ \E p \in Players, c \in Clients, source \in Submittable, trial \in Trials :
           Insert(s, p, c, source, trial)
    \/ Leave(s)

Next ==
    \/ \E s \in Slots : Submit(s)
    \/ Restart
    \/ \E p \in Players : Erase(p)
    \/ Tick

Spec == Init /\ [][Next]_vars

-----------------------------------------------------------------------------
(* Properties.                                                               *)

\* Every variable keeps its shape.
TypeOK ==
    /\ clock \in Nat
    /\ live \subseteq Players
    /\ rows \subseteq Row
    /\ reqs \in [Slots -> {Idle} \cup Stamped \cup Stored]

\* A retry after a dropped connection never double-posts, whatever overlaps: a
\* player's client id has one row, and every answer on its way about it, to
\* its first sending or to a retry with another source, names that row and the
\* source it is ranked under, unless the player has been erased since.
NeverDoublePosts ==
    /\ \A r, s \in rows : r.player = s.player /\ r.client = s.client => r = s
    /\ \A s \in Slots :
           LET q == reqs[s] IN
           q.pc = "stored" /\ q.player \in live =>
               \E r \in rows : /\ r.player = q.player /\ r.client = q.client
                               /\ r.id = q.id /\ r.source = q.source

\* What a submitter is told is what readers see.  Its rank is its place on the
\* full default board of that source, and 0 only when it is not on it; and the
\* profile shows, per source, the player's row of the sort=score board.
BoardsAgree ==
    \A source \in Sources, p \in Players :
        LET board == Board(source, "all", "fastest")
            rank  == Rank(source, p)
        IN  /\ rank \in 1..Limit => rank \in DOMAIN board /\ board[rank].player = p
            /\ rank = 0 => \A i \in DOMAIN board : board[i].player # p
            /\ rank <= PlayerCount(source, "all")
            /\ {r \in Bests(p) : r.source = source}
                 = {r \in Entries(rows, source, 0, "score") : r.player = p}

\* The population is what the backing rule says, in the Go form no board uses:
\* the players with a row in the window that is grandfathered or qualifies.
\* The count is taken under one sort and true of the other.
PopulationAgrees ==
    \A board \in Boards, window \in {"all", "30d"} :
        LET ranking == {p \in Players : \E r \in OnBoard(rows, board) :
                            /\ r.player = p
                            /\ r.at >= Since(window)
                            /\ \/ r.at < BackingSince
                               \/ Qualifies(r.trial.attempts)}
        IN  /\ PlayerCount(board, window) = Cardinality(ranking)
            /\ ranking = {r.player : r \in Entries(rows, board, Since(window), "score")}

\* A run whose answer is on its way can be found: it is in the feed of its
\* source unless that source alone has Limit rows that arrived later.  Other
\* sources never crowd it out, and an unbacked run is listed although it ranks
\* nowhere.
AnsweredIsListed ==
    \A q \in Range(reqs) :
        q.pc = "stored" /\ q.player \in live =>
            LET r == CHOOSE r \in rows : r.id = q.id IN
            \/ r \in Recent(q.source)
            \/ Cardinality({s \in rows : /\ s.source = q.source
                                        /\ Arrived(r, s)}) >= Limit

\* Nobody's all-time entry ever gets worse, on any board under either sort,
\* while they keep their account: neither by their own later or repeated trials
\* nor by anyone's erasure.
NeverWorse ==
    [][\/ rows' = rows
       \/ \A board \in Boards, sort \in Sorts :
              \A r \in Entries(rows, board, 0, sort) :
                  r.player \in live' =>
                      \E s \in Entries(rows', board, 0, sort) :
                          /\ s.player = r.player
                          /\ s = r \/ Ahead(sort, s, r)]_vars

-----------------------------------------------------------------------------
(* A statement of the documentation the code does not keep.                  *)

\* "lowest id is always oldest" (006_collapse_identical_reruns.sql): among the
\* rows of one player, a lower id was stamped no later.
LowestIdIsOldest ==
    \A r, s \in rows : r.player = s.player /\ r.id < s.id => r.at <= s.at
=============================================================================
