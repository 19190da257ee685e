# TLA+ models of Share CT

Share CT is a small Go service (one process, one SQLite file) that keeps the
scores of a family of apps: anonymous player accounts, the Reaction leaderboard,
the Endless and Arcade drills, player reports, a private admin page and a public
board page. This directory holds TLA+ models of its stateful parts, TLC
configurations that check them on small instances, and TLAPS proofs of their
safety properties for every instance.

- [Inventory](#inventory) and the hazards in it
- [Modules](#modules): what models what, and how
- [Runs](#runs): what TLC checks, bounds and fairness
- [Proofs](#proofs)
- [Where the documentation and the code differ](#where-the-documentation-and-the-code-differ)
- [Plan](#plan), and what is not modelled

Run from this directory:

    tlc -workers 2 -config MCDrillFeed.cfg MCDrillStore
    tlapm DrillStoreProofs.tla

## Inventory

| Component | State | Operations | Talks to |
|---|---|---|---|
| Drills store (`internal/drills`, migrations 008, 009, 012, 013) | receipts, published runs and bests, each in an Endless and an Arcade table; one feed order over both; the run tables' autoincrement | `saveWithIntent`, `saveArcade`, `prunePlayerRuns`, `PruneExpired` | SQLite; `players` by foreign keys; the retention worker |
| Drills boards (`drills.go`, `arcade.go`, `recent.go`) | none | all-time, 30-day, Recent | the store; reads run a retention pass first |
| Arcade points, checks and order (`arcade.go`) | none | `points`, `validateArcade`, `arcadeBetter`, `arcadeOrder` | the tables' CHECKs say the same again in SQL |
| Player accounts (`internal/players`) | `players` rows: id, token hash, name, avatar | register, rename, avatar, erase, profile; `RequireBearer`, `requireOwner`, `requireExists` | every feature (bearer); every table (cascade); the app's erase job |
| Names (`players/names.go`, `internal/namefilter`) | none; the policy is a file of digests | `validateOptionalDisplayName`, `Normalize`, `Display`, `Rejects` | accounts |
| Reaction board (`internal/leaderboard`) | `submissions` | idempotent `Insert`, `Board`, `BoardPlayerCount`, `Rank`, `Recent`, `Bests` | accounts, rate limiter |
| Reaction scoring (`score.go`) | none | `Validate`, `ScoreTrial`, `Grade`, `TierName`, `Qualifies` | the board repeats `Qualifies` in SQL, migration 004 the bounds |
| Reports (`internal/moderation`) | `reports` | `Accept` | accounts (cascade from both sides), admin page |
| Rate limiter (`internal/ratelimit`) | a window and a count per key, in memory | `Allow`, `sweep` | registration and every submit route; `httpx.WriteRateLimited` |
| Admin (`internal/admin`) | signing keys with their fetch time | `Verify`, key refresh, reports page | Cloudflare Access |
| Store and migrations (`internal/store`) | the one connection; `schema_migrations` | `Open`, `Migrate`, backfill | everything |
| Board page script (`internal/server/page.go`) | the chosen view, a load generation, a timer, the tiles that wait for the avatar art | load, switch, refresh | the boards over HTTP |
| Process (`cmd/sharect`) | none that lasts | startup pass, serve, hourly worker, shutdown | all |
| Wiring, JSON, identity references, avatar baking | none | pure or I/O | |

What makes these parts hard, and what makes them correct:

**Drills store.** A save is one transaction that writes four tables. A retention
pass is three statements that commit one by one, run by an hourly worker, at
startup and before Recent and Arcade reads; any save, erasure, restart or other
pass may come between them. A cap of 200 runs is shared by two tables whose ids
cannot be compared, and enforced through a third table that lists both: a run
missing from that list is deleted by its player's next publication. Retries are
recognised by whichever of three bounded tables still remembers the client id.
Correct means: no run is ever missing from the list; the cap holds over both
modes; nothing published is lost early; a retry answered 200 is answered with
its own submission; bests are the true maxima with the date of the first; an
insert never fails on a UNIQUE index; nothing outlives its player; and expired
runs do go away.

**Drills boards.** Answers drawn from tables pruned by different rules at
different times. Correct means: they are what the history of accepted
submissions says they should be.

**Accounts.** Each link of the middleware chain asks the database by itself, so a
player can be erased between any two. The app erases an account as a job that
retries until it hears 204 or 404. Correct means: the job ends, never ends early,
and nobody else can end an account.

**Reports.** A rolling quota and a dedup window with strict bounds over rows that
closings and erasures change. Correct means: the quota holds in every window, a
case is open once, an acknowledged report is stored, a Retry-After is true.

**Reaction board.** Idempotence by `ON CONFLICT DO NOTHING`; a rule for backing
up a fast best that exists once in Go and once in SQL; a rank computed after
the commit; five queries that have to agree on one order.

**Rate limiter.** The clock is read before the lock, so the counters see clocks
older than some they have already seen, and a sweep may run between the two.
Correct means: no span as long as a window admits more than a small multiple of
the limit; a Retry-After is enough and not padded; idle keys do not pile up.

**Admin keys.** A cache whose refresh runs under the lock, may fail, and is spaced
out. Correct means: a withdrawn key stops opening the page, a new one is known,
each within the ages the comments of `key()` give.

**Migrations and the connection.** The process may die anywhere in a start, and
an older release may be started on a newer file. Correct means: a migration is
in effect exactly when it is recorded, once; every player has a reference once
references exist. Everything shares one connection. Correct means: nobody asks
the pool for it while holding it.

**Page script.** Answers arrive out of order, late, or from an older server.
Correct means: what is shown is what is selected.

**Scoring, Arcade rules and names.** The same rule is written twice, in Go and in
SQL, or as two lists that have to agree. Correct means: what a validator
accepts a table takes; the order that picks the best is the order of the board;
a refused name stays refused in every spelling a reader takes for the same.

`PROJECT.json` lists each hazard at its line with the properties that cover it,
or says why none does.

## Modules

| Module | Models | Needs |
|---|---|---|
| `DrillStore` | the drills store: saves, passes, erasures, restarts | |
| `DrillBoards` | the three boards, as queries on a state of the store | extends `DrillStore` |
| `Accounts` | accounts, the middleware chain and the erase job | |
| `Reports` | the reports store | |
| `ReactionBoard` | Reaction submissions and the queries over them | |
| `RateLimiter` | one limiter and its callers | |
| `AccessKeys` | the key cache of the admin page, and the provider | |
| `Migrations` | starts, releases, crashes and the backfill | implements `UpgradePromise` |
| `UpgradePromise` | what upgrades promise of a database, with no process in it | |
| `Connection` | the one pooled connection and every routine that uses it | |
| `BoardPage` | the page's script and the two handlers' refusals | |
| `Scoring` | Reaction scores and grades, Arcade points, validators, CHECKs and order | |
| `Names` | accepted, stored and shown names, and the policy | |
| `...Proofs` of `DrillStore`, `DrillBoards`, `Accounts`, `Reports`, `ReactionBoard` | the proofs | extend the module they are named after; the boards' also `DrillStoreProofs` |
| `StoreProofs` | the proofs about what a start leaves and what every statement needs | extends `Migrations`, `Connection` |
| `AdmissionProofs` | the proofs about who and what is let in | extends `RateLimiter`, `AccessKeys`, `Scoring` |
| `ServiceProofs` | the proofs about the page, the names and the parts together | extends `MCService`, `AccountsProofs`, `StoreProofs`, `AdmissionProofs` |
| `MCService` | the parts of the process that share no state, side by side | extends `Accounts` and the eight from `RateLimiter` to `Names` but `UpgradePromise` |
| `MCDrillStore`, `MCDrillBoards`, `MCAccounts`, `MCReports`, `MCReactionBoard` | symmetry and data for TLC | extend the above |

Conventions. A definition with a suffix after an underscore
(`Validate_AnyMisfires`) is the definition below it with one fault seeded in; no
action uses it, and each property is known to fail when its fault is swapped
in. `PROJECT.json` maps every other definition to the lines it stands for.

What all models assume. SQLite has one connection (`store.Open`), so
transactions are serial and a transaction is one atomic step; foreign keys are
on (`store.dsn`), so erasing a player cascades. The clock never goes back. Ids
and references drawn at random are unique and never guessed. A hash of a body
is equal exactly when the bodies are.

### DrillStore

| Variable | Code |
|---|---|
| `receipts`, `runs`, `bests` | `drill_*` and `arcade_*` tables, one row set each with a `mode` |
| `feed` | `drill_feed_order` |
| `lastRun` | `sqlite_sequence` of the two run tables |
| `live` | ids in `players` |
| `clock` | the wall clock, in days |
| `pc`, `cutoff` | where each retention pass is, and the bound it computed when it began |
| `serving` | the startup pass is over |
| `history` | every accepted submission, in commit order; only properties read it |

| Action | Code |
|---|---|
| `Save(q)` | `saveWithIntent` or `saveArcade` when it accepts: look-ups, expiry of its own run table, receipt and its ring, best, run, feed row, cap |
| `Erase(p)` | `DELETE FROM players` and its cascades |
| `StartPrune`, `PruneDrillRuns`, `PruneArcadeRuns`, `PruneFeed` | the three statements of `PruneExpired` |
| `AbandonPrune` | a failing statement, or a cancelled read |
| `Restart` | the process dies and its startup pass begins |
| `Tick` | a day passes |

A refused or repeated submission writes nothing and is a stuttering step; what
it would have been answered is the operator `Verdict`. A body is a drill and a
standing, and a standing is one ordered value: for Arcade that is the tuple
`arcadeOrder` compares. Receipt, best and feed ids are compared only within
their table and are taken from the length of the history; run ids are per mode
because the feed order holds both side by side. The bearer check came before the
transaction, so a save may arrive for a player that is gone; its foreign key
then fails it (`Insertable`).

### DrillBoards

`Ranking(AllTimePool(m, d))`, `Ranking(WindowPool(m, d))` and
`Recent(m, d, windowed)` are the SQL of `rankedSQL`, `windowedSQL`/`readArcade`
and the Recent queries. They change nothing. The properties define the same
answers from the history, with no table and no pruning, and compare. Rows that
tie in score and date are ordered by row ids in the code; the comparison leaves
that order open. The caller's own standing is its row in the same ranking, and
is left out.

### Accounts

`rows` is the `players` table (a row and its token live and die together);
`data` says which accounts some feature table references; `served` holds the
requests being served, each at the statement it runs next (`exists`, `bearer`,
`act`) or `answered`; `app` is what the app knows (`enrolled`, `erasing`,
`forgotten`; `orphaned` when the registration's answer was lost). One link of
the chain is one action. Requests about any id with any token, or none, may be
sent; answers and whole requests may be lost; a statement may fail (500); the
process may restart. The erase job is outside the repository: it is modelled as
the comments of `players/handlers.go` and README describe it, it may send again
while earlier sendings are still being served, and it ends on 204 or 404.

### Reports

`reports` is the table, `minted` numbers the references, `heard` is the last
201, 202 or 429 each reporter heard, with its reference or the instant its
Retry-After names. `Accept` is `Store.Accept` with three outcomes, `Repeat`,
`Limit` and `Create`; 404, 422 and 500 change nothing. `Close` is a reviewer's
update by hand (no code does it); dismissed and upheld are one state. Nothing
is kept in memory, so a restart is a stuttering step.

### ReactionBoard

`rows` is `submissions`; `reqs` holds each submission under way: `stamped` once
`Insert` has read the clock, which it does before it waits for the one
connection, and `stored` once its transaction is over and only the rank is left
to read. `Stamp`, `Insert` and `Leave` are those steps; `Leave` is also every
failure and the caller's going away, since none of them changes the table. The
body is chosen where it is first used, at the insert. A trial is its attempts
and the score the server computed from them; validation, quotas, tiers and
columns that are only displayed are left out, and so is `last_seen_at`, which
no answer shows. Ids are one above the highest there is, because the table has
no AUTOINCREMENT.

`Entries` is `bestPerPlayer` with `rn = 1`; `Board`, `PlayerCount`, `Rank`,
`Bests` and `Recent` are the five queries. `Qualified` is the backing rule as
the SQL has it; `Qualifies` is the Go function, which sorts the attempts and is
used by no query; `PopulationAgrees` compares what the boards show with it.
`Sorted` sorts by naming a permutation (`Orders`) that puts the numbers in order.

### RateLimiter

| Variable | Code |
|---|---|
| `buckets` | `l.buckets`: key, start of its window, count |
| `sweptAt` | `l.lastSweep` |
| `calls` | the requests: `asking` between `now := l.now()` and the lock, or `limited` until their Retry-After is over |
| `time` | the clock |
| `granted` | events admitted during the last window length; only properties read it |

`ReadClock`, then `Admit` or `Refuse`, are `Allow` cut at the lock; the sweep is
part of both. `Refuse` includes the rounding of `WriteRateLimited`, in ticks of
which a second has `Second`. `Pass` does not let a caller wait for the lock
longer than `Stall` ticks, and a window is longer than two stalls
(`StallAssumption`): the lock is held for map operations, a window is a minute
or more. `Forget` is a restart. `SpanBound` allows for fixed windows: two of
them meet inside any span of their length (twice the limit), and one stalled
call can bring the tail of a third.

### AccessKeys

`cache`, `fetchedAt` are `v.keys`, `v.fetchedAt`; `fetch` is the request to the
provider under way, under the verifier's lock; `requests` are the visitors,
from `asking` over `found` or `unknown` to `accepted` or `expired`;
`published` is when the provider published and withdrew each key. `Lookup` and
`StartFetch` are the two ways through `key()`, `FetchOK` and `FetchFailed` its
ends, `Judge` the claims, which read the clock again. A fetch takes up to
`FetchTime` minutes and sees the provider's keys of its beginning or of its end.
A failed fetch dates `fetchedAt` all the same; `failed` records that, because
the promises are excused by it. The signature, issuer and audience are taken as
right: a token for which they are not is refused without touching state.

### Migrations and UpgradePromise

`file` is the database: which versions are recorded, how often each migration's
SQL took effect, and the players with their references. `tx` is the transaction
of the migration under way with its own view of the file; `applied` is the map
`appliedVersions` read at the start. `Boot`, `RunSQL`, `NameOne` (one UPDATE of
the backfill), `CommitMigration` and `OpenForPlayers` are a start; `Die` is any
failure or kill, from which SQLite rolls back; `Install` puts another release,
newer or older, in place; `Join` and `Quit` are players while it serves. An
older release on a newer file sends no reference and is refused by the triggers
of migration 007. `UpgradePromise` knows only effects and references: an upgrade
happens at one instant, once, and the one that brings references leaves nobody
without. `Migrations` implements it,

    Upgrades == INSTANCE UpgradePromise WITH effects <- file.effects,
                                             names   <- file.names

and `UpgradesAtomic` is its whole specification.

### Connection

What the other modules take for granted when they call a transaction one step.
A routine is the order in which its Go code takes, uses and gives back the
connection (`Stmt`, `Rows`, `Tx` and their concatenations, one name per Go
function); `lent` is who has it, `left` what each goroutine has still to do.
`GiveUp` is an error or a caller that hung up. `NobodyWaitsForItself` says that
whoever has the connection can always go on with it and gives it back, so a
goroutine never waits for itself; a query left open over another query breaks
it (`ReadRecent_RowsOpen`).

### BoardPage

`view`, `drill`, `mode` and `loadGeneration` are the script's; `requested` holds
the requests not answered yet, each with its generation and URL; `shown` is what
the board and the status line show, and of which answer; `art` and
`avatarWaiting` are the avatar file and the tiles that wait for it. Each click
handler, the 15 s timer, each answer in any order, each failure and the art's
arrival is an action. An answer may come from a server that is older than the
Arcade mode (`AnswerModes`). `BadRequest` is what the two handlers refuse, so
`NeverRefused` compares the script with the server. An answer whose drawing
throws half way is `broken`.

### Scoring

No state lasts: `trial`, `claim` and `finished` are the inputs, and `best` is the
row the upserts leave of the runs finished so far. Times of a trial are in thirds
of a millisecond where the code has float64 milliseconds: a frame is then 50 and
every threshold an integer. Rounding is left out, and so is LEGEND, which is
given by standing. A body's count of misfires is an integer of either sign, as
in `SubmitRequest`; accuracy is compared without dividing (`Accurate`,
`AccuracyFits`). `Validate`, `ScoreTrial`, `Grade` and `Tier` are the Reaction
rules, `ValidateDrill` the drills'; `TrialStorable`, `EndlessStorable` and
`ArcadeStorable` are the CHECKs of the migrations, written from the SQL and not
from the Go. `BetterKey` is the tuple of the upsert, `OrderKey` the list of the
ORDER BY. Left out are what a trial says of its source, platform, build and
device, which are lists and lengths, and what it claims of its own score, which
is compared with the server's and never ranked.

### Names

A character stands for its class: letters of both cases, a digit that stands for
one of them, one that does not, a letter outside ASCII, two kinds of white
space, a symbol. A request may carry any sequence of them. `Reason` is
`validateOptionalDisplayName`, `Stored` and `Display` what becomes of the name,
`Rejects` the policy with its four candidates. Digests are taken for the terms
they stand for. What `normalizeASCII` and `Normalize` leave of a name is given by
the places they keep (`Kept`): `Solid` are the characters that are no space,
`Parting` the first space of each run between two of them. Each loop appends or
skips one character, so keeping places is all that it does.

### MCService

These parts and the accounts share no variable, so their interleaving shows
nothing that each alone does not: a behaviour of `MCService` picks one part at
the start and runs it, the others standing still. That is the state space of
each part, one after the other, in one configuration, and it keeps the parts'
names from clashing. They meet in what they assume of each other:
`Connection` is what lets the others call a transaction one step, `Migrations`
is what gives them their tables, and a limiter stands before every write.

## Runs

| Run | Checks | Instance |
|---|---|---|
| `drills_feed` | `RunsIndexed CapAcrossModes NewestRetained ReceiptRing NoUniqueClash` | both modes, 1 player, 3 client ids, cap 2, ring 1, retention 1 day, 3 days, 4 accepted |
| `drills_bests` | `ProofsAreAccepted BestIsMax NoEarlyReuse` | both modes, 2 drills, 2 scores, 2 client ids, caps 1, 3 accepted |
| `drills_boards` | `AllTimeExact WindowExact RecentExact EraseComplete` | Endless, 2 players, 2 scores, caps 1, retention 2, window 1, limit 1, 4 days, 3 accepted |
| `drills_fair` | `ExpiredGo` | both modes, worker and one reader, 2 accepted, 3 days, fairness |
| `service` | `ServiceTypeOK` | every part below |
| ... its accounts | `ForgottenIsErased GoneMeansGone OnlyOwnerErases` | 2 players, 2 requests at once |
| ... its limiter | `SpanBound AdviceHolds` | 2 callers, 2 keys, limit 2, window 3, a second 2, stall 1, 5 ticks |
| ... its admin keys | `KeysFollowed` | 2 keys, 2 visitors, 2 expiries, age 2, gap 1, skew 1, fetches up to 1, 2 minutes |
| ... its migrations | `AppliedOnce EveryoneNamed UpgradesAtomic` | 4 migrations, 5 releases, 3 players, 3 references |
| ... its connection | `NobodyWaitsForItself` | 3 goroutines, every routine of the process |
| ... its page | `PageFaithful` | 2 drills, one of them without Arcade, 4 loads |
| ... its rules | `AcceptedIsStorable GradesEarned BestLeads` | trials of up to 4 times, of 10, and -1 to 3 misfires; bodies on both sides of every bound; 3 runs of 28 |
| ... its names | `NamesHold` | names of up to 5 characters of 10 classes; lengths 3 to 4; 4 terms, 2 reserved names |
| `accounts_job` | `EraseFinishes` | 1 player, 2 requests at once, fairness |
| `reports` | `RollingQuota NoDoubleCase SuccessIsStored RetryAfterHolds NoOrphans` | 3 players, 2 reasons, quota 2, windows 2, 5 instants, 3 reports |
| `reactions` | `NeverDoublePosts BoardsAgree PopulationAgrees AnsweredIsListed NeverWorse` | 2 players, 2 client ids, 2 sources, 2 submissions under way, 3 rows, 3 trials, 3 instants, window 1, limit 1 |
| `drills_promoted`, `drills_refused`, `accounts_401`, `reactions_oldest` | one documented statement each, and its counterexample | |

`service` visits about a million states in two minutes; the type invariants of the
other modules are proved instead, as is `Ledger`, the inductive invariant of the
drills.

Why the bounds are enough. Every cap of the code (200 runs, 100 receipts, five
reports, 90 and 30 days, a limit) is a constant set to 1 or 2, so that reaching
it, going past it and being one below it all happen within the accepted
submissions a run allows. With cap 2 and four submissions a run is pushed out by
the other mode; with retention 1 and three days a run sits exactly on its bound
and then past it; with a ring of 1 every second submission forgets a receipt.
`drills_boards` plays Endless alone: both modes' boards are the same operators
over disjoint rows, and modes meet only in the cap, which `drills_feed` and
`drills_bests` cover. Two requests at once are enough for every overlap of the
accounts, since each request touches one account and the statements of a third
only repeat what the second does; the proofs remove the bound. In
`reports`, two is both the quota and the windows, so the third report of
a player meets the quota, a dead quota slot and a repeat on the same instant.
In `reactions` the three trials are an unbacked anticipation, a pair of equal
attempts and a lone one exactly at the threshold that scores better than it
ranks; the cutoff lies between instants 0 and 1 and a row leaves the window at
instant 2; three rows let one player have two rows with the other's between
them, and a limit of 1 cuts every board of two.
In `service`, the limiter's limit of 2 with two
callers lets a window fill up with one call stalled before the lock while the
sweep closes another key's; a window of three ticks is the shortest that is
longer than two stalls, and a second of two ticks makes rounding show. Age 2
against gap 1 tells a stale cache from a retry that is too soon, and two keys are
one withdrawn and one new. The releases include one without an early migration
and one with only late numbers, so a version lower than the newest may be
pending; three players and three references let a reference clash in the
backfill and after. Four loads are an answer that is late by two choices, with
the timer's in between. The times in `EdgeSamples` lie on both sides of the
plausible band, of 13 and 13.5 frames and of the ladder's ends, and no rule
compares attempts otherwise; four of them with a misfire of -1 add up to the
three attempts `Validate` asks for, so only its guard on the sign keeps such a
body from the CHECKs of migration 004. Five characters hold a refused word with one more
space or letter at any place. Bounds that only end a run are `MaxClock`, `MaxAccepts`, `MaxReports`,
`MaxRows`, `MaxTime`, `MaxMinute`, `MaxTwice`, `MaxLoads`, `MaxRuns`, `MaxHits`
and `MaxTyped`.
`reports` may deadlock when everyone is erased and the clock has stopped, and in
`service` the page, the rules and the names end when their bound is reached, so
in these two deadlock is not checked; the other models can always restart or
take a new request.

Symmetry is used for players, client ids and drills (`MCDrillStore`,
`MCDrillBoards`), for players and reasons (`MCReports`), for players, client
ids, sources and slots (`MCReactionBoard`), for players and request slots of the
accounts, which are also the callers and keys of the limiter and the keys and
visitors of the admin page (`MCService`; each part treats its own alike, and only
one part moves), and never in a run with fairness. `UpgradesAtomic` mentions
none of the permuted values.

**Fairness.** `drills_fair`: days pass; the hourly ticker fires (weak fairness of
the worker's start); a statement of the worker's pass that is tried over and
over commits one day (strong fairness, because failures and restarts may disable
it again and again). Nothing makes anybody submit, read or erase, so `ExpiredGo`
rests on the worker alone, as the comment of `MaintainRetention` says.
`accounts_job`: a request being served ends somehow (weak); the job sends again,
and its look-up, bearer check, delete and finishing answer, tried over and over,
succeed one day (strong). Without the last, the job may hear 500 for ever.

## Proofs

TLAPS proves, for every value of the constants (any number of players, clients,
readers and request slots; any caps, windows and retention; bounds as large as one
likes):

| Theorem | Says |
|---|---|
| `DrillStoreProofs!TypeCorrect` | type invariant |
| `...!LedgerInvariant` | the inductive invariant |
| `...!RunsIndexedInvariant`, `CapAcrossModesInvariant`, `NoUniqueClashInvariant`, `ProofsAreAcceptedInvariant`, `EraseCompleteInvariant`, `ReceiptRingInvariant`, `NewestRetainedInvariant`, `BestIsMaxInvariant`, `NoEarlyReuseInvariant` | the properties of that name: all the safety properties of the store |
| `AccountsProofs!TypeCorrect`, `MintedInvariant` | type and inductive invariants |
| `...!ForgottenIsErasedInvariant`, `GoneMeansGoneInvariant`, `OnlyOwnerErasesHolds` | the properties of that name; the last is an action property |
| `DrillBoardsProofs!ArrivalsInvariant` | the inductive invariant the boards add to `Ledger` |
| `...!AllTimeExactHolds`, `WindowExactHolds`, `RecentExactHolds` | the properties of that name: each board's answer is what the history says it should be |
| `ReportsProofs!TypeCorrect` | type invariant |
| `...!RollingQuotaInvariant`, `RetryAfterInvariant`, `NoDoubleCaseInvariant`, `SuccessIsStoredInvariant`, `NoOrphansInvariant` | the properties of that name |
| `ReactionBoardProofs!TypeCorrect`, `BoardInvariant` | type and inductive invariants |
| `...!NeverDoublePostsInvariant`, `AnsweredIsListedInvariant`, `BoardsAgreeInvariant`, `PopulationAgreesInvariant`, `NeverWorseHolds` | the properties of that name; the last is an action property |
| `AdmissionProofs!LimiterTypeCorrect`, `AdviceHoldsAlways`, `SpanBoundHolds` | type invariant; the properties of that name |
| `...!NoIdleHoardHolds` | what is tracked opened within a window length of the last sweep, each key once |
| `...!KeysTypeCorrect`, `KeysFollowedHolds` | type invariant of the key cache; the property of that name |
| `...!AcceptedIsStorableHolds`, `GradesEarnedHolds`, `BestLeadsHolds` | the properties of that name, for every integer time, count of misfires and claim |
| `...!ScoringTypeCorrect` | type invariant of the rules |
| `StoreProofs!MigrationsTypeCorrect`, `AppliedOnceHolds`, `EveryoneNamedHolds` | type invariant; the properties of that name |
| `...!UpgradesAtomicHolds` | `Migrations` implements `UpgradePromise` |
| `...!ConnectionTypeCorrect`, `NobodyWaitsForItselfHolds` | type invariant; the property of that name, for any number of goroutines |
| `ServiceProofs!PageTypeCorrect`, `PageFaithfulHolds` | type invariant; the property of that name |
| `...!NamesTypeCorrect`, `NamesHoldAlways` | type invariant; `NamesHold`, for names of any length and any policy whose terms are upper-case without digits that fold |
| `...!PartsBehave`, `ServiceTypeCorrect` | the composition behaves as each of its parts; `ServiceTypeOK` |

They assume only the ASSUMEs of the modules: caps, quota, limit and windows are
positive, a window is longer than two stalls, the retry gap is no longer than the
maximum age, "worker" is not a reader, "nobody" is not a visitor, "NULL" is not a
reference, "no token" is not a player, the mixed board is not a source, a
trial has one to three attempts, releases ship known versions, the drill without
Arcade is a drill, "no one" is not a goroutine, times, misfires and claims are
integers and the runs of Arcade are records of them, a policy's terms are upper-case without
digits that fold, and NO NAME is a reserved name. TLC evaluates them in every run. The one about terms
is what `README.md:152` says of how the policy's file is made; `parse()` does not
check it, and a file that broke it could refuse a name in one spelling and take it
in another.

**DrillStore.** `RunsIndexed` is not inductive. The danger is a pass that deletes
a feed row whose run is still there. The pass deletes runs first, but between
its statements saves insert, days pass and other passes work with other
cutoffs. `Ledger` says why it is safe: a pass never has a cutoff later than
today's (`PrunersLag`); once past a run table, it has left nothing there older
than its cutoff, and inserts carry today's date (`PassProgress`); a feed row and
its run carry the same submission, date and player (`FeedLedger`, `RunLedger`).
The cap follows by counting: runs inject into their player's feed rows
(`RunLedger`), of which there are at most `RunCap` (`FeedBounded`).
`NoUniqueClash` follows because a feed row's run id is at most `lastRun`. The
save is the long step: one lemma per conjunct.

The other four count. `ReceiptRing`: a receipt stays while fewer than
`ReceiptCap` receipts of its ring are newer; every submission after a kept one
still has its receipt too, because even fewer came after it, so receipts and
submissions above it are in one-to-one correspondence (`RowsByIds`).
`NewestRetained`: the places above a run's in the feed order are at most the
publications after it, so the cap cannot reach a run before `RunCap` newer ones;
and no pass has a cutoff later than today's. `BestIsMax` needs `Covered`: for
everything a live player had accepted there is a standing row at least as good,
so a submission that beats the standing row beats all of its slot.
`NoEarlyReuse` then follows in the one step that could break it: `Verdict`
answered "created", so no table has the client id, and the three theorems before
say what that means.

**Drills boards.** The history is what the boards are compared with, so the proof
first says how the tables relate to its order: submissions are dated in the
order they arrive; while a place in the feed lasts, so does every later one of its
player; and within a mode run ids ascend with arrival (`Arrivals`: `Dated`, `Gapless`, `InOrder`). A pool of rows then *stands
for* a set of submissions when every row says what one of them says and every
player's best among them is attained by a row (`StandsFor`); two such sets rank
alike. `BestIsMax` makes the bests stand for everything accepted, `NewestRetained`
makes the runs stand for what is promised to be kept: a window is no longer than
the retention, so nothing inside it has expired.
Recent orders by date and run id, which `InOrder` makes the order of arrival.

**Accounts.** `ForgottenIsErased` needs to know that a request can only say 204 or
404 about an account that is gone, and that an erasure that came through to the
delete is of its own account: `RequestMinted`. That nothing comes back needs
that a forgotten id has no row, and that feature rows need one: `RowsMinted`.

**Reports.** The quota holds in every window because at most the current one can
gain a report, and `Accept` counts that one; a window that ends later holds a
subset of what the current one holds. `RetryAfterHolds` needs `QuotaReopens`:
when 429 is answered at most a full quota is counted, so fewer than the quota are
younger than the oldest of them, and while the reporter creates nothing that
can only shrink.

**Reaction board.** The boards' order ends in the id, so it is total only because
ids differ: the invariant adds that ids are unique and bounded, which gives the
next one (`NextIdFresh`). `NeverWorse` then needs that the order is transitive:
a new row either stays behind a player's entry or, ahead of it, is ahead of all
that it was ahead of (`EntryYields`); an erasure only takes away rows the entry
did not need (`EntrySurvives`). `BoardsAgree` rests on a fact about finite sets:
under a strict total order, counting the members ahead of each numbers them
1, 2, 3 and so on, every place taken once (`Places`, by the library's theorems on
cardinality). `Rank` counts and `Board` orders, and they agree because the entries
are such a set (`RankIsPlace`). `PopulationAgrees` needs that a player with a row in
a pool has an entry there, because a finite pool has a leader (`LeaderExists`), and
that sorting is a permutation, so that the gap of the two lowest attempts
exceeds the bound exactly when no second attempt is within it
(`GoAgreesWithSql`).

**Rate limiter.** Every clock a caller carries is at most a stall behind; what is
left of a window is counted from that clock and waited from now, so the advice
is late by at most the stall, and rounding up adds less than a second
(`RetryAfterRounds`). `NoIdleHoard` holds against lagging clocks because a
bucket that a late caller opens started at most a stall before, and a sweep at
a lagging clock keeps only what it would have kept (`SweepKeeps`). `SpanBound` is
the long one: the count of a bucket says nothing of windows that are over, and a
late clock can date an event into one. The invariant (`SpanInv`) says that the
events of a key in the last window length lie in at most three windows whose
starts are a window apart, less a stall (`Windows`, `Spaced`): the newest holds at
most its count or the limit, being either tracked by its bucket or swept away
after its end (`Standing`); the second at most the limit; and of the third only
a `Remnant` is left, fewer than the limit and none when no clock is read late,
because the events a window admits on late clocks are not the one that opened it
(`Later`). A new window can open only once the third has left the span.

**Admin keys.** `RightSince` says what it is for a set of keys to be right as of a
date: nothing in it was withdrawn before, and a key that is not in it was not
published before or is withdrawn by now. The cache is right as of `fetchedAt` unless the last fetch
failed (`CacheRight`); both answers a fetch may get are right as of its start,
which is what dates it (`FetchRight`); a key in hand is as young as the cache it
came from (`HandRight`).

**Migrations.** `AppliedOnce` is inductive once the view of an open transaction is
compared with the file: one effect ahead, everything recorded as before, named
players keep their references, and whoever is not yet named is on the list to do
(`ViewAhead`). The refinement is a step simulation: a commit is `Upgrade`, a
registration `Enter`, an erasure `Leave`, and everything else stutters.

**Connection.** A routine is a word over statements, open row sets and
transactions. In such a word a step that needs the connection in hand comes right
after one that leaves it there, and every other step finds it given back
(`Paired`); that is closed under concatenation, so every routine of the process is
such a word, and under tails, so it stays one while it runs.

**Scoring.** A check on one side and a CHECK on the other are inequalities over the
same integers, compared for all of them; of a trial `Validate` leaves one to three
times and the misfires that make up three attempts (`Sound`), which is where the
sign of the misfires counts. Grades compare a sum with the cap each
attempt has. A tuple comparison is a strict total order, so the row the upsert
keeps is ahead of every run that was finished (`Leading`).

**Board page.** Every request in flight of the newest generation is for what is
selected now (`NewestIsSelected`), because nothing is selected without a new
load; an answer of any other generation draws nothing.

**Names.** A rewriting of a name keeps some of its places, so no induction over the
name is needed: two names come out the same when there is an increasing map from
the places kept of one onto those of the other that respects the characters
(`SameKept`). A name is refused exactly for what it is without its disguises
(`RejectsUndisguised`), because a term holds nothing that folding changes, so a
candidate that is refused is still refused folded (`FoldedRejects`): of the four
candidates the two folded ones decide. A letter in the other case or a digit for a
letter leaves those two as they were (`SameClasses`). One more space never
changes the one without spaces (`CompactStays`), and beside another or at an end
not the other either (`SpacingStays`), where the space that was first in its run
changes places with the new one (`Goes`). Trimming a trimmed name does nothing
(`TrimmedTwice`), so a stored name is accepted again.

**The service.** A step of one part leaves the others' variables alone, so every
behaviour of the composition is a behaviour of each part (`PartsBehave`), and what
is proved of a part holds in it.

Every safety property that a run checks is proved. Model-checked only is liveness
(`ExpiredGo`, `EraseFinishes`), which is out of the prover's reach.

## Where the documentation and the code differ

- `drills_promoted`: "Cross-route retries never promote best-only intent"
  (`drills.go`). When the receipt has rolled off the ring and the best has been
  beaten since, nothing remembers the client id, and the same body sent to the
  publishing route is published.
- `drills_refused`: "A repeated client ID/body/route returns the original
  receipt" (README). A published Endless run whose receipt and run are gone but
  which is still the best is answered `client_id_conflict`; Arcade answers 200
  in that state, because its best rows keep the body hash and the route.
- `accounts_401`: "A row that vanished between requireExists and here is a 404"
  (`players/handlers.go`). When two sendings of one erase job overlap, the row
  may vanish before the bearer check and the second is answered 401, which
  README says must not happen to a retry. The job still ends, because a retry
  after a 401 hears 404 (`EraseFinishes`).

- `reactions_oldest`: "`created_at` is stamped in the same INSERT, so lowest id is
  always oldest" (migration 006). `Insert` reads the clock before it waits for
  the connection, so of two overlapping submissions the earlier stamp can get
  the higher id. The board's own order asks the date before the id, so ranks
  are not affected; which of two identical reruns the migration keeps is.

Four more were met while reading and need no run:

- `admin/access.go:126`: the comment of `key()` says stale keys are asked for
  again "at most once a minute"; a failed fetch dates `fetchedAt`, so a key the
  cache holds passes for fresh for another hour. `AccessKeys` models the code,
  and `KeysFollowed` excuses a request whose last fetch failed.
- `leaderboard/score.go:253`: 13.5 frames is called "the MASTER boundary on the
  ladder"; `TierName` ends MASTER at 13 and DIAMOND at 14.5.
- `leaderboard/store.go:372`: the page's comments (`page.go:41`, `411`) say a tier
  is a pure function of the time; the first three rows of a board are named
  LEGEND whatever their times.
- `namefilter/filter.go:2`: the package comment says names are checked "only at
  identity writes and public display reads"; `names.go:50` says stored names are
  never masked by the policy, and `Display` does not ask it. `Names` models the
  code.

## Plan

Done, in this order, the most important behaviour first: `DrillStore` with its
proofs, `DrillBoards`, then `Accounts`, `Reports` and `ReactionBoard`, each with
its proofs; then `RateLimiter`, `AccessKeys`, `Migrations` with
`UpgradePromise`, `Connection`, `BoardPage`, `Scoring` and `Names`, composed in
`MCService`; then the proofs of all of these, with the exactness of the boards, which
rests on that of the store, and of the composition.

To come: `DrillPromise`, an abstract store that keeps every accepted submission
and answers from it, with `DrillStore` shown to implement it; its invariants
(`ReceiptRing`, `NewestRetained`, `BestIsMax`, `NoEarlyReuse`) are the lemmas.

Not modelled: the shape of JSON bodies, the parsing of avatars, routing, headers,
request logging, the static avatar file and configuration, which keep no state;
the rounding of float64 in scores and times; LEGEND, which is a row's place;
the loading of the name policy's file, whose digests stand for their terms; what
a card looks like; the ten seconds of a graceful shutdown, which end in what a
kill ends in, and the health check's client; avatar baking, a tool that runs at
build time and not in the service.
