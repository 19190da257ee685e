----------------------------- MODULE Connection -----------------------------
(***************************************************************************)
(* The one pooled connection of store.Open, and how the process uses it.   *)
(* database/sql lends the connection to a statement until its rows are     *)
(* closed and to a transaction until it ends; whoever asks meanwhile       *)
(* waits.  A goroutine that asks the pool while it holds the connection    *)
(* itself waits for ever, and everyone else with it.                       *)
(*                                                                         *)
(* A routine is the order in which its Go code takes, uses and gives back  *)
(* the connection; what the statements say is in the other modules.        *)
(***************************************************************************)
EXTENDS Integers, Sequences

CONSTANTS Goroutines    \* requests being served, the worker, the starting process

VARIABLES
    lent,    \* the goroutine the connection is lent to, or NoOne
    left,    \* what each goroutine has still to do with the database
    open     \* the process has started and serves

connectionVars == <<lent, left, open>>

-----------------------------------------------------------------------------
NoOne == "nobody"

ASSUME GoroutinesAssumption == NoOne \notin Goroutines

\* QueryRow or Exec on the pool: lent and given back in one call.
Stmt == <<"stmt">>

\* Query on the pool, and the Close that the function defers or makes.
Rows == <<"query", "close">>

\* BeginTx, statements on the transaction, Commit or the deferred Rollback.
Tx == <<"begin", "onTx", "end">>

(* The parts of the routines.                                                *)

Authenticate == Stmt
PruneExpired == Stmt \o Stmt \o Stmt
ReadSince    == Rows
ReadRecent_RowsOpen == PruneExpired \o <<"query">> \o Rows \o <<"close">>
ReadRecent   == PruneExpired \o ReadSince \o Rows
ReadArcade   == PruneExpired \o Rows

\* readArcade calls itself for the caller's standing before it queries the feed.
RecentArcade == PruneExpired \o ReadArcade \o Rows

\* Insert's transaction, then the rank, which is read on the pool.
SubmitReaction == Authenticate \o Tx \o Stmt

SubmitDrill   == Authenticate \o Tx \o ReadSince
SubmitArcade  == Authenticate \o Tx \o ReadArcade
ReactionBoard == Rows \o Stmt
PublicProfile == Stmt \o Rows \o Stmt

\* Open: Ping and two pragmas.  Migrate: is there a table, what does it record,
\* then a transaction each.  The pass before the listener opens.
Startup == Stmt \o Stmt \o Stmt \o Stmt \o Rows \o Tx \o Tx \o PruneExpired
               \o <<"listen">>

Routines ==
    {PruneExpired,                              \* the worker
     SubmitDrill, SubmitArcade, SubmitReaction,
     Authenticate \o Tx,                        \* report
     ReadSince, Authenticate \o ReadSince, ReadRecent, Authenticate \o ReadRecent,
     ReadArcade, Authenticate \o ReadArcade, RecentArcade, Authenticate \o RecentArcade,
     ReactionBoard, PublicProfile,
     Stmt,                                      \* registration, the health check
     Authenticate \o Stmt,                      \* rename, avatar
     Stmt \o Authenticate \o Stmt,              \* erasure
     Rows}                                      \* the admin page

-----------------------------------------------------------------------------
(* Actions.                                                                  *)

ConnectionInit ==
    /\ lent = NoOne
    /\ left = [g \in Goroutines |-> <<>>]
    /\ open = FALSE

Next1(g) == IF left[g] = <<>> THEN "nothing" ELSE Head(left[g])

\* The process starts, alone with its database.
Start(g) ==
    /\ ~open
    /\ \A h \in Goroutines : left[h] = <<>>
    /\ left' = [left EXCEPT ![g] = Startup]
    /\ UNCHANGED <<lent, open>>

Listen(g) ==
    /\ Next1(g) = "listen"
    /\ left' = [left EXCEPT ![g] = <<>>]
    /\ open' = TRUE
    /\ UNCHANGED lent

\* A request arrives, or the worker ticks.
Call(g, routine) ==
    /\ open
    /\ left[g] = <<>>
    /\ left' = [left EXCEPT ![g] = routine]
    /\ UNCHANGED <<lent, open>>

RunStmt(g) ==
    /\ Next1(g) = "stmt" /\ lent = NoOne
    /\ left' = [left EXCEPT ![g] = Tail(@)]
    /\ UNCHANGED <<lent, open>>

Borrow(g) ==
    /\ Next1(g) \in {"query", "begin"} /\ lent = NoOne
    /\ left' = [left EXCEPT ![g] = Tail(@)]
    /\ lent' = g
    /\ UNCHANGED open

Use(g) ==
    /\ Next1(g) = "onTx" /\ lent = g
    /\ left' = [left EXCEPT ![g] = Tail(@)]
    /\ UNCHANGED <<lent, open>>

GiveBack(g) ==
    /\ Next1(g) \in {"close", "end"} /\ lent = g
    /\ left' = [left EXCEPT ![g] = Tail(@)]
    /\ lent' = NoOne
    /\ UNCHANGED open

\* An error, a refusal, or a caller who hung up, also while waiting: the
\* deferred Close or Rollback gives the connection back.
GiveUp(g) ==
    /\ left[g] # <<>>
    /\ left' = [left EXCEPT ![g] = <<>>]
    /\ lent' = IF lent = g THEN NoOne ELSE lent
    /\ UNCHANGED open

ConnectionNext ==
    \E g \in Goroutines :
        \/ \E routine \in Routines : Call(g, routine)
        \/ Start(g) \/ Listen(g)
        \/ RunStmt(g) \/ Borrow(g) \/ Use(g) \/ GiveBack(g) \/ GiveUp(g)

ConnectionSpec == ConnectionInit /\ [][ConnectionNext]_connectionVars

-----------------------------------------------------------------------------
(* Properties.                                                               *)

\* Every variable keeps its shape.
ConnectionTypeOK ==
    /\ lent \in Goroutines \cup {NoOne}
    /\ open \in BOOLEAN
    /\ \A g \in Goroutines : \E routine \in Routines \cup {Startup} :
           \E n \in 0..Len(routine) :
               left[g] = SubSeq(routine, n + 1, Len(routine))

\* Nobody waits for a connection that is never given back: whoever holds it
\* can always take its next step with it, and ends up without it.
NobodyWaitsForItself ==
    /\ \A g \in Goroutines : lent = g => Next1(g) \in {"onTx", "close", "end"}
    /\ \A g \in Goroutines : Next1(g) \in {"onTx", "close", "end"} => lent = g
=============================================================================
