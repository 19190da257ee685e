----------------------------- MODULE Migrations -----------------------------
(***************************************************************************)
(* store.Migrate under main.run: at every start the process applies, in    *)
(* version order and each in a transaction of its own, whatever its        *)
(* release ships and the file does not record, then serves.  The process   *)
(* may die anywhere, and another release, newer or older, may be started.  *)
(*                                                                         *)
(* A migration's SQL is a count of how often it took effect.  One of them  *)
(* (007) is completed by Go code: it gives every player a public           *)
(* reference, under a UNIQUE index and triggers that require one.          *)
(***************************************************************************)
EXTENDS Integers, FiniteSets

CONSTANTS
    Members,       \* players' ids
    Versions,      \* versions of the migrations, natural numbers
    Releases,      \* the sets of versions that binaries ship
    RefVersion,    \* the migration that gives players their references
    Refs,          \* values identity.NewRef may return
    MaxTwice       \* bound: how often a migration's effect is counted

ASSUME VersionsAssumption == /\ Versions \subseteq Nat \ {0} /\ IsFiniteSet(Versions)
                             /\ RefVersion \in Versions
                             /\ Releases \subseteq SUBSET Versions
ASSUME RefsAssumption == "NULL" \notin Refs     \* a reference is not absence
ASSUME MaxTwiceAssumption == MaxTwice \in Nat \ {0}

VARIABLES
    file,       \* the database file: what is recorded, in effect, and the players
    shipped,    \* what the installed release ships
    process,    \* "down", "migrating" or "serving"
    applied,    \* the versions read at the start and those applied since
    tx          \* the migration under way: its version, its view, players to name

migrationVars == <<file, shipped, process, applied, tx>>

-----------------------------------------------------------------------------
NoTx  == [version |-> 0]
NoRef == "NULL"

File == [recorded : SUBSET Versions,
         effects  : [Versions -> 0..MaxTwice],
         names    : UNION {[M -> Refs \cup {NoRef}] : M \in SUBSET Members}]

\* What Migrate has still to apply: every version not recorded, wherever it lies.
Pending_AboveNewest == {v \in shipped : \A w \in applied : w < v}
Pending             == {v \in shipped : v \notin applied}

\* What the file holds after a statement of a transaction, should it never
\* commit.
OnDisk_NoTransaction(view) == view
OnDisk(view)               == file

Unnamed(view) == {m \in DOMAIN view.names : view.names[m] = NoRef}

\* The players the Go part of a migration has to name, read after its SQL.
Backfill_None(v, view) == {}
Backfill(v, view)      == IF v = RefVersion THEN Unnamed(view) ELSE {}

\* ux_players_player_ref.
NotTaken(f, names) == \A m \in DOMAIN names : names[m] # f

-----------------------------------------------------------------------------
(* Actions.                                                                  *)

MigrationsInit ==
    /\ file = [recorded |-> {}, effects |-> [v \in Versions |-> 0],
               names |-> [m \in {} |-> NoRef]]
    /\ shipped \in Releases
    /\ process = "down"
    /\ applied = {}
    /\ tx = NoTx

\* Open, Load and appliedVersions; no schema_migrations means nothing applied.
Boot ==
    /\ process = "down"
    /\ process' = "migrating"
    /\ applied' = file.recorded
    /\ UNCHANGED <<file, shipped, tx>>

\* apply: BEGIN and the migration's SQL.
RunSQL(v) ==
    /\ process = "migrating" /\ tx = NoTx
    /\ v \in Pending
    /\ \A w \in Pending : v <= w
    /\ file.effects[v] < MaxTwice
    /\ LET view == [file EXCEPT !.effects[v] = @ + 1]
       IN  /\ tx' = [version |-> v, view |-> view, todo |-> Backfill(v, view)]
           /\ file' = OnDisk(view)
    /\ UNCHANGED <<shipped, process, applied>>

\* backfillPlayerRefs: one UPDATE; a reference already taken fails it (Die).
NameOne(m, f) ==
    /\ tx # NoTx
    /\ m \in tx.todo
    /\ NotTaken(f, tx.view.names)
    /\ LET view == [tx.view EXCEPT !.names[m] = f]
       IN  /\ tx' = [tx EXCEPT !.view = view, !.todo = @ \ {m}]
           /\ file' = OnDisk(view)
    /\ UNCHANGED <<shipped, process, applied>>

\* The record, in the same transaction, and COMMIT.
CommitMigration ==
    /\ tx # NoTx
    /\ tx.todo = {}
    /\ file' = [tx.view EXCEPT !.recorded = @ \cup {tx.version}]
    /\ applied' = applied \cup {tx.version}
    /\ tx' = NoTx
    /\ UNCHANGED <<shipped, process>>

\* Migrate returns, the startup pass goes through, the listener opens.
OpenForPlayers ==
    /\ process = "migrating" /\ tx = NoTx
    /\ Pending = {}
    /\ process' = "serving"
    /\ UNCHANGED <<file, shipped, applied, tx>>

\* A failing statement, a failing start, SIGTERM or a crash: the transaction is
\* rolled back and the process is gone.
Die ==
    /\ process # "down"
    /\ process' = "down"
    /\ applied' = {}
    /\ tx' = NoTx
    /\ UNCHANGED <<file, shipped>>

\* Another image is installed while the process is down.
Install(release) ==
    /\ process = "down"
    /\ shipped' = release
    /\ UNCHANGED <<file, process, applied, tx>>

\* POST /v1/players.  A release from before the references inserts none, which
\* the trigger refuses once they are required.
Join(m, f) ==
    /\ process = "serving"
    /\ m \notin DOMAIN file.names
    /\ IF RefVersion \in shipped THEN f # NoRef /\ NotTaken(f, file.names)
                                 ELSE f = NoRef /\ RefVersion \notin file.recorded
    /\ file' = [file EXCEPT !.names =
                    [n \in DOMAIN file.names \cup {m} |->
                        IF n = m THEN f ELSE file.names[n]]]
    /\ UNCHANGED <<shipped, process, applied, tx>>

\* DELETE /v1/players/{id}.
Quit(m) ==
    /\ process = "serving"
    /\ m \in DOMAIN file.names
    /\ file' = [file EXCEPT !.names =
                    [n \in DOMAIN file.names \ {m} |-> file.names[n]]]
    /\ UNCHANGED <<shipped, process, applied, tx>>

MigrationsNext ==
    \/ Boot \/ CommitMigration \/ OpenForPlayers \/ Die
    \/ \E v \in Versions : RunSQL(v)
    \/ \E release \in Releases : Install(release)
    \/ \E m \in Members :
          \/ \E f \in Refs : NameOne(m, f)
          \/ \E f \in Refs \cup {NoRef} : Join(m, f)
          \/ Quit(m)

MigrationsSpec == MigrationsInit /\ [][MigrationsNext]_migrationVars

-----------------------------------------------------------------------------
(* Properties.                                                               *)

\* Every variable keeps its shape.
MigrationsTypeOK ==
    /\ file \in File
    /\ shipped \in Releases
    /\ process \in {"down", "migrating", "serving"}
    /\ applied \subseteq Versions
    /\ tx \in [version : Versions, view : File, todo : SUBSET Members] \cup {NoTx}

\* Wherever the process dies, and whichever releases are started in whichever
\* order, a migration is in effect exactly when it is recorded, and once; and a
\* process that serves has every migration its release ships.
AppliedOnce ==
    /\ \A v \in Versions :
           file.effects[v] = IF v \in file.recorded THEN 1 ELSE 0
    /\ process = "serving" => shipped \subseteq file.recorded

\* Once the references exist every player has one of its own: those from before
\* the migration, those registered since, and those an older release, started
\* again on the newer file, would add.
EveryoneNamed ==
    RefVersion \in file.recorded =>
        /\ Unnamed(file) = {}
        /\ \A m, n \in DOMAIN file.names :
               file.names[m] = file.names[n] => m = n

\* Whatever dies in between, the many steps of a start look like upgrades made
\* at one instant each: of the effects and the players' references in the file,
\* UpgradePromise holds.
Upgrades == INSTANCE UpgradePromise WITH effects <- file.effects, names <- file.names

UpgradesAtomic == Upgrades!Promise
=============================================================================
