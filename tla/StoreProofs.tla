---------------------------- MODULE StoreProofs ----------------------------
(***************************************************************************)
(* The store.  Whatever releases are started, and wherever they die, each  *)
(* migration takes effect at one instant and once, and the references are  *)
(* complete and distinct: for every set of players, versions, releases and *)
(* references.  And no goroutine waits for the connection it holds itself, *)
(* for any number of them.                                                 *)
(***************************************************************************)
EXTENDS Migrations, Connection, SequenceTheorems, TLAPS

Distinct(names) == Upgrades!Distinct(names)

(***************************************************************************)
(* The inductive invariant.  While a transaction is open nobody else       *)
(* writes, so that its view differs from the file in what it did itself.   *)
(***************************************************************************)

\* The process knows what the file records; a transaction is a migrating one's.
Known ==
    /\ process # "down" => applied = file.recorded
    /\ tx # NoTx => process = "migrating"

\* The references in the file: distinct, and complete once introduced.
Named(f) ==
    /\ Distinct(f.names)
    /\ RefVersion \in f.recorded => Unnamed(f) = {}

\* What the view of an open transaction has, over what the file has.
ViewAhead ==
    tx # NoTx =>
        /\ tx.version \notin file.recorded
        /\ tx.view.recorded = file.recorded
        /\ tx.view.effects = [file.effects EXCEPT ![tx.version] = 1]
        /\ DOMAIN tx.view.names = DOMAIN file.names
        /\ Distinct(tx.view.names)
        /\ \A m \in DOMAIN file.names :
               tx.version # RefVersion \/ file.names[m] # NoRef
                   => tx.view.names[m] = file.names[m]
        /\ tx.todo = IF tx.version = RefVersion THEN Unnamed(tx.view) ELSE {}

Inv == MigrationsTypeOK /\ AppliedOnce /\ Known /\ Named(file) /\ ViewAhead

\* A database nobody has opened keeps the invariant.
LEMMA InvInit == MigrationsInit => Inv
  <1> SUFFICES ASSUME MigrationsInit PROVE Inv
    OBVIOUS
  <1> USE DEF MigrationsInit
  <1>1. file \in File
    BY MaxTwiceAssumption DEF File
  <1>2. MigrationsTypeOK
    BY <1>1 DEF MigrationsTypeOK, NoTx
  <1>3. AppliedOnce
    BY DEF AppliedOnce
  <1>4. Known /\ ViewAhead
    BY DEF Known, ViewAhead, NoTx
  <1>5. Named(file)
    BY DEF Named, Distinct, Upgrades!Distinct, Unnamed
  <1> QED
    BY <1>2, <1>3, <1>4, <1>5 DEF Inv

(***************************************************************************)
(* The steps.                                                              *)
(***************************************************************************)

\* A process starts and opens the file.
LEMMA BootStep == Inv /\ Boot => Inv'
  <1> SUFFICES ASSUME Inv, Boot PROVE Inv'
    OBVIOUS
  <1> USE DEF Inv, Boot
  <1>1. MigrationsTypeOK'
    BY DEF MigrationsTypeOK, File
  <1>2. AppliedOnce'
    BY DEF AppliedOnce
  <1>3. Known' /\ Named(file)' /\ ViewAhead'
    BY DEF Known, Named, Distinct, Upgrades!Distinct, Unnamed, ViewAhead
  <1> QED
    BY <1>1, <1>2, <1>3

\* The SQL of a migration that was never recorded: its effect goes from 0 to 1
\* in the view, and the view has the file's names.
LEMMA RunSQLStep == ASSUME NEW v \in Versions, Inv, RunSQL(v) PROVE Inv'
  <1> DEFINE view == [file EXCEPT !.effects[v] = @ + 1]
  <1>1. /\ process = "migrating" /\ tx = NoTx /\ v \notin file.recorded
        /\ file.effects[v] = 0 /\ file \in File
    BY DEF Inv, RunSQL, Pending, Known, AppliedOnce, MigrationsTypeOK
  <1>2. /\ view \in File
        /\ view.recorded = file.recorded /\ view.names = file.names
        /\ view.effects = [file.effects EXCEPT ![v] = 1]
    BY <1>1, MaxTwiceAssumption DEF File
  <1>3. /\ tx' = [version |-> v, view |-> view, todo |-> Backfill(v, view)]
        /\ file' = file /\ UNCHANGED <<shipped, process, applied>>
    BY DEF RunSQL, OnDisk
  <1> HIDE DEF view
  <1>4. Backfill(v, view) \in SUBSET Members
    BY <1>2 DEF Backfill, Unnamed, File
  <1>5. MigrationsTypeOK'
    BY <1>2, <1>3, <1>4 DEF Inv, MigrationsTypeOK
  <1>6. AppliedOnce' /\ Known' /\ Named(file)'
    BY <1>1, <1>3 DEF Inv, AppliedOnce, Known, Named, Distinct, Upgrades!Distinct, Unnamed
  <1>7. ViewAhead'
    BY <1>1, <1>2, <1>3
       DEF Inv, ViewAhead, Named, Distinct, Upgrades!Distinct, Backfill, Unnamed
  <1> QED
    BY <1>5, <1>6, <1>7 DEF Inv

\* One player more is named in the view, with a reference nobody has.
LEMMA NameOneStep ==
    ASSUME NEW m \in Members, NEW f \in Refs, Inv, NameOne(m, f) PROVE Inv'
  <1> DEFINE view == [tx.view EXCEPT !.names[m] = f]
  <1>1. /\ tx # NoTx /\ m \in tx.todo
        /\ tx \in [version : Versions, view : File, todo : SUBSET Members]
        /\ file' = file /\ UNCHANGED <<shipped, process, applied>>
        /\ tx' = [tx EXCEPT !.view = view, !.todo = @ \ {m}]
    BY DEF Inv, NameOne, OnDisk, MigrationsTypeOK
  <1>2. /\ tx.version = RefVersion /\ tx.todo = Unnamed(tx.view)
        /\ m \in DOMAIN tx.view.names /\ tx.view.names[m] = NoRef
    BY <1>1 DEF Inv, ViewAhead, Unnamed
  <1>3. /\ view \in File
        /\ view.recorded = tx.view.recorded /\ view.effects = tx.view.effects
        /\ view.names = [tx.view.names EXCEPT ![m] = f]
    BY <1>1, <1>2 DEF File
  <1>4. /\ tx'.version = tx.version /\ tx'.view = view /\ tx'.todo = tx.todo \ {m}
        /\ tx' \in [version : Versions, view : File, todo : SUBSET Members]
    BY <1>1, <1>3
  <1> HIDE DEF view
  <1>5. MigrationsTypeOK'
    BY <1>1, <1>4 DEF Inv, MigrationsTypeOK
  <1>6. AppliedOnce' /\ Known' /\ Named(file)'
    BY <1>1 DEF Inv, AppliedOnce, Known, Named, Distinct, Upgrades!Distinct, Unnamed
  <1>7. Distinct(view.names)
    BY <1>1, <1>2, <1>3 DEF Inv, ViewAhead, NameOne, NotTaken, Distinct, Upgrades!Distinct
  <1>8. Unnamed(view) = Unnamed(tx.view) \ {m}
    BY <1>2, <1>3, RefsAssumption DEF Unnamed, NoRef
  <1>9. \A n \in DOMAIN file.names :
            file.names[n] # NoRef => view.names[n] = file.names[n]
    BY <1>1, <1>2, <1>3 DEF Inv, ViewAhead
  <1>10. ViewAhead'
    BY <1>1, <1>2, <1>3, <1>4, <1>7, <1>8, <1>9 DEF Inv, ViewAhead
  <1> QED
    BY <1>5, <1>6, <1>10 DEF Inv

\* The view, with everybody named if that was the migration, becomes the file.
LEMMA CommitStep == Inv /\ CommitMigration => Inv'
  <1> SUFFICES ASSUME Inv, CommitMigration PROVE Inv'
    OBVIOUS
  <1>1. /\ tx # NoTx /\ tx.todo = {} /\ tx' = NoTx
        /\ tx \in [version : Versions, view : File, todo : SUBSET Members]
        /\ file' = [tx.view EXCEPT !.recorded = @ \cup {tx.version}]
        /\ applied' = applied \cup {tx.version}
        /\ UNCHANGED <<shipped, process>> /\ process = "migrating"
    BY DEF Inv, CommitMigration, MigrationsTypeOK, Known
  <1>2. /\ file' \in File
        /\ file'.recorded = file.recorded \cup {tx.version}
        /\ file'.names = tx.view.names
        /\ file'.effects = [file.effects EXCEPT ![tx.version] = 1]
    BY <1>1 DEF Inv, ViewAhead, File
  <1>3. MigrationsTypeOK'
    BY <1>1, <1>2 DEF Inv, MigrationsTypeOK
  <1>4. AppliedOnce'
    BY <1>1, <1>2 DEF Inv, AppliedOnce, MigrationsTypeOK, File
  <1>5. Known' /\ ViewAhead'
    BY <1>1, <1>2 DEF Inv, Known, ViewAhead
  <1>6. Distinct(file'.names)
    BY <1>1, <1>2 DEF Inv, ViewAhead
  <1>7. RefVersion \in file'.recorded => Unnamed(file') = {}
    <2>1. CASE tx.version = RefVersion
      BY <2>1, <1>1, <1>2 DEF Inv, ViewAhead, Unnamed
    <2>2. CASE tx.version # RefVersion
      <3>1. RefVersion \in file'.recorded => Unnamed(file) = {}
        BY <2>2, <1>2 DEF Inv, Named
      <3>2. /\ DOMAIN file'.names = DOMAIN file.names
            /\ \A m \in DOMAIN file.names : file'.names[m] = file.names[m]
        BY <2>2, <1>1, <1>2 DEF Inv, ViewAhead
      <3> QED
        BY <3>1, <3>2 DEF Unnamed
    <2> QED
      BY <2>1, <2>2
  <1>8. Named(file)'
    BY <1>6, <1>7 DEF Named, Distinct, Upgrades!Distinct, Unnamed
  <1> QED
    BY <1>3, <1>4, <1>5, <1>8 DEF Inv

\* The migrations are done and players are served.
LEMMA OpenStep == Inv /\ OpenForPlayers => Inv'
  BY DEF Inv, OpenForPlayers, Pending, MigrationsTypeOK, AppliedOnce, Known, Named,
         Distinct, Upgrades!Distinct, Unnamed, ViewAhead

\* A process dies, and its transaction is rolled back.
LEMMA DieStep == Inv /\ Die => Inv'
  BY DEF Inv, Die, MigrationsTypeOK, AppliedOnce, Known, Named,
         Distinct, Upgrades!Distinct, Unnamed, ViewAhead

\* Another release is installed.
LEMMA InstallStep ==
    ASSUME NEW release \in Releases, Inv, Install(release) PROVE Inv'
  BY DEF Inv, Install, MigrationsTypeOK, AppliedOnce, Known, Named,
         Distinct, Upgrades!Distinct, Unnamed, ViewAhead

\* A process that serves has the references if its release does; one that has
\* not is refused where they exist.
Joined(m, f) ==
    /\ file' \in File
    /\ file'.recorded = file.recorded /\ file'.effects = file.effects
    /\ file'.names = [n \in DOMAIN file.names \cup {m} |->
                          IF n = m THEN f ELSE file.names[n]]
    /\ (f = NoRef) <=> RefVersion \notin file.recorded
    /\ Distinct(file'.names)
    /\ tx = NoTx /\ tx' = NoTx
    /\ UNCHANGED <<shipped, process, applied>>

\* Who joins is named by a free reference, in a column that may be there.
LEMMA JoinNames ==
    ASSUME NEW m \in Members, NEW f \in Refs \cup {NoRef}, Inv, Join(m, f)
    PROVE  Joined(m, f)
  <1>1. /\ file \in File /\ tx = NoTx /\ shipped \subseteq file.recorded
    BY DEF Inv, Join, MigrationsTypeOK, Known, AppliedOnce
  <1>2. PICK M \in SUBSET Members : file.names \in [M -> Refs \cup {NoRef}]
    BY <1>1 DEF File
  <1> DEFINE ns == [n \in DOMAIN file.names \cup {m} |->
                        IF n = m THEN f ELSE file.names[n]]
  <1>3. file' = [file EXCEPT !.names = ns] /\ UNCHANGED <<shipped, process, applied, tx>>
    BY DEF Join
  <1>4. ns \in [M \cup {m} -> Refs \cup {NoRef}]
    BY <1>2
  <1>5. M \cup {m} \in SUBSET Members
    OBVIOUS
  <1>6. ns \in UNION {[N -> Refs \cup {NoRef}] : N \in SUBSET Members}
    BY <1>4, <1>5
  <1>7. /\ file' \in File /\ file'.names = ns
        /\ file'.recorded = file.recorded /\ file'.effects = file.effects
    BY <1>1, <1>3, <1>6 DEF File
  <1>8. (f = NoRef) <=> RefVersion \notin file.recorded
    BY <1>1, RefsAssumption DEF Join, NoRef
  <1>9. f = NoRef \/ \A n \in DOMAIN file.names : file.names[n] # f
    BY <1>1, <1>8 DEF Join, NotTaken
  <1>10. Distinct(ns)
    BY <1>9 DEF Inv, Named, Distinct, Upgrades!Distinct
  <1> QED
    BY <1>1, <1>3, <1>7, <1>8, <1>10 DEF Joined

\* A player joins.
LEMMA JoinStep ==
    ASSUME NEW m \in Members, NEW f \in Refs \cup {NoRef}, Inv, Join(m, f)
    PROVE  Inv'
  <1>0. Joined(m, f)
    BY JoinNames
  <1>1. MigrationsTypeOK'
    BY <1>0 DEF Joined, Inv, MigrationsTypeOK
  <1>2. AppliedOnce' /\ Known' /\ ViewAhead'
    BY <1>0 DEF Joined, Inv, AppliedOnce, Known, ViewAhead
  <1>3. RefVersion \in file'.recorded => Unnamed(file') = {}
    BY <1>0 DEF Joined, Inv, Named, Unnamed
  <1>4. Named(file)'
    BY <1>0, <1>3 DEF Joined, Named, Distinct, Upgrades!Distinct, Unnamed
  <1> QED
    BY <1>1, <1>2, <1>4 DEF Inv

HasQuit(m) ==
    /\ file' \in File
    /\ file'.recorded = file.recorded /\ file'.effects = file.effects
    /\ file'.names = [n \in DOMAIN file.names \ {m} |-> file.names[n]]
    /\ tx = NoTx /\ tx' = NoTx
    /\ UNCHANGED <<shipped, process, applied>>

\* Who quits takes the name along.
LEMMA QuitNames ==
    ASSUME NEW m \in Members, Inv, Quit(m)
    PROVE  HasQuit(m)
  <1>1. file \in File /\ tx = NoTx
    BY DEF Inv, Quit, MigrationsTypeOK, Known
  <1>2. PICK M \in SUBSET Members : file.names \in [M -> Refs \cup {NoRef}]
    BY <1>1 DEF File
  <1> DEFINE ns == [n \in DOMAIN file.names \ {m} |-> file.names[n]]
  <1>3. ns \in [M \ {m} -> Refs \cup {NoRef}] /\ M \ {m} \in SUBSET Members
    BY <1>2
  <1>4. ns \in UNION {[N -> Refs \cup {NoRef}] : N \in SUBSET Members}
    BY <1>3
  <1>5. file' = [file EXCEPT !.names = ns] /\ UNCHANGED <<shipped, process, applied, tx>>
    BY DEF Quit
  <1> QED
    BY <1>1, <1>4, <1>5 DEF File, HasQuit

\* A player quits.
LEMMA QuitStep == ASSUME NEW m \in Members, Inv, Quit(m) PROVE Inv'
  <1>0. HasQuit(m)
    BY QuitNames
  <1>1. MigrationsTypeOK'
    BY <1>0 DEF HasQuit, Inv, MigrationsTypeOK
  <1>2. AppliedOnce' /\ Known' /\ ViewAhead'
    BY <1>0 DEF HasQuit, Inv, AppliedOnce, Known, ViewAhead
  <1>3. Named(file)'
    BY <1>0 DEF HasQuit, Inv, Named, Distinct, Upgrades!Distinct, Unnamed
  <1> QED
    BY <1>1, <1>2, <1>3 DEF Inv

\* So every step keeps the invariant.
LEMMA InvStep == Inv /\ [MigrationsNext]_migrationVars => Inv'
  <1> SUFFICES ASSUME Inv, [MigrationsNext]_migrationVars PROVE Inv'
    OBVIOUS
  <1>1. CASE Boot \/ CommitMigration \/ OpenForPlayers \/ Die
    BY <1>1, BootStep, CommitStep, OpenStep, DieStep
  <1>2. CASE \E v \in Versions : RunSQL(v)
    BY <1>2, RunSQLStep
  <1>3. CASE \E release \in Releases : Install(release)
    BY <1>3, InstallStep
  <1>4. CASE \E m \in Members : Quit(m)
    BY <1>4, QuitStep
  <1>5. CASE \E m \in Members : \E f \in Refs : NameOne(m, f)
    BY <1>5, NameOneStep
  <1>6. CASE \E m \in Members : \E f \in Refs \cup {NoRef} : Join(m, f)
    BY <1>6, JoinStep
  <1>7. CASE UNCHANGED migrationVars
    BY <1>7 DEF migrationVars, Inv, MigrationsTypeOK, AppliedOnce, Known, Named,
                Distinct, Upgrades!Distinct, Unnamed, ViewAhead
  <1> QED
    BY <1>1, <1>2, <1>3, <1>4, <1>5, <1>6, <1>7 DEF MigrationsNext

\* And it holds in every behaviour.
LEMMA Invariance == MigrationsSpec => []Inv
  BY InvInit, InvStep, PTL DEF MigrationsSpec

(***************************************************************************)
(* The theorems.                                                           *)
(***************************************************************************)

\* Every variable of a starting and serving process keeps its shape
\* (store.Migrate, main.run).
THEOREM MigrationsTypeCorrect == MigrationsSpec => []MigrationsTypeOK
  BY Invariance, PTL DEF Inv

\* Wherever Migrate is interrupted, a migration is in effect exactly when it is
\* recorded, and once; main.run serves only with all that its release ships.
THEOREM AppliedOnceHolds == MigrationsSpec => []AppliedOnce
  BY Invariance, PTL DEF Inv

\* Once migration 007 is recorded each player has a reference of its own,
\* whatever release registers players on that file.
THEOREM EveryoneNamedHolds == MigrationsSpec => []EveryoneNamed
  <1>1. Inv => EveryoneNamed
    BY DEF Inv, Named, Distinct, Upgrades!Distinct, EveryoneNamed, Unnamed
  <1> QED
    BY <1>1, Invariance, PTL

(***************************************************************************)
(* The refinement: only the commit, a registration and an erasure change   *)
(* what UpgradePromise sees, and each does what one of its actions allows. *)
(***************************************************************************)

\* The initial file is an initial file of the promise.
LEMMA PromiseAtInit == MigrationsInit => Upgrades!PromiseInit
  BY DEF MigrationsInit, Upgrades!PromiseInit

\* A commit is one upgrade of the promise.
LEMMA CommitUpgrades == Inv /\ CommitMigration => Upgrades!Upgrade(tx.version)
  <1> SUFFICES ASSUME Inv, CommitMigration PROVE Upgrades!Upgrade(tx.version)
    OBVIOUS
  <1>1. /\ tx # NoTx /\ tx.todo = {}
        /\ tx \in [version : Versions, view : File, todo : SUBSET Members]
        /\ file' = [tx.view EXCEPT !.recorded = @ \cup {tx.version}]
    BY DEF Inv, CommitMigration, MigrationsTypeOK
  <1>2. /\ file'.names = tx.view.names
        /\ file'.effects = [file.effects EXCEPT ![tx.version] = 1]
    BY <1>1 DEF Inv, ViewAhead, File
  <1>3. file.effects[tx.version] = 0
    BY <1>1 DEF Inv, ViewAhead, AppliedOnce
  <1>4. /\ DOMAIN file'.names = DOMAIN file.names
        /\ \A m \in DOMAIN file.names :
               m \notin Upgrades!Nameless(file.names) \/ tx.version # RefVersion
                   => file'.names[m] = file.names[m]
    BY <1>1, <1>2 DEF Inv, ViewAhead, Upgrades!Nameless
  <1>5. tx.version = RefVersion =>
            Upgrades!Nameless(file'.names) = {} /\ Upgrades!Distinct(file'.names)
    BY <1>1, <1>2 DEF Inv, ViewAhead, Unnamed, Distinct, Upgrades!Nameless
  <1> QED
    BY <1>2, <1>3, <1>4, <1>5 DEF Upgrades!Upgrade

\* Joining is entering.
LEMMA JoinEnters ==
    ASSUME NEW m \in Members, NEW f \in Refs \cup {NoRef}, Inv, Join(m, f)
    PROVE  Upgrades!Enter(m, f)
  <1>1. Joined(m, f) /\ m \notin DOMAIN file.names
    BY JoinNames DEF Join
  <1>2. file.effects[RefVersion] = 0 <=> RefVersion \notin file.recorded
    BY VersionsAssumption DEF Inv, AppliedOnce
  <1> QED
    BY <1>1, <1>2 DEF Joined, Distinct, Upgrades!Enter

\* Quitting is leaving.
LEMMA QuitLeaves == ASSUME NEW m \in Members, Inv, Quit(m) PROVE Upgrades!Leave(m)
  <1>1. HasQuit(m) /\ m \in DOMAIN file.names
    BY QuitNames DEF Quit
  <1> QED
    BY <1>1 DEF HasQuit, Upgrades!Leave

\* Nothing else is seen.
LEMMA OthersStutter ==
    /\ Boot \/ OpenForPlayers \/ Die \/ UNCHANGED migrationVars => UNCHANGED file
    /\ \A v \in Versions : RunSQL(v) => UNCHANGED file
    /\ \A release \in Releases : Install(release) => UNCHANGED file
    /\ \A m \in Members : \A f \in Refs : NameOne(m, f) => UNCHANGED file
  BY DEF Boot, OpenForPlayers, Die, migrationVars, RunSQL, Install, NameOne, OnDisk

\* So every step is a step of the promise or none.
LEMMA PromiseStep ==
    Inv /\ [MigrationsNext]_migrationVars => [Upgrades!PromiseNext]_(Upgrades!promiseVars)
  <1> SUFFICES ASSUME Inv, [MigrationsNext]_migrationVars
               PROVE  [Upgrades!PromiseNext]_(Upgrades!promiseVars)
    OBVIOUS
  <1>1. CASE CommitMigration
    <2>1. tx.version \in Versions
      BY <1>1 DEF Inv, CommitMigration, MigrationsTypeOK
    <2> QED
      BY <1>1, <2>1, CommitUpgrades DEF Upgrades!PromiseNext
  <1>2. CASE \E m \in Members : Quit(m)
    BY <1>2, QuitLeaves DEF Upgrades!PromiseNext
  <1>3. CASE \E m \in Members : \E f \in Refs \cup {NoRef} : Join(m, f)
    BY <1>3, JoinEnters DEF Upgrades!PromiseNext
  <1>4. CASE UNCHANGED file
    BY <1>4 DEF Upgrades!promiseVars
  <1> QED
    BY <1>1, <1>2, <1>3, <1>4, OthersStutter DEF MigrationsNext

\* The starts of store.Migrate, step by step and with every interruption,
\* implement upgrades made at one instant each.
THEOREM UpgradesAtomicHolds == MigrationsSpec => UpgradesAtomic
  BY PromiseAtInit, PromiseStep, Invariance, PTL
     DEF MigrationsSpec, UpgradesAtomic, Upgrades!Promise

-----------------------------------------------------------------------------
(***************************************************************************)
(* The connection.  A goroutine's steps pair up: one that needs the        *)
(* connection comes exactly after one that leaves it lent, and the last    *)
(* one gives it back.  Routines put together from such parts are such      *)
(* routines, and so is what is left of one, for the goroutine that holds   *)
(* the connection or not.                                                  *)
(***************************************************************************)

StepKinds == {"stmt", "query", "close", "begin", "onTx", "end", "listen"}
Lending   == {"query", "begin", "onTx"}
Using     == {"onTx", "close", "end"}

\* s is what a goroutine has to do that holds the connection, or not.
Paired(s, holds) ==
    /\ s \in Seq(StepKinds)
    /\ \A i \in 1 .. Len(s) :
           s[i] \in Using <=> IF i = 1 THEN holds ELSE s[i - 1] \in Lending
    /\ IF s = <<>> THEN ~holds ELSE s[Len(s)] \notin Lending

Whole(s) == Paired(s, FALSE)

\* The parts of routines leave the connection as they found it, not held.
LEMMA WholeParts == Whole(Stmt) /\ Whole(Rows) /\ Whole(Tx) /\ Whole(<<"listen">>)
  BY DEF Whole, Paired, Stmt, Rows, Tx, StepKinds, Lending, Using

\* Whole routines in a row are a whole routine.
LEMMA WholeInARow ==
    ASSUME NEW s, NEW t, Whole(s), Whole(t)
    PROVE  Whole(s \o t)
<1> DEFINE r == s \o t
<1>1. s \in Seq(StepKinds) /\ t \in Seq(StepKinds) /\ Len(s) \in Nat /\ Len(t) \in Nat
  BY DEF Whole, Paired
<1>2. /\ r \in Seq(StepKinds) /\ Len(r) = Len(s) + Len(t)
      /\ \A i \in 1 .. Len(s) : r[i] = s[i]
      /\ \A i \in 1 .. Len(t) : r[Len(s) + i] = t[i]
  BY <1>1
<1>3. /\ s = <<>> <=> Len(s) = 0
      /\ t = <<>> <=> Len(t) = 0
      /\ r = <<>> <=> Len(r) = 0
  BY <1>1, <1>2, EmptySeq
<1> HIDE DEF r
<1>4. ASSUME NEW i \in 1 .. Len(r)
      PROVE  r[i] \in Using <=> IF i = 1 THEN FALSE ELSE r[i - 1] \in Lending
  <2>1. CASE i <= Len(s)
    <3>1. r[i] = s[i] /\ i \in 1 .. Len(s) /\ (i # 1 => r[i - 1] = s[i - 1])
      BY <1>1, <1>2, <2>1
    <3> QED BY <3>1 DEF Whole, Paired
  <2>2. CASE i = Len(s) + 1
    <3>1. r[i] = t[1] /\ 1 \in 1 .. Len(t)
      BY <1>1, <1>2, <2>2
    <3>2. t[1] \notin Using
      BY <3>1 DEF Whole, Paired
    <3>3. i # 1 => r[i - 1] = s[Len(s)] /\ s # <<>>
      BY <1>1, <1>2, <1>3, <2>2
    <3> QED BY <3>1, <3>2, <3>3 DEF Whole, Paired
  <2>3. CASE i > Len(s) + 1
    <3> DEFINE j == i - Len(s)
    <3>1. j \in 2 .. Len(t) /\ j - 1 \in 1 .. Len(t)
      BY <1>1, <1>2, <2>3
    <3>2. r[i] = t[j] /\ r[i - 1] = t[j - 1] /\ i # 1
      <4>1. i = Len(s) + j /\ i - 1 = Len(s) + (j - 1) /\ i # 1
        BY <1>1, <1>2, <2>3
      <4>2. r[Len(s) + j] = t[j] /\ r[Len(s) + (j - 1)] = t[j - 1]
        <5> HIDE DEF j
        <5> QED BY <1>2, <3>1
      <4> QED BY <4>1, <4>2
    <3>3. j \in 1 .. Len(t) /\ j # 1
      BY <1>1, <3>1
    <3> QED BY <3>2, <3>3 DEF Whole, Paired
  <2>4. i <= Len(s) \/ i = Len(s) + 1 \/ i > Len(s) + 1
    <3>1. i \in 1 .. (Len(s) + Len(t))
      BY <1>2
    <3> QED BY <1>1, <3>1
  <2> QED BY <2>1, <2>2, <2>3, <2>4
<1>5. r # <<>> => r[Len(r)] \notin Lending
  <2>1. CASE t = <<>>
    BY <1>1, <1>2, <1>3, <2>1 DEF Whole, Paired
  <2>2. CASE t # <<>>
    BY <1>1, <1>2, <1>3, <2>2 DEF Whole, Paired
  <2> QED BY <2>1, <2>2
<1> QED BY <1>2, <1>4, <1>5 DEF Whole, Paired, r

\* So do the routines made of them, and the startup.
LEMMA WholeRoutines == /\ \A routine \in Routines : Whole(routine)
                       /\ Whole(Startup)
<1>1. Whole(Authenticate)
  BY WholeParts DEF Authenticate
<1>2. Whole(PruneExpired)
  BY WholeParts, WholeInARow, Zenon DEF PruneExpired
<1>3. Whole(ReadSince)
  BY WholeParts DEF ReadSince
<1>4. Whole(ReadRecent)
  <2>1. Whole(PruneExpired \o ReadSince)
    BY <1>2, <1>3, WholeInARow
  <2> QED BY <2>1, WholeParts, WholeInARow DEF ReadRecent
<1>5. Whole(ReadArcade)
  BY <1>2, WholeParts, WholeInARow DEF ReadArcade
<1>6. Whole(RecentArcade)
  <2>1. Whole(PruneExpired \o ReadArcade)
    BY <1>2, <1>5, WholeInARow
  <2> QED BY <2>1, WholeParts, WholeInARow DEF RecentArcade
<1>7. Whole(Authenticate \o Tx)
  BY <1>1, WholeParts, WholeInARow
<1>8. Whole(SubmitReaction) /\ Whole(SubmitDrill) /\ Whole(SubmitArcade)
  BY <1>3, <1>5, <1>7, WholeParts, WholeInARow, Zenon
     DEF SubmitReaction, SubmitDrill, SubmitArcade
<1>9. Whole(ReactionBoard) /\ Whole(PublicProfile)
  <2>1. Whole(Stmt \o Rows)
    BY WholeParts, WholeInARow
  <2> QED BY <2>1, WholeParts, WholeInARow, Zenon DEF ReactionBoard, PublicProfile
<1>10. /\ Whole(Authenticate \o ReadSince) /\ Whole(Authenticate \o ReadRecent)
       /\ Whole(Authenticate \o ReadArcade) /\ Whole(Authenticate \o RecentArcade)
       /\ Whole(Authenticate \o Stmt)
  BY <1>1, <1>3, <1>4, <1>5, <1>6, WholeParts, WholeInARow, Zenon
<1>11. Whole(Stmt \o Authenticate \o Stmt)
  <2>1. Whole(Stmt \o Authenticate)
    BY <1>1, WholeParts, WholeInARow
  <2> QED BY <2>1, WholeParts, WholeInARow
<1>12. Whole(Startup)
  <2>1. Whole(Stmt \o Stmt \o Stmt \o Stmt)
    BY WholeParts, WholeInARow, Zenon
  <2>2. Whole(Stmt \o Stmt \o Stmt \o Stmt \o Rows \o Tx \o Tx)
    BY <2>1, WholeParts, WholeInARow, Zenon
  <2> QED BY <1>2, <2>2, WholeParts, WholeInARow, Zenon DEF Startup
<1>13. ASSUME NEW routine \in Routines
       PROVE  Whole(routine)
  <2> HIDE DEF PruneExpired, Authenticate, Stmt
  <2> QED
    BY <1>2, <1>3, <1>4, <1>5, <1>6, <1>7, <1>8, <1>9, <1>10, <1>11, WholeParts, Zenon
       DEF Routines
<1> QED BY <1>12, <1>13

\* What is left after the first step.
LEMMA PairedTail ==
    ASSUME NEW s, NEW holds, Paired(s, holds), s # <<>>
    PROVE  /\ Head(s) = s[1]
           /\ Paired(Tail(s), Head(s) \in Lending)
<1>1. /\ s \in Seq(StepKinds) /\ Len(s) \in Nat \ {0} /\ Head(s) = s[1]
      /\ Tail(s) \in Seq(StepKinds) /\ Len(Tail(s)) = Len(s) - 1
      /\ \A i \in 1 .. Len(s) - 1 : Tail(s)[i] = s[i + 1]
  BY EmptySeq DEF Paired
<1>2. ASSUME NEW i \in 1 .. Len(Tail(s))
      PROVE  Tail(s)[i] \in Using
               <=> IF i = 1 THEN Head(s) \in Lending ELSE Tail(s)[i - 1] \in Lending
  <2>1. i + 1 \in 1 .. Len(s) /\ i + 1 # 1 /\ (i + 1) - 1 = i /\ Tail(s)[i] = s[i + 1]
    BY <1>1
  <2>2. s[i + 1] \in Using <=> s[i] \in Lending
    BY <2>1 DEF Paired
  <2>3. i # 1 => Tail(s)[i - 1] = s[i]
    BY <1>1, <2>1
  <2> QED BY <1>1, <2>1, <2>2, <2>3
<1>3. IF Tail(s) = <<>> THEN Head(s) \notin Lending
      ELSE Tail(s)[Len(Tail(s))] \notin Lending
  <2>1. Tail(s) = <<>> <=> Len(s) = 1
    <3>1. Tail(s) = <<>> <=> Len(Tail(s)) = 0
      BY <1>1, EmptySeq
    <3> QED BY <1>1, <3>1
  <2>2. s[Len(s)] \notin Lending
    BY DEF Paired
  <2> QED BY <1>1, <2>1, <2>2
<1> QED BY <1>1, <1>2, <1>3 DEF Paired

\* The connection is lent to whoever is in the middle of a pair.
Lent ==
    /\ lent \in Goroutines \cup {NoOne}
    /\ left \in [Goroutines -> Seq(StepKinds)]
    /\ \A g \in Goroutines : Paired(left[g], lent = g)

\* At the start nobody holds the connection.
LEMMA LentInit == ConnectionInit => Lent
  BY GoroutinesAssumption DEF ConnectionInit, Lent, Paired

\* Every step leaves who holds it and what they have left in agreement.
LEMMA LentStep == Lent /\ [ConnectionNext]_connectionVars => Lent'
<1> SUFFICES ASSUME Lent, [ConnectionNext]_connectionVars PROVE Lent'
  OBVIOUS
<1>0. \A g \in Goroutines : /\ left[g] \in Seq(StepKinds) /\ Paired(left[g], lent = g)
                            /\ g # NoOne
  BY GoroutinesAssumption DEF Lent
<1>1. ASSUME NEW g \in Goroutines, NEW s, left' = [left EXCEPT ![g] = s],
             lent' \in Goroutines \cup {NoOne},
             NEW held \in BOOLEAN, Paired(s, held), lent' = g <=> held,
             \A h \in Goroutines \ {g} : lent' = h <=> lent = h
      PROVE  Lent'
  <2>1. s \in Seq(StepKinds) /\ left' \in [Goroutines -> Seq(StepKinds)]
    BY <1>1 DEF Lent, Paired
  <2>2. \A h \in Goroutines : Paired(left'[h], lent' = h)
    <3> TAKE h \in Goroutines
    <3>1. CASE h = g
      <4>1. left'[h] = s /\ (lent' = h) = held
        BY <1>1, <3>1 DEF Lent
      <4> QED BY <1>1, <4>1
    <3>2. CASE h # g
      <4>1. left'[h] = left[h] /\ (lent' = h) = (lent = h)
        BY <1>1, <3>2 DEF Lent
      <4> QED BY <1>0, <4>1
    <3> QED BY <3>1, <3>2
  <2> QED BY <1>1, <2>1, <2>2 DEF Lent
<1>2. Paired(<<>>, FALSE)
  BY DEF Paired
<1>3. \A g \in Goroutines : left[g] = <<>> => lent # g
  BY <1>0 DEF Paired
<1>4. \A g \in Goroutines : left[g] # <<>> =>
          /\ Next1(g) = left[g][1]
          /\ Next1(g) \in Using <=> lent = g
          /\ Paired(Tail(left[g]), Next1(g) \in Lending)
  <2> SUFFICES ASSUME NEW g \in Goroutines, left[g] # <<>>
               PROVE  /\ Next1(g) = left[g][1]
                      /\ Next1(g) \in Using <=> lent = g
                      /\ Paired(Tail(left[g]), Next1(g) \in Lending)
    OBVIOUS
  <2>1. Next1(g) = Head(left[g])
    BY DEF Next1
  <2>2. 1 \in 1 .. Len(left[g])
    BY <1>0, EmptySeq
  <2> QED BY <1>0, <2>1, <2>2, PairedTail DEF Paired
<1>5. ASSUME NEW g \in Goroutines, NEW routine, Whole(routine), left[g] = <<>>,
             left' = [left EXCEPT ![g] = routine], lent' = lent
      PROVE  Lent'
  <2>1. lent' = g <=> FALSE
    BY <1>3, <1>5
  <2> QED BY <1>1, <1>5, <2>1 DEF Lent, Whole
<1>6. ASSUME NEW g \in Goroutines, NEW routine \in Routines, Call(g, routine)
      PROVE  Lent'
  BY <1>5, <1>6, WholeRoutines DEF Call
<1>7. ASSUME NEW g \in Goroutines, Start(g)
      PROVE  Lent'
  BY <1>5, <1>7, WholeRoutines DEF Start
<1>8. ASSUME NEW g \in Goroutines, Listen(g)
      PROVE  Lent'
  <2>1. left[g] # <<>> /\ Next1(g) \notin Using
    BY <1>8 DEF Listen, Next1, Using
  <2>2. lent' = lent /\ (lent' = g <=> FALSE)
    BY <1>4, <1>8, <2>1 DEF Listen
  <2>3. left' = [left EXCEPT ![g] = <<>>] /\ lent' \in Goroutines \cup {NoOne}
    BY <1>8, <2>2 DEF Listen, Lent
  <2>4. \A h \in Goroutines \ {g} : lent' = h <=> lent = h
    BY <2>2
  <2>5. PICK held \in BOOLEAN : ~held
    OBVIOUS
  <2>6. Paired(<<>>, held) /\ (lent' = g <=> held)
    BY <1>2, <2>2, <2>5
  <2> QED BY <1>1, <2>3, <2>4, <2>6
<1>9. ASSUME NEW g \in Goroutines, RunStmt(g) \/ Borrow(g) \/ Use(g) \/ GiveBack(g)
      PROVE  Lent'
  <2>1. /\ left[g] # <<>> /\ left' = [left EXCEPT ![g] = Tail(left[g])]
        /\ lent \in {NoOne, g}
    BY <1>9 DEF RunStmt, Borrow, Use, GiveBack, Next1
  <2>2. lent' \in {NoOne, g} /\ (lent' = g <=> Next1(g) \in Lending)
    BY <1>0, <1>9 DEF RunStmt, Borrow, Use, GiveBack, Lending
  <2>3. \A h \in Goroutines \ {g} : lent' = h <=> lent = h
    BY <1>0, <2>1, <2>2
  <2>4. \A held \in BOOLEAN :
            Paired(Tail(left[g]), held) /\ (lent' = g <=> held) => Lent'
    BY <1>1, <2>1, <2>2, <2>3
  <2>5. CASE Next1(g) \in Lending
    <3>1. (Next1(g) \in Lending) = TRUE
      BY <2>5
    <3>2. Paired(Tail(left[g]), TRUE)
      BY <1>4, <2>1, <3>1
    <3> QED BY <2>2, <2>4, <2>5, <3>2
  <2>6. CASE Next1(g) \notin Lending
    <3>1. (Next1(g) \in Lending) = FALSE
      BY <2>6
    <3>2. Paired(Tail(left[g]), FALSE)
      BY <1>4, <2>1, <3>1
    <3> QED BY <2>2, <2>4, <2>6, <3>2
  <2> QED BY <2>5, <2>6
<1>10. ASSUME NEW g \in Goroutines, GiveUp(g)
       PROVE  Lent'
  <2>1. /\ left' = [left EXCEPT ![g] = <<>>]
        /\ lent' = IF lent = g THEN NoOne ELSE lent
    BY <1>10 DEF GiveUp
  <2>2. /\ lent' = g <=> FALSE
        /\ lent' \in Goroutines \cup {NoOne}
        /\ \A h \in Goroutines \ {g} : lent' = h <=> lent = h
    BY <1>0, <2>1 DEF Lent
  <2> QED BY <1>1, <1>2, <2>1, <2>2
<1>11. CASE UNCHANGED connectionVars
  BY <1>11 DEF connectionVars, Lent
<1> QED
  BY <1>6, <1>7, <1>8, <1>9, <1>10, <1>11 DEF ConnectionNext

\* Whoever holds the one connection of store.Open has its next step with it and
\* gives it back, and nobody asks for it while holding it: for any number of
\* requests at once, in every order of their statements, errors and hang-ups.
THEOREM NobodyWaitsForItselfHolds == ConnectionSpec => []NobodyWaitsForItself
<1>1. Lent => NobodyWaitsForItself
  <2> SUFFICES ASSUME Lent, NEW g \in Goroutines
               PROVE  lent = g <=> Next1(g) \in Using
    BY DEF NobodyWaitsForItself, Using
  <2>1. left[g] \in Seq(StepKinds) /\ Paired(left[g], lent = g)
    BY DEF Lent
  <2>2. CASE left[g] = <<>>
    BY <2>1, <2>2 DEF Paired, Next1, Using
  <2>3. CASE left[g] # <<>>
    <3>1. 1 \in 1 .. Len(left[g]) /\ Next1(g) = left[g][1]
      BY <2>1, <2>3, EmptySeq, PairedTail DEF Next1
    <3> QED BY <2>1, <3>1 DEF Paired
  <2> QED BY <2>2, <2>3
<1> QED BY <1>1, LentInit, LentStep, PTL DEF ConnectionSpec

\* What a goroutine has left is the rest of a routine.
LeftOver(s) ==
    \E routine \in Routines \cup {Startup} : \E n \in 0..Len(routine) :
        s = SubSeq(routine, n + 1, Len(routine))

\* All of a routine, none of it, and what comes after its next step.
LEMMA LeftOvers ==
    /\ \A routine \in Routines \cup {Startup} : LeftOver(routine) /\ LeftOver(<<>>)
    /\ \A s : LeftOver(s) /\ s # <<>> => LeftOver(Tail(s))
<1>1. \A routine \in Routines \cup {Startup} : routine \in Seq(StepKinds) /\ Len(routine) \in Nat
  BY WholeRoutines DEF Whole, Paired
<1>2. ASSUME NEW routine \in Routines \cup {Startup}
      PROVE  LeftOver(routine) /\ LeftOver(<<>>)
  <2>1. 0 \in 0..Len(routine) /\ Len(routine) \in 0..Len(routine)
    BY <1>1
  <2>2. SubSeq(routine, 0 + 1, Len(routine)) = routine
    BY <1>1, SubSeqFull
  <2>3. SubSeq(routine, Len(routine) + 1, Len(routine)) = <<>>
    <3>1. Len(routine) \in Int /\ Len(routine) + 1 \in Int /\ Len(routine) < Len(routine) + 1
      BY <1>1
    <3> QED BY <3>1, SubSeqEmpty
  <2> QED BY <2>1, <2>2, <2>3 DEF LeftOver
<1>3. ASSUME NEW s, LeftOver(s), s # <<>>
      PROVE  LeftOver(Tail(s))
  <2>a. PICK routine \in Routines \cup {Startup} :
            \E n \in 0..Len(routine) : s = SubSeq(routine, n + 1, Len(routine))
    BY <1>3 DEF LeftOver
  <2>1. PICK n \in 0..Len(routine) : s = SubSeq(routine, n + 1, Len(routine))
    BY <2>a
  <2>2. routine \in Seq(StepKinds) /\ Len(routine) \in Nat /\ n \in Nat /\ n <= Len(routine)
    BY <1>1, <2>1
  <2>3. n < Len(routine)
    <3>1. SUFFICES ASSUME n = Len(routine) PROVE FALSE
      BY <2>2
    <3>2. Len(routine) \in Int /\ n + 1 \in Int /\ Len(routine) < n + 1
      BY <2>2, <3>1
    <3> QED BY <1>3, <2>1, <3>2, SubSeqEmpty
  <2>4. n + 1 \in 1..Len(routine) /\ Len(routine) \in (n + 1)..Len(routine)
    BY <2>2, <2>3
  <2>5. Tail(s) = SubSeq(routine, (n + 1) + 1, Len(routine))
    BY <2>1, <2>2, <2>4, HeadTailOfSubSeq
  <2>6. n + 1 \in 0..Len(routine)
    BY <2>4
  <2> QED BY <2>5, <2>6 DEF LeftOver
<1> QED BY <1>2, <1>3

\* Every goroutine is somewhere in a routine, and the connection is with one of
\* them or in the pool.
THEOREM ConnectionTypeCorrect == ConnectionSpec => []ConnectionTypeOK
<1>0. PICK routine : routine \in Routines
  BY DEF Routines
<1>1. LeftOver(<<>>)
  BY <1>0, LeftOvers
<1>2. ConnectionInit => ConnectionTypeOK
  BY <1>1 DEF ConnectionInit, ConnectionTypeOK, LeftOver
<1>3. Lent /\ ConnectionTypeOK /\ [ConnectionNext]_connectionVars => ConnectionTypeOK'
  <2> SUFFICES ASSUME Lent, ConnectionTypeOK, [ConnectionNext]_connectionVars
               PROVE  ConnectionTypeOK'
    OBVIOUS
  <2>1. /\ lent' \in Goroutines \cup {NoOne}
        /\ \A g \in Goroutines : LeftOver(left[g])
    BY LentStep DEF Lent, ConnectionTypeOK, LeftOver
  <2>2. ASSUME NEW g \in Goroutines, NEW s, LeftOver(s), left' = [left EXCEPT ![g] = s],
               open' \in BOOLEAN
        PROVE  ConnectionTypeOK'
    <3>1. \A h \in Goroutines : left'[h] = IF h = g THEN s ELSE left[h]
      BY <2>2 DEF Lent
    <3>2. \A h \in Goroutines : LeftOver(left'[h])
      BY <2>1, <2>2, <3>1
    <3> QED BY <2>1, <2>2, <3>2 DEF ConnectionTypeOK, LeftOver
  <2>3. open \in BOOLEAN
    BY DEF ConnectionTypeOK
  <2>4. ASSUME NEW g \in Goroutines, NEW r \in Routines, Call(g, r)
        PROVE  ConnectionTypeOK'
    BY <2>2, <2>3, <2>4, LeftOvers DEF Call
  <2>5. ASSUME NEW g \in Goroutines, Start(g) PROVE ConnectionTypeOK'
    BY <2>2, <2>3, <2>5, LeftOvers DEF Start
  <2>6. ASSUME NEW g \in Goroutines, Listen(g) \/ GiveUp(g) PROVE ConnectionTypeOK'
    <3>1. left' = [left EXCEPT ![g] = <<>>] /\ open' \in BOOLEAN
      BY <2>3, <2>6 DEF Listen, GiveUp
    <3> QED BY <1>1, <2>2, <3>1
  <2>7. ASSUME NEW g \in Goroutines, RunStmt(g) \/ Borrow(g) \/ Use(g) \/ GiveBack(g)
        PROVE  ConnectionTypeOK'
    <3>1. left[g] # <<>> /\ left' = [left EXCEPT ![g] = Tail(left[g])] /\ open' \in BOOLEAN
      BY <2>3, <2>7 DEF RunStmt, Borrow, Use, GiveBack, Next1
    <3>2. LeftOver(Tail(left[g]))
      BY <2>1, <3>1, LeftOvers
    <3> QED BY <2>2, <3>1, <3>2
  <2>8. CASE UNCHANGED connectionVars
    BY <2>8 DEF connectionVars, ConnectionTypeOK
  <2> QED BY <2>4, <2>5, <2>6, <2>7, <2>8 DEF ConnectionNext
<1> QED BY <1>2, <1>3, LentInit, LentStep, PTL DEF ConnectionSpec

============================================================================
