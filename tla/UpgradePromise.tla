--------------------------- MODULE UpgradePromise ---------------------------
(***************************************************************************)
(* What the migrations promise of a database: an upgrade happens at one    *)
(* instant and once, and the one that introduces public references leaves  *)
(* no player without its own.  Nothing is said of processes, releases,     *)
(* transactions or records; Migrations implements this.                    *)
(***************************************************************************)
EXTENDS Naturals

CONSTANTS
    Members,       \* players' ids
    Versions,      \* versions of the migrations
    RefVersion,    \* the one that introduces the references
    Refs, NoRef    \* the references; a player without one

VARIABLES
    effects,       \* how often each upgrade took effect
    names          \* the reference of each player

promiseVars == <<effects, names>>

-----------------------------------------------------------------------------
\* Nobody has two players' reference; and whom names leaves without one.
Distinct(ns) == \A m, n \in DOMAIN ns : ns[m] = ns[n] /\ m # n => ns[m] = NoRef
Nameless(ns) == {m \in DOMAIN ns : ns[m] = NoRef}

PromiseInit == effects = [v \in Versions |-> 0] /\ names = [m \in {} |-> NoRef]

\* An upgrade takes effect; references already given are kept.
Upgrade(v) ==
    /\ effects[v] = 0
    /\ effects' = [effects EXCEPT ![v] = 1]
    /\ DOMAIN names' = DOMAIN names
    /\ \A m \in DOMAIN names : m \notin Nameless(names) \/ v # RefVersion
                                   => names'[m] = names[m]
    /\ v = RefVersion => Nameless(names') = {} /\ Distinct(names')

\* A player comes, named if and only if references exist; a player goes.
Enter(m, f) ==
    /\ m \notin DOMAIN names
    /\ (f = NoRef) <=> (effects[RefVersion] = 0)
    /\ names' = [n \in DOMAIN names \cup {m} |-> IF n = m THEN f ELSE names[n]]
    /\ Distinct(names')
    /\ UNCHANGED effects

Leave(m) ==
    /\ m \in DOMAIN names
    /\ names' = [n \in DOMAIN names \ {m} |-> names[n]]
    /\ UNCHANGED effects

PromiseNext ==
    \/ \E v \in Versions : Upgrade(v)
    \/ \E m \in Members :
          Leave(m) \/ \E f \in Refs \cup {NoRef} : Enter(m, f)

Promise == PromiseInit /\ [][PromiseNext]_promiseVars
=============================================================================
