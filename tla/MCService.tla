----------------------------- MODULE MCService -----------------------------
(***************************************************************************)
(* The parts of the process that share no state with one another, on small *)
(* sets and under one configuration: the accounts, the limiter, the admin  *)
(* keys, the migrations, the connection, the board page, the scoring rules *)
(* and the names.  A behaviour is one part's, chosen at the start; the     *)
(* other parts stay as they began.                                         *)
(***************************************************************************)
EXTENDS Accounts, RateLimiter, AccessKeys, Migrations, Connection, BoardPage,
        Scoring, Names

VARIABLE part     \* the part that moves

limits   == limiterVars
keys     == keysVars
schema   == migrationVars
pool     == connectionVars
page     == pageVars
rules    == scoringVars

ServiceInit ==
    /\ part \in {"accounts", "limits", "keys", "schema", "pool", "page", "rules", "names"}
    /\ Init /\ LimiterInit /\ KeysInit /\ MigrationsInit
    /\ ConnectionInit /\ PageInit /\ ScoringInit /\ NamesInit
    \* Only the part that moves may begin in more than one way.
    /\ part # "keys" => \A k \in Kids : published[k].from = 0
    /\ part # "schema" => shipped = Versions

ServiceNext ==
    /\ UNCHANGED part
    /\ \/ part = "accounts" /\ Next       /\ UNCHANGED <<limits, keys, schema, pool, page, rules, typed>>
       \/ part = "limits"  /\ LimiterNext /\ UNCHANGED <<vars, keys, schema, pool, page, rules, typed>>
       \/ part = "keys"    /\ KeysNext    /\ UNCHANGED <<vars, limits, schema, pool, page, rules, typed>>
       \/ part = "schema"  /\ MigrationsNext
                           /\ UNCHANGED <<vars, limits, keys, pool, page, rules, typed>>
       \/ part = "pool"    /\ ConnectionNext
                           /\ UNCHANGED <<vars, limits, keys, schema, page, rules, typed>>
       \/ part = "page"    /\ PageNext    /\ UNCHANGED <<vars, limits, keys, schema, pool, rules, typed>>
       \/ part = "rules"   /\ ScoringNext /\ UNCHANGED <<vars, limits, keys, schema, pool, page, typed>>
       \/ part = "names"   /\ NamesNext   /\ UNCHANGED <<vars, limits, keys, schema, pool, page, rules>>

ServiceSpec ==
    ServiceInit
    /\ [][ServiceNext]_<<part, vars, limits, keys, schema, pool, page, rules, typed>>

-----------------------------------------------------------------------------
(* Values.                                                                   *)

\* The sets of the parts share their model values, which are interchangeable
\* in each part.
Symmetry == Permutations(Players) \cup Permutations(Requests)

\* Tokens that expire within the clock, with the skew, or after it.
TwoTokens == {<<0, 0>>, <<0, 1>>}

\* Releases that have some of the four migrations, the third of which brings
\* the references, also one with a late number and without an earlier.
SomeReleases == {{1}, {1, 2}, {1, 3}, {1, 2, 4}, {1, 2, 3, 4}}

\* Times of a trial on both sides of every threshold, in thirds of a
\* millisecond; misfires from one too few; and an Arcade body's parts on both
\* sides of every bound.
EdgeSamples == {299, 499, 500, 549, 650, 651, 740, 801, 1001, 9001}
EdgeMisfires == -1..3
EdgeLadders == 11..15
EdgeDefeats == {0, 3, 12, 13, 14, 15}
EdgeElapsed == {0, 1, 299999, 300000, 86400000, 86400001}

\* Completed and abandoned runs whose parts differ one by one.
SmallRuns ==
    {r \in [total : {2, 3}, enemies : 0..3, completed : BOOLEAN, elapsed : 1..2,
            score : 1..2] :
        r.enemies <= r.total /\ (r.completed <=> r.enemies = r.total)}

\* Terms of one word with a digit that stays, of two words, and of a part of one.
SomeWhole     == {<<"O", "N", " ", "N">>}
SomeWords     == {<<"O", "O">>, <<"1", "N", "O">>}
SomeParts     == {<<"N", "O", "O">>}
SomeReserved  == {<<"N", "O", " ", "N">>, <<"N", "O", "N">>}
SomeAnonymous == <<"N", "O", " ", "N">>

-----------------------------------------------------------------------------
\* Every variable of every part keeps its shape.
ServiceTypeOK ==
    /\ TypeOK /\ LimiterTypeOK /\ KeysTypeOK /\ MigrationsTypeOK
    /\ ConnectionTypeOK /\ PageTypeOK /\ ScoringTypeOK /\ NamesTypeOK
=============================================================================
