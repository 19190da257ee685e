------------------------------ MODULE Scoring ------------------------------
(***************************************************************************)
(* What a submission is worth, and what is accepted as one: the Reaction   *)
(* trial's score, grade, tier and checks, and the Arcade run's points,     *)
(* checks and order.  The rules are written more than once, in Go and in   *)
(* the migrations' CHECK constraints, in a five-part upsert condition and  *)
(* a seven-part ORDER BY; the copies are compared here.                    *)
(*                                                                         *)
(* Times of a trial are in thirds of a millisecond: a frame is 50 of them, *)
(* so every threshold of the code is exact.                                *)
(***************************************************************************)
EXTENDS Integers, Sequences, FiniteSetsExt, TLC

CONSTANTS
    Samples,       \* attempt times of a trial, in thirds of a millisecond
    Misfires,      \* misfires a trial may claim
    MaxHits,       \* bound: attempt times of a trial
    Ladders,       \* totals of opponents a claim may name
    Defeats,       \* opponents defeated a claim may name
    Elapsed,       \* elapsed milliseconds of a claim
    Runs,          \* Arcade runs a player finishes, for the order
    MaxRuns        \* bound: runs finished

ASSUME SamplesAssumption == Samples \cup Misfires \subseteq Int /\ MaxHits \in Nat
ASSUME ClaimsAssumption  == Ladders \cup Defeats \cup Elapsed \subseteq Int
ASSUME RunsAssumption ==
    Runs \subseteq [total : Int, enemies : Int, completed : BOOLEAN, elapsed : Int,
                    score : Int]
ASSUME MaxRunsAssumption == MaxRuns \in Nat

VARIABLES
    trial,     \* the trial submitted: its hits and misfires, or NoCase
    claim,     \* the drill's body submitted, or NoCase
    best,      \* the arcade_bests row of one player and drill, or NoCase
    finished   \* the runs accepted for it, in order

scoringVars == <<trial, claim, best, finished>>

-----------------------------------------------------------------------------
(* The Reaction trial: score.go and Validate.                                *)

NoCase        == [none |-> TRUE]
TrialAttempts == 3
Frame         == 50
Ms(x)         == 3 * x

Between(x, low, high) == low <= x /\ x <= high

Fastest(hits) == Min({hits[i] : i \in DOMAIN hits})
Slowest(hits) == Max({hits[i] : i \in DOMAIN hits})

\* PBFloorFrames and PBCeilFrames.
IsValidHighScore(t) == 10 * Frame <= t /\ t <= 200 * Frame

\* accuracy is Len(hits) / attempts, or 0 without attempts; here it is compared
\* without dividing.
Accurate(hits, attempts)     == attempts > 0 /\ 1000 * Len(hits) >= 999 * attempts
AccuracyFits(hits, attempts) == attempts > 0 => Between(Len(hits), 0, attempts)

\* speedScore weighed by accuracy, truncated.
Base(hits, attempts) ==
    LET tripled == Max({0, 3 * 1000 - 4 * (Fastest(hits) - Ms(100))})
    IN  IF attempts <= 0 THEN 0 ELSE (tripled * Len(hits)) \div (3 * attempts)

ConsistBonus(hits) ==
    LET spread == Slowest(hits) - Fastest(hits)
    IN  IF Len(hits) < 2 THEN 0
        ELSE IF spread < Ms(30) THEN 100 ELSE IF spread < Ms(60) THEN 50 ELSE 0

Subs(hits) == Cardinality({i \in DOMAIN hits : hits[i] < 13 * Frame})

Flawless(hits, misfires) ==
    /\ Accurate(hits, Len(hits) + misfires)
    /\ Len(hits) >= TrialAttempts /\ Subs(hits) >= TrialAttempts

ScoreTrial(hits, misfires) ==
    LET attempts == Len(hits) + misfires
    IN  Base(hits, attempts)
        + (IF Accurate(hits, attempts) /\ attempts >= TrialAttempts THEN 150 ELSE 0)
        + ConsistBonus(hits) + 250 * Subs(hits)
        + (IF Flawless(hits, misfires) THEN 500 ELSE 0)

\* gradeLadder, lowest first, and the score each grade but the lowest needs.
GradeLadder == <<"F", "D", "C", "B", "B+", "A", "A+", "S", "S+", "SS">>
GradeFrom   == <<0, 120, 250, 380, 500, 620, 720, 820, 920, 2200>>

GradeFor(score) == Max({1} \cup {g \in 2..10 : score >= GradeFrom[g]})

\* The worst attempt caps the grade: B, A or A+.
Cap(worst) == CASE worst > 20 * Frame -> 4
                [] worst \in 16 * Frame + 1 .. 20 * Frame -> 6
                [] worst \in 13 * Frame + 1 .. 16 * Frame -> 7
                [] OTHER -> 10

CapGrade(g, cap) == Min({g, cap})
Grade_CappedByBest(hits, misfires) ==
    CapGrade(GradeFor(ScoreTrial(hits, misfires)), Cap(Fastest(hits)))
Grade(hits, misfires) == CapGrade(GradeFor(ScoreTrial(hits, misfires)), Cap(Slowest(hits)))

\* TierName: 0 is UNRANKED, then ROOKIE up to DIAMOND, 6, and three of MASTER.
TierBelow == <<1250, 1025, 900, 800, 725, 650, 600, 575>>
Tier(ms) == IF ~IsValidHighScore(ms) THEN 0
            ELSE 1 + Cardinality({i \in DOMAIN TierBelow : ms < TierBelow[i]})

\* Validate, for what a trial can get wrong.
Validate_AnyMisfires(t) ==
    CASE Len(t.hits) = 0 \/ Len(t.hits) + t.misfires # TrialAttempts -> "attempts"
      [] \E i \in DOMAIN t.hits : t.hits[i] < Ms(100) \/ t.hits[i] > Ms(3000) -> "implausible"
      [] ~IsValidHighScore(Fastest(t.hits)) -> "implausible"
      [] OTHER -> "accepted"
Validate(t) ==
    CASE \/ t.misfires < 0
         \/ Len(t.hits) = 0
         \/ Len(t.hits) + t.misfires # TrialAttempts -> "attempts"
      [] \E i \in DOMAIN t.hits : t.hits[i] < Ms(100) \/ t.hits[i] > Ms(3000) -> "implausible"
      [] ~IsValidHighScore(Fastest(t.hits)) -> "implausible"
      [] OTHER -> "accepted"

\* CHECKs of migration 004: best_ms between 166.66 and 3333.34, accuracy, score
\* and misfires.
TrialStorable(t) ==
    /\ 16666 * 3 <= 100 * Fastest(t.hits) /\ 100 * Fastest(t.hits) <= 333334 * 3
    /\ AccuracyFits(t.hits, Len(t.hits) + t.misfires)
    /\ Between(ScoreTrial(t.hits, t.misfires), 0, 2500)
    /\ t.misfires >= 0

-----------------------------------------------------------------------------
(* The drills' bodies: drills.go and arcade.go.                              *)

DrillKinds == {"original", "curriculum", "mental-stack"}

\* bonuses and points.
Consistency(a) == 5 * a.perfect + 10 * (a.enemies \div 3)
Speed(a)       == IF a.completed THEN Max({0, 300 - a.elapsed \div 1000}) ELSE 0
Points(a)      == a.hits + Consistency(a) + Speed(a)

\* The roster of the original drills, and of the new curricula (parry, ...-ii).
Roster(drill) == IF drill = "curriculum" THEN 13..14 ELSE 12..13

\* A claimed bonus may be left out, as zero.
Claimed(bonus, due) == bonus = 0 \/ bonus = due

\* validateArcade.
ValidateArcade(a) ==
    /\ a.total \in Roster(a.drill)
    /\ a.enemies \in 0..a.total
    /\ a.completed <=> a.enemies = a.total
    /\ a.elapsed > 0 /\ a.elapsed <= 86400000
    /\ a.perfect \in 0..a.enemies
    /\ a.hits >= a.enemies /\ a.hits <= 1000000
    /\ Claimed(a.bonus, Consistency(a)) /\ Claimed(a.timeBonus, Speed(a))
    /\ a.score = Points(a) /\ a.score <= 1000000

\* validate, for what a body of either mode can get wrong.
ValidateDrill(a) ==
    IF a.mode = "arcade"
    THEN a.drill # "mental-stack" /\ Between(a.misses, 0, 1000000) /\ ValidateArcade(a)
    ELSE Between(a.score, 0, 1000000) /\ a.misses = 3

\* CHECKs of the drills' tables since migration 013.
EndlessStorable(a) == Between(a.score, 0, 1000000)
ArcadeStorable(a) ==
    /\ a.drill # "mental-stack"
    /\ \/ a.drill = "curriculum" /\ a.total \in 13..14
       \/ a.drill # "curriculum" /\ a.total \in 12..13
    /\ a.enemies \in 0..a.total
    /\ a.completed <=> a.enemies = a.total
    /\ Between(a.elapsed, 1, 86400000)
    /\ a.perfect \in 0..a.enemies
    /\ a.enemies <= a.hits /\ a.hits <= 1000000
    /\ Between(Points(a), 0, 1000000)

Bit(b) == IF b THEN 1 ELSE 0

\* arcadeBetter's tuple; SQLite compares row values part by part.
BetterKey_TimeLast(r) ==
    <<Bit(r.completed), IF r.completed THEN 0 ELSE r.enemies, r.score, -r.elapsed>>
BetterKey(r) ==
    <<Bit(r.completed), IF r.completed THEN 0 ELSE r.enemies,
      IF r.completed THEN -r.elapsed ELSE 0, r.score, -r.elapsed>>

\* arcadeOrder's list, every part turned so that more is first; the date and
\* the id of a run are its place among those finished.
OrderKey(r, at) ==
    <<Bit(r.completed), IF r.completed THEN 0 ELSE r.enemies,
      -(IF r.completed THEN r.elapsed ELSE 0), r.score, -r.elapsed, -at>>

Exceeds(s, t) ==
    \E i \in DOMAIN s : s[i] > t[i] /\ \A j \in 1..(i - 1) : s[j] = t[j]

-----------------------------------------------------------------------------
(* Actions.                                                                  *)

ScoringInit == trial = NoCase /\ claim = NoCase /\ best = NoCase /\ finished = <<>>

\* A trial is submitted; its count of misfires is any integer a body can carry.
ClaimTrial ==
    /\ trial = NoCase /\ claim = NoCase /\ finished = <<>>
    /\ \E n \in 0..MaxHits, misfires \in Misfires :
           \E hits \in [1..n -> Samples] :
               trial' = [hits |-> hits, misfires |-> misfires]
    /\ UNCHANGED <<claim, best, finished>>

\* A drill's body is submitted, every part on either side of its bound.
ClaimEndless ==
    /\ trial = NoCase /\ claim = NoCase /\ finished = <<>>
    /\ claim' \in [mode : {"endless"}, drill : DrillKinds,
                   score : {-1, 0, 1000000, 1000001}, misses : 2..4]
    /\ UNCHANGED <<trial, best, finished>>

ClaimArcade ==
    /\ trial = NoCase /\ claim = NoCase /\ finished = <<>>
    /\ \E enemies \in Defeats :
       \E a \in [mode : {"arcade"}, drill : DrillKinds, misses : {0}, total : Ladders,
                 enemies : {enemies}, completed : BOOLEAN, elapsed : Elapsed,
                 perfect : {-1, 0, enemies, enemies + 1},
                 hits : {enemies - 1, enemies, 1000000, 1000001},
                 bonus : {0}, timeBonus : {0}, score : {0}] :
       \E bonuses \in {<<0, 0>>, <<1, 0>>, <<0, 1>>, <<Consistency(a), Speed(a)>>},
          more \in {0, 1} :
           claim' = [a EXCEPT !.bonus = bonuses[1], !.timeBonus = bonuses[2],
                              !.score = Points(a) + more]
    /\ UNCHANGED <<trial, best, finished>>

\* An accepted run, and the conditional upsert of the player's best.
FinishRun(r) ==
    /\ trial = NoCase /\ claim = NoCase
    /\ Len(finished) < MaxRuns
    /\ finished' = Append(finished, r)
    /\ best' = IF best = NoCase \/ Exceeds(BetterKey(r), BetterKey(best)) THEN r ELSE best
    /\ UNCHANGED <<trial, claim>>

ScoringNext ==
    \/ ClaimTrial \/ ClaimEndless \/ ClaimArcade
    \/ \E r \in Runs : FinishRun(r)

ScoringSpec == ScoringInit /\ [][ScoringNext]_scoringVars

-----------------------------------------------------------------------------
(* Properties.                                                               *)

\* Every variable keeps its shape.
ScoringTypeOK ==
    /\ trial # NoCase => trial.hits \in Seq(Samples) /\ trial.misfires \in Misfires
    /\ claim # NoCase => claim.mode \in {"endless", "arcade"} /\ claim.drill \in DrillKinds
    /\ finished \in Seq(Runs) /\ Len(finished) <= MaxRuns
    /\ best \in Runs \cup {NoCase}

\* Whatever the validators accept the tables take: no body passes with 422
\* still to be said and then fails its INSERT with a 500.  Four times and a
\* misfire of -1 add up to three attempts, and the tables refuse such a row
\* for its accuracy, its misfires and, when fast, its score.
AcceptedIsStorable ==
    /\ trial # NoCase /\ Validate(trial) = "accepted" => TrialStorable(trial)
    /\ claim # NoCase /\ ValidateDrill(claim) =>
           IF claim.mode = "arcade" THEN ArcadeStorable(claim) ELSE EndlessStorable(claim)

\* The grades say what they promise: a top grade only when every attempt was
\* within 13 frames, which puts its time in DIAMOND or above, and SS only for a
\* flawless trial, although no rule but the sums says so; and no accepted time is
\* UNRANKED, although the band and the ladder are checked apart.
GradesEarned ==
    trial # NoCase /\ Validate(trial) = "accepted" =>
        LET g == Grade(trial.hits, trial.misfires)
        IN  /\ g >= 8 => /\ Slowest(trial.hits) <= 13 * Frame
                         /\ Tier(Fastest(trial.hits)) >= 6
            /\ g = 10 => Flawless(trial.hits, trial.misfires)
            /\ Tier(Fastest(trial.hits)) > 0

\* "One order owns both PB selection and public placement": the row the upserts
\* leave is the one the boards' order puts first among all finished.
BestLeads ==
    finished # <<>> =>
        \E i \in DOMAIN finished :
            /\ best = finished[i]
            /\ \A j \in DOMAIN finished \ {i} :
                   Exceeds(OrderKey(finished[i], i), OrderKey(finished[j], j))
=============================================================================
