-------------------------------- MODULE Reports --------------------------------
(***************************************************************************)
(* Player reports: moderation.Store.Accept, the cascades of an erasure and *)
(* the closing of a case.  Accept is one SQLite transaction, so it is one  *)
(* action; the reporter's bearer was checked before it, outside it.        *)
(*                                                                         *)
(* Nothing is kept in memory, so a restart is a stuttering step.  A        *)
(* definition with a suffix after an underscore is the one below it with a *)
(* fault seeded in; no action uses it.                                     *)
(***************************************************************************)
EXTENDS Integers, FiniteSets

CONSTANTS
    Players,        \* player ids; ids are minted at random, never reused
    Reasons,        \* reasons a report may give
    ReportsPerDay,  \* reports a player may create in one window (5)
    ReportWindow,   \* the rolling window of the quota (24 h)
    DedupWindow,    \* how long a pending report absorbs its repeats (24 h)
    MaxClock,       \* bound: last instant of the clock
    MaxReports      \* bound: reports ever created

ASSUME QuotaAssumption == /\ ReportsPerDay \in Nat \ {0}
                          /\ ReportWindow \in Nat \ {0}
                          /\ DedupWindow \in Nat \ {0}
ASSUME BoundsAssumption == MaxClock \in Nat /\ MaxReports \in Nat

VARIABLES
    clock,    \* seconds, in the unit of the windows
    live,     \* players whose row exists
    reports,  \* reports table
    minted,   \* report references minted so far
    heard     \* the last report or quota answer each reporter's app got

vars == <<clock, live, reports, minted, heard>>

States == {"pending", "closed"}    \* "dismissed" and "upheld" are both closed
Row == [id : Nat, reporter : Players, target : Players, reason : Reasons,
        state : States, at : Nat]

\* What an app heard: the reference of its report on a target with a 201 or
\* 202, or the instant the Retry-After of a 429 names.
Nothing     == [code |-> 0]
Success     == [code : {201, 202}, id : Nat, target : Players]
RateLimited == [code : {429}, until : Int]

-----------------------------------------------------------------------------
(* The two look-ups of Accept.                                               *)

\* Pending reports of the same player, target and reason, young enough.
Repeats_AnyTarget(p, t, reason) ==
    {r \in reports : /\ r.reporter = p /\ r.reason = reason
                     /\ r.state = "pending"
                     /\ r.at > clock - DedupWindow}
Repeats_Older(p, t, reason) ==
    {r \in reports : /\ r.reporter = p /\ r.target = t /\ r.reason = reason
                     /\ r.state = "pending"
                     /\ r.at > clock - DedupWindow + 1}
Repeats(p, t, reason) ==
    {r \in reports : /\ r.reporter = p /\ r.target = t /\ r.reason = reason
                     /\ r.state = "pending"
                     /\ r.at > clock - DedupWindow}

\* The player's reports the rolling quota counts, whatever their state.
Counted_Pending(p) ==
    {r \in reports : r.reporter = p /\ r.at > clock - ReportWindow
                                    /\ r.state = "pending"}
Counted(p) == {r \in reports : r.reporter = p /\ r.at > clock - ReportWindow}

Limited(p) == Cardinality(Counted(p)) >= ReportsPerDay

\* now + RetryAfter: a second after the oldest counted report leaves the window.
RetryAt_AnyReport(p) ==
    LET mine == {r \in reports : r.reporter = p}
    IN  (CHOOSE r \in mine : \A s \in mine : r.at <= s.at).at + ReportWindow + 1
RetryAt(p) ==
    (CHOOSE r \in Counted(p) : \A s \in Counted(p) : r.at <= s.at).at
        + ReportWindow + 1

-----------------------------------------------------------------------------
Init ==
    /\ clock = 0
    /\ live = Players
    /\ reports = {}
    /\ minted = 0
    /\ heard = [p \in Players |-> Nothing]

\* The target is looked up inside the transaction.  A target that is gone
\* (404) or oneself (422) writes nothing.
Reportable(p, t) == t \in live /\ t # p

\* The foreign key of the insert: the reporter may be gone since its bearer was
\* checked, and then the insert fails and is rolled back (500).
Insertable_NoForeignKey(p) == TRUE
Insertable(p)              == p \in live

\* Store.Accept has three outcomes an app may act on later: the pending report
\* it repeats (202), the quota (429) or a new report (201).  Refusals and
\* failures change nothing and are stuttering steps.
Repeat(p, t, reason) ==
    /\ Reportable(p, t)
    /\ \E r \in Repeats(p, t, reason) :
        /\ \A s \in Repeats(p, t, reason) : s.at <= r.at
        /\ heard' = [heard EXCEPT ![p] =
                        [code |-> 202, id |-> r.id, target |-> t]]
    /\ UNCHANGED <<clock, live, reports, minted>>

Limit(p, t, reason) ==
    /\ Reportable(p, t)
    /\ Repeats(p, t, reason) = {}
    /\ Limited(p)
    /\ heard' = [heard EXCEPT ![p] = [code |-> 429, until |-> RetryAt(p)]]
    /\ UNCHANGED <<clock, live, reports, minted>>

Create(p, t, reason) ==
    /\ Reportable(p, t)
    /\ Repeats(p, t, reason) = {}
    /\ ~Limited(p)
    /\ Insertable(p)
    /\ minted < MaxReports
    /\ minted' = minted + 1
    /\ reports' = reports \cup
           {[id |-> minted + 1, reporter |-> p, target |-> t,
             reason |-> reason, state |-> "pending", at |-> clock]}
    /\ heard' = [heard EXCEPT ![p] =
                    [code |-> 201, id |-> minted + 1, target |-> t]]
    /\ UNCHANGED <<clock, live>>

Accept(p, t, reason) ==
    Repeat(p, t, reason) \/ Limit(p, t, reason) \/ Create(p, t, reason)

\* DELETE FROM players: both sides of a report cascade.
Cascade(p) == {r \in reports : r.reporter # p /\ r.target # p}

Erase(p) ==
    /\ p \in live
    /\ live' = live \ {p}
    /\ reports' = Cascade(p)
    /\ UNCHANGED <<clock, minted, heard>>

\* A reviewer closes a case, by hand: no code of the service does.
Close(r) ==
    /\ r.state = "pending"
    /\ reports' = (reports \ {r}) \cup {[r EXCEPT !.state = "closed"]}
    /\ UNCHANGED <<clock, live, minted, heard>>

Tick ==
    /\ clock < MaxClock
    /\ clock' = clock + 1
    /\ UNCHANGED <<live, reports, minted, heard>>

Next ==
    \/ \E p, t \in Players, reason \in Reasons : Accept(p, t, reason)
    \/ \E p \in Players : Erase(p)
    \/ \E r \in reports : Close(r)
    \/ Tick

Spec == Init /\ [][Next]_vars

-----------------------------------------------------------------------------
(* Properties.                                                               *)

\* Every variable keeps its shape; a reference names one report, made by now,
\* and nobody reports themselves.
TypeOK ==
    /\ clock \in Nat
    /\ live \subseteq Players
    /\ reports \subseteq Row
    /\ minted \in Nat
    /\ heard \in [Players -> {Nothing} \cup Success \cup RateLimited]
    /\ \A r \in reports : /\ r.id \in 1..minted
                          /\ r.at <= clock
                          /\ r.reporter # r.target
    /\ \A r, s \in reports : r.id = s.id => r = s

\* Player p's reports in the window that ends at an instant, and after one.
Within(p, end) == {r \in reports : /\ r.reporter = p
                                   /\ end - ReportWindow < r.at
                                   /\ r.at <= end}
After(p, t)    == {r \in reports : r.reporter = p /\ r.at > t}

\* "Five distinct reports in a rolling 24 hours": no window, wherever it ends,
\* holds more than ReportsPerDay stored reports of one player, open or closed.
RollingQuota ==
    \A p \in Players : \A end \in 0..clock :
        Cardinality(Within(p, end)) <= ReportsPerDay

SameCase(r, s) == /\ r.reporter = s.reporter
                  /\ r.target = s.target
                  /\ r.reason = s.reason

\* A case is reported anew only when the older report of it is closed or a full
\* window old: a reviewer never sees one incident twice among the open ones.
NoDoubleCase ==
    \A r, s \in reports :
        SameCase(r, s) /\ r.id < s.id /\ s.at - r.at < DedupWindow
            => r.state = "closed"

\* "The client must claim success only on 201 or 202": the reference an app was
\* given names its own report, which is there until either player is erased.
SuccessIsStored ==
    \A p \in Players :
        heard[p].code \in {201, 202} =>
            \/ \E r \in reports : /\ r.id = heard[p].id
                                /\ r.reporter = p
                                /\ r.target = heard[p].target
            \/ p \notin live
            \/ heard[p].target \notin live

\* A reporter told to wait, who waits that long, is not told to wait again,
\* whatever was closed, erased or refused meanwhile.
RetryAfterHolds ==
    \A p \in Players :
        heard[p].code = 429 /\ clock >= heard[p].until => ~Limited(p)

\* "Erasing either player removes every report involving them", also when the
\* report was authenticated before the erasure and arrives after it.
NoOrphans ==
    \A r \in reports : r.reporter \in live /\ r.target \in live

-----------------------------------------------------------------------------
(* The inductive strengthening behind RetryAfterHolds.                       *)

\* A Retry-After is a window and a second after some report of the reporter, and
\* fewer than ReportsPerDay of its reports are younger than that one.
QuotaReopens ==
    \A p \in Players :
        heard[p].code = 429 =>
            Cardinality(After(p, heard[p].until - ReportWindow - 1))
                < ReportsPerDay
=============================================================================
