----------------------------- MODULE ReportsProofs -----------------------------
(***************************************************************************)
(* The reports store for any players, reasons, quota and windows: its      *)
(* type, that no report outlives either player, that a case is open once   *)
(* per window, that an acknowledged report is stored, that no rolling      *)
(* window exceeds the quota, and that a Retry-After, once waited, holds.   *)
(***************************************************************************)
EXTENDS Reports, FiniteSetTheorems, TLAPS

\* One conjunct per promise, and the facts about the finite table they rest on.
Inv == /\ TypeOK
       /\ IsFiniteSet(reports)
       /\ NoOrphans
       /\ NoDoubleCase
       /\ SuccessIsStored
       /\ RollingQuota
       /\ QuotaReopens

-----------------------------------------------------------------------------
(* Sets.                                                                     *)

\* Replacing one element by another, and dropping any, does not add to a set.
LEMMA Swap ==
    ASSUME NEW S, IsFiniteSet(S), NEW r, NEW q, NEW T,
           T \subseteq (S \ {r}) \cup {q},
           q \in T => r \in S \/ q \in S
    PROVE  Cardinality(T) <= Cardinality(S)
<1>1. CASE q \in T /\ q \notin S
  <2>1. IsFiniteSet(S \ {r}) /\ Cardinality(S \ {r}) = Cardinality(S) - 1
    BY <1>1, FS_RemoveElement
  <2>2. q \notin S \ {r}
    BY <1>1
  <2>3. /\ IsFiniteSet((S \ {r}) \cup {q})
        /\ Cardinality((S \ {r}) \cup {q}) = Cardinality(S \ {r}) + 1
    BY <2>1, <2>2, FS_AddElement
  <2>4. Cardinality(T) <= Cardinality((S \ {r}) \cup {q})
    BY <2>3, FS_Subset
  <2>5. Cardinality(S) \in Nat
    BY FS_CardinalityType
  <2> QED BY <2>1, <2>3, <2>4, <2>5
<1>2. CASE ~(q \in T /\ q \notin S)
  <2>1. T \subseteq S
    BY <1>2
  <2> QED BY <2>1, FS_Subset
<1> QED BY <1>1, <1>2

\* A set of reports that fewer than a number hold, and one more.
LEMMA AddOne ==
    ASSUME NEW S, IsFiniteSet(S), NEW n \in Nat, Cardinality(S) < n,
           NEW q, NEW T, T \subseteq S \cup {q}
    PROVE  Cardinality(T) <= n
<1>0. Cardinality(S) \in Nat
  BY FS_CardinalityType
<1>1. /\ IsFiniteSet(S \cup {q})
      /\ Cardinality(S \cup {q}) =
            IF q \in S THEN Cardinality(S) ELSE Cardinality(S) + 1
  BY FS_AddElement
<1>2. Cardinality(S \cup {q}) \in Nat /\ IsFiniteSet(T)
      /\ Cardinality(T) <= Cardinality(S \cup {q}) /\ Cardinality(T) \in Nat
  BY <1>1, FS_Subset, FS_CardinalityType
<1> QED BY <1>0, <1>1, <1>2

\* The counted reports have an oldest one.
LEMMA OldestExists ==
    ASSUME TypeOK, NEW p, Counted(p) # {}
    PROVE  \E r \in Counted(p) : \A s \in Counted(p) : r.at <= s.at
<1> DEFINE Dates == {r.at : r \in Counted(p)}
<1>1. Dates \subseteq Nat /\ Dates # {}
  BY DEF Counted, TypeOK, Row
<1> DEFINE Before == {ss \in Nat \X Nat : ss[1] < ss[2]}
<1>2. OpToRel(<, Nat) = Before
  BY Zenon DEF OpToRel
<1>3. IsWellFoundedOn(Before, Nat)
  BY <1>2, NatLessThanWellFounded
<1>4. PICK d \in Dates : \A e \in Dates : <<e, d>> \notin Before
  BY <1>1, <1>3, WFMin
<1>5. ASSUME NEW e \in Dates
      PROVE  d <= e
  <2>1. d \in Nat /\ e \in Nat
    BY <1>1
  <2>2. ~(e < d)
    BY <1>4, <2>1
  <2> QED BY <2>1, <2>2
<1> QED BY <1>5

-----------------------------------------------------------------------------
(* The initial state.                                                        *)

\* An empty table keeps every promise.
LEMMA InitInv == Init => Inv
<1> SUFFICES ASSUME Init PROVE Inv
  OBVIOUS
<1> USE DEF Init
<1>1. TypeOK
  BY DEF TypeOK, Nothing
<1>2. IsFiniteSet(reports)
  BY FS_EmptySet
<1>3. NoOrphans /\ NoDoubleCase
  BY DEF NoOrphans, NoDoubleCase
<1>4. \A p \in Players : heard[p].code = 0
  BY DEF Nothing
<1>5. SuccessIsStored /\ QuotaReopens
  BY <1>4 DEF SuccessIsStored, QuotaReopens
<1>6. RollingQuota
  <2>1. \A p, end : Within(p, end) = {}
    BY DEF Within
  <2> QED BY <2>1, FS_EmptySet, QuotaAssumption DEF RollingQuota
<1> QED BY <1>1, <1>2, <1>3, <1>5, <1>6 DEF Inv

-----------------------------------------------------------------------------
(* Acknowledging a repeat changes only what the app heard.                   *)

\* The parts of Inv that do not read what apps heard.
LEMMA SameReports ==
    ASSUME Inv, UNCHANGED <<clock, live, reports, minted>>
    PROVE  /\ IsFiniteSet(reports)'
           /\ NoOrphans'
           /\ NoDoubleCase'
           /\ RollingQuota'
<1>1. \A p, end : Within(p, end)' = Within(p, end)
  BY DEF Within
<1> QED BY <1>1 DEF Inv, NoOrphans, NoDoubleCase, RollingQuota, SameCase

\* Answering 202 keeps the invariant.
LEMMA RepeatInv ==
    ASSUME Inv, NEW p \in Players, NEW t \in Players, NEW reason \in Reasons,
           Repeat(p, t, reason)
    PROVE  Inv'
<1>1. PICK r \in Repeats(p, t, reason) :
         heard' = [heard EXCEPT ![p] = [code |-> 202, id |-> r.id, target |-> t]]
  BY DEF Repeat
<1>2. r \in reports /\ r.reporter = p /\ r.target = t /\ r.id \in Nat
  BY <1>1 DEF Repeats, Inv, TypeOK, Row
<1>3. UNCHANGED <<clock, live, reports, minted>>
  BY DEF Repeat
<1>4. heard \in [Players -> {Nothing} \cup Success \cup RateLimited]
  BY DEF Inv, TypeOK
<1>5. heard'[p] = [code |-> 202, id |-> r.id, target |-> t]
  BY <1>1, <1>4
<1>6. \A q \in Players \ {p} : heard'[q] = heard[q]
  BY <1>1, <1>4
<1>7. TypeOK'
  <2>1. [code |-> 202, id |-> r.id, target |-> t] \in Success
    BY <1>2 DEF Success
  <2>2. heard' \in [Players -> {Nothing} \cup Success \cup RateLimited]
    BY <1>1, <1>4, <2>1
  <2> QED BY <1>3, <2>2 DEF Inv, TypeOK
<1>8. SuccessIsStored'
  BY <1>2, <1>3, <1>5, <1>6 DEF Inv, SuccessIsStored
<1>9. QuotaReopens'
  <2>1. \A q, u : After(q, u)' = After(q, u)
    BY <1>3 DEF After
  <2>2. heard'[p].code # 429
    BY <1>5
  <2>3. \A q \in Players \ {p} : heard[q].code = 429 =>
           Cardinality(After(q, heard[q].until - ReportWindow - 1))
              < ReportsPerDay
    BY DEF Inv, QuotaReopens
  <2> QED BY <1>6, <2>1, <2>2, <2>3 DEF QuotaReopens
<1> QED BY <1>3, <1>7, <1>8, <1>9, SameReports DEF Inv

\* Answering 429 keeps the invariant: of the counted reports, at most as many as
\* the quota, the oldest is not younger than itself.
LEMMA LimitInv ==
    ASSUME Inv, NEW p \in Players, NEW t \in Players, NEW reason \in Reasons,
           Limit(p, t, reason)
    PROVE  Inv'
<1> DEFINE old == CHOOSE r \in Counted(p) : \A s \in Counted(p) : r.at <= s.at
<1>1. UNCHANGED <<clock, live, reports, minted>>
  BY DEF Limit
<1>2. heard' = [heard EXCEPT ![p] = [code |-> 429, until |-> RetryAt(p)]]
  BY DEF Limit
<1>3. heard \in [Players -> {Nothing} \cup Success \cup RateLimited]
  BY DEF Inv, TypeOK
<1>4. heard'[p] = [code |-> 429, until |-> RetryAt(p)]
  BY <1>2, <1>3
<1>5. \A q \in Players \ {p} : heard'[q] = heard[q]
  BY <1>2, <1>3
<1>6. TypeOK /\ IsFiniteSet(reports) /\ clock \in Nat
      /\ ReportsPerDay \in Nat \ {0} /\ ReportWindow \in Nat
  BY QuotaAssumption DEF Inv, TypeOK
<1>7. IsFiniteSet(Counted(p)) /\ Counted(p) # {}
  <2>1. IsFiniteSet(Counted(p))
    BY <1>6, FS_Subset DEF Counted
  <2>2. Cardinality(Counted(p)) # 0
    BY <1>6, <2>1, FS_CardinalityType DEF Limit, Limited
  <2> QED BY <2>1, <2>2, FS_EmptySet
<1>8. old \in Counted(p) /\ \A s \in Counted(p) : old.at <= s.at
  BY <1>6, <1>7, OldestExists
<1>9. old \in reports /\ old.at \in Nat /\ old.at > clock - ReportWindow
  BY <1>6, <1>8 DEF Counted, TypeOK, Row
<1>10. RetryAt(p) = old.at + ReportWindow + 1
  BY DEF RetryAt
<1> HIDE DEF old
<1>11. Cardinality(After(p, old.at)) < ReportsPerDay
  <2>1. Counted(p) = Within(p, clock)
    BY <1>6 DEF Counted, Within, TypeOK, Row
  <2>2. Cardinality(Counted(p)) <= ReportsPerDay
    BY <1>6, <2>1 DEF Inv, RollingQuota
  <2>3. After(p, old.at) \subseteq Counted(p) \ {old}
    BY <1>6, <1>9 DEF After, Counted, TypeOK, Row
  <2>4. /\ IsFiniteSet(Counted(p) \ {old})
        /\ Cardinality(Counted(p) \ {old}) = Cardinality(Counted(p)) - 1
    BY <1>7, <1>8, FS_RemoveElement
  <2>5. /\ IsFiniteSet(After(p, old.at))
        /\ Cardinality(After(p, old.at)) <= Cardinality(Counted(p) \ {old})
    BY <2>3, <2>4, FS_Subset
  <2>6. Cardinality(Counted(p)) \in Nat /\ Cardinality(After(p, old.at)) \in Nat
    BY <1>7, <2>5, FS_CardinalityType
  <2> QED BY <1>6, <2>2, <2>4, <2>5, <2>6
<1>12. TypeOK'
  <2>1. [code |-> 429, until |-> RetryAt(p)] \in RateLimited
    BY <1>6, <1>9, <1>10 DEF RateLimited
  <2>2. heard' \in [Players -> {Nothing} \cup Success \cup RateLimited]
    BY <1>2, <1>3, <2>1
  <2> QED BY <1>1, <1>6, <2>2 DEF TypeOK
<1>13. SuccessIsStored'
  <2>1. heard'[p].code \notin {201, 202}
    BY <1>4
  <2> QED BY <1>1, <1>5, <2>1 DEF Inv, SuccessIsStored
<1>14. QuotaReopens'
  <2>1. \A q, u : After(q, u)' = After(q, u)
    BY <1>1 DEF After
  <2>2. heard'[p].until - ReportWindow - 1 = old.at
    BY <1>4, <1>6, <1>9, <1>10
  <2>3. \A q \in Players \ {p} : heard[q].code = 429 =>
           Cardinality(After(q, heard[q].until - ReportWindow - 1))
              < ReportsPerDay
    BY DEF Inv, QuotaReopens
  <2> QED BY <1>5, <1>11, <2>1, <2>2, <2>3 DEF QuotaReopens
<1> QED BY <1>1, <1>12, <1>13, <1>14, SameReports DEF Inv

-----------------------------------------------------------------------------
(* The other actions.                                                        *)

\* A new report keeps the invariant: it was no repeat, and the quota was open.
LEMMA CreateInv ==
    ASSUME Inv, NEW p \in Players, NEW t \in Players, NEW reason \in Reasons,
           Create(p, t, reason)
    PROVE  Inv'
<1> DEFINE new == [id |-> minted + 1, reporter |-> p, target |-> t,
                   reason |-> reason, state |-> "pending", at |-> clock]
           answer == [code |-> 201, id |-> minted + 1, target |-> t]
<1>1. /\ TypeOK /\ IsFiniteSet(reports) /\ clock \in Nat /\ minted \in Nat
      /\ reports \subseteq Row
      /\ heard \in [Players -> {Nothing} \cup Success \cup RateLimited]
      /\ ReportsPerDay \in Nat \ {0} /\ ReportWindow \in Nat \ {0}
      /\ DedupWindow \in Nat
  BY QuotaAssumption DEF Inv, TypeOK
<1>2. /\ t \in live /\ t # p /\ p \in live
      /\ Repeats(p, t, reason) = {} /\ ~Limited(p)
      /\ minted' = minted + 1 /\ reports' = reports \cup {new}
      /\ heard' = [heard EXCEPT ![p] = answer]
      /\ clock' = clock /\ live' = live
  BY DEF Create, Reportable, Insertable
<1>3. heard'[p] = answer /\ \A q \in Players \ {p} : heard'[q] = heard[q]
  BY <1>1, <1>2
<1>4. \A r \in reports : r.id \in 1..minted /\ r.at <= clock
                           /\ r.at \in Nat /\ r.id \in Nat
                           /\ r.reporter # r.target
  BY <1>1 DEF TypeOK, Row
<1>5. TypeOK'
  <2>1. new \in Row /\ reports' \subseteq Row
    BY <1>1, <1>2 DEF Row, States
  <2>2. answer \in Success
    BY <1>1 DEF Success
  <2>3. heard' \in [Players -> {Nothing} \cup Success \cup RateLimited]
    BY <1>1, <1>2, <2>2
  <2>4. \A r \in reports' : /\ r.id \in 1..minted' /\ r.at <= clock'
                             /\ r.reporter # r.target
    BY <1>1, <1>2, <1>4
  <2>5. \A r, s \in reports' : r.id = s.id => r = s
    <3>1. \A r \in reports : r.id # new.id
      BY <1>1, <1>4
    <3> QED BY <1>1, <1>2, <3>1 DEF TypeOK
  <2>6. minted' \in Nat /\ clock' \in Nat /\ live' \subseteq Players
    BY <1>1, <1>2 DEF TypeOK
  <2> QED BY <2>1, <2>3, <2>4, <2>5, <2>6 DEF TypeOK
<1>6. IsFiniteSet(reports')
  BY <1>1, <1>2, FS_AddElement
<1>7. NoOrphans'
  BY <1>2 DEF Inv, NoOrphans
<1>8. NoDoubleCase'
  <2> SUFFICES ASSUME NEW r \in reports', NEW s \in reports', SameCase(r, s),
                      r.id < s.id, s.at - r.at < DedupWindow
               PROVE  r.state = "closed"
    BY DEF NoDoubleCase, SameCase
  <2>1. CASE r \in reports /\ s \in reports
    BY <2>1 DEF Inv, NoDoubleCase
  <2>2. CASE r \in reports /\ s = new
    <3>1. r \notin Repeats(p, t, reason)
      BY <1>2
    <3>2. r.reporter = p /\ r.target = t /\ r.reason = reason
      BY <2>2 DEF SameCase
    <3>3. r.at > clock - DedupWindow
      BY <1>1, <1>4, <2>2
    <3>4. r.state # "pending"
      BY <2>2, <3>1, <3>2, <3>3 DEF Repeats
    <3> QED BY <1>1, <2>2, <3>4 DEF Row, States
  <2>3. CASE r = new
    <3>1. s.id <= minted + 1
      BY <1>1, <1>2, <1>4
    <3> QED BY <1>1, <1>2, <1>4, <2>3, <3>1
  <2> QED BY <1>2, <2>1, <2>2, <2>3
<1>9. SuccessIsStored'
  <2>1. \A q \in Players \ {p} : heard[q].code \in {201, 202} =>
           \/ \E r \in reports : r.id = heard[q].id /\ r.reporter = q
                                   /\ r.target = heard[q].target
           \/ q \notin live \/ heard[q].target \notin live
    BY DEF Inv, SuccessIsStored
  <2>2. \E r \in reports' : r.id = answer.id /\ r.reporter = p
                             /\ r.target = answer.target
    <3>1. new \in reports'
      BY <1>2
    <3>2. /\ new.id = answer.id /\ new.reporter = p
          /\ new.target = answer.target
      OBVIOUS
    <3> QED BY <3>1, <3>2
  <2> SUFFICES ASSUME NEW q \in Players, heard'[q].code \in {201, 202}
               PROVE  \/ \E r \in reports' : /\ r.id = heard'[q].id
                                              /\ r.reporter = q
                                              /\ r.target = heard'[q].target
                      \/ q \notin live' \/ heard'[q].target \notin live'
    BY DEF SuccessIsStored
  <2>3. CASE q = p
    BY <1>3, <2>2, <2>3
  <2>4. CASE q # p
    BY <1>2, <1>3, <2>1, <2>4
  <2> QED BY <2>3, <2>4
<1>10. RollingQuota'
  <2> SUFFICES ASSUME NEW q \in Players, NEW end \in 0..clock
               PROVE  Cardinality(Within(q, end)') <= ReportsPerDay
    BY <1>2 DEF RollingQuota
  <2>1. CASE q = p /\ end = clock
    <3>1. Within(q, end)' \subseteq Counted(p) \cup {new}
      BY <1>1, <1>2, <2>1 DEF Within, Counted
    <3>2. IsFiniteSet(Counted(p)) /\ Cardinality(Counted(p)) \in Nat
      BY <1>1, FS_Subset, FS_CardinalityType DEF Counted
    <3>3. Cardinality(Counted(p)) < ReportsPerDay
      BY <1>1, <1>2, <3>2 DEF Limited
    <3> QED BY <1>1, <3>1, <3>2, <3>3, AddOne
  <2>2. CASE ~(q = p /\ end = clock)
    <3>1. Within(q, end)' = Within(q, end)
      BY <1>1, <1>2, <2>2 DEF Within
    <3> QED BY <3>1 DEF Inv, RollingQuota
  <2> QED BY <2>1, <2>2
<1>11. QuotaReopens'
  <2> SUFFICES ASSUME NEW q \in Players, heard'[q].code = 429
               PROVE  (Cardinality(After(q, heard[q].until - ReportWindow - 1))
                         < ReportsPerDay)'
    BY DEF QuotaReopens
  <2>1. q # p /\ heard'[q] = heard[q]
    BY <1>3
  <2>2. \A u : After(q, u)' = After(q, u)
    BY <1>2, <2>1 DEF After
  <2> QED BY <2>1, <2>2 DEF Inv, QuotaReopens
<1> QED BY <1>5, <1>6, <1>7, <1>8, <1>9, <1>10, <1>11 DEF Inv

\* Fewer reports of anybody, in any window, keep the quota's promises.
LEMMA FewerReports ==
    ASSUME Inv, clock' = clock, heard' = heard,
           \A q \in Players, u \in Int :
              /\ Cardinality(Within(q, u)') <= Cardinality(Within(q, u))
              /\ Cardinality(After(q, u)') <= Cardinality(After(q, u)),
           IsFiniteSet(reports)'
    PROVE  RollingQuota' /\ QuotaReopens'
<1>1. /\ IsFiniteSet(reports) /\ clock \in Nat
      /\ heard \in [Players -> {Nothing} \cup Success \cup RateLimited]
      /\ ReportsPerDay \in Nat /\ ReportWindow \in Nat
  BY QuotaAssumption DEF Inv, TypeOK
<1>2. \A q, u : /\ Cardinality(Within(q, u)) \in Nat
                /\ Cardinality(After(q, u)) \in Nat
  <2> TAKE q, u
  <2>1. Within(q, u) \subseteq reports /\ After(q, u) \subseteq reports
    BY DEF Within, After
  <2>2. IsFiniteSet(Within(q, u)) /\ IsFiniteSet(After(q, u))
    BY <1>1, <2>1, FS_Subset
  <2> QED BY <2>2, FS_CardinalityType
<1>3. \A q, u : /\ Cardinality(Within(q, u)') \in Nat
                /\ Cardinality(After(q, u)') \in Nat
  <2> TAKE q, u
  <2>1. Within(q, u)' \subseteq reports' /\ After(q, u)' \subseteq reports'
    BY DEF Within, After
  <2>2. IsFiniteSet(Within(q, u)') /\ IsFiniteSet(After(q, u)')
    BY <2>1, FS_Subset
  <2> QED BY <2>2, FS_CardinalityType
<1>4. RollingQuota'
  <2> SUFFICES ASSUME NEW q \in Players, NEW end \in 0..clock
               PROVE  Cardinality(Within(q, end)') <= ReportsPerDay
    BY DEF RollingQuota
  <2>1. Cardinality(Within(q, end)) <= ReportsPerDay
    BY DEF Inv, RollingQuota
  <2> QED BY <1>1, <1>2, <1>3, <2>1
<1>5. QuotaReopens'
  <2> SUFFICES ASSUME NEW q \in Players, heard[q].code = 429
               PROVE  Cardinality(After(q, heard[q].until - ReportWindow - 1)')
                         < ReportsPerDay
    BY DEF QuotaReopens
  <2> DEFINE u == heard[q].until - ReportWindow - 1
  <2>1. u \in Int
    BY <1>1 DEF Nothing, Success, RateLimited
  <2>2. Cardinality(After(q, u)) < ReportsPerDay
    BY DEF Inv, QuotaReopens
  <2> QED BY <1>1, <1>2, <1>3, <2>1, <2>2
<1> QED BY <1>4, <1>5

\* An erasure keeps the invariant: the cascade takes both sides.
LEMMA EraseInv ==
    ASSUME Inv, NEW p \in Players, Erase(p)
    PROVE  Inv'
<1>1. /\ live' = live \ {p} /\ reports' = Cascade(p)
      /\ clock' = clock /\ minted' = minted /\ heard' = heard
  BY DEF Erase
<1>2. reports' \subseteq reports
  BY <1>1 DEF Cascade
<1>3. TypeOK'
  <2>1. live' \subseteq Players
    BY <1>1 DEF Inv, TypeOK
  <2> QED BY <1>1, <1>2, <2>1 DEF Inv, TypeOK
<1>4. IsFiniteSet(reports) /\ IsFiniteSet(reports')
  BY <1>2, FS_Subset DEF Inv
<1>5. NoOrphans'
  BY <1>1 DEF Inv, NoOrphans, Cascade
<1>6. NoDoubleCase'
  BY <1>2 DEF Inv, NoDoubleCase, SameCase
<1>7. SuccessIsStored'
  <2> SUFFICES ASSUME NEW q \in Players, heard[q].code \in {201, 202},
                      q \in live', heard[q].target \in live'
               PROVE  \E r \in reports' : /\ r.id = heard[q].id
                                          /\ r.reporter = q
                                          /\ r.target = heard[q].target
    BY <1>1 DEF SuccessIsStored
  <2>1. PICK r \in reports : /\ r.id = heard[q].id /\ r.reporter = q
                             /\ r.target = heard[q].target
    BY <1>1 DEF Inv, SuccessIsStored
  <2>2. r \in reports'
    BY <1>1, <2>1 DEF Cascade
  <2> QED BY <2>1, <2>2
<1>8. \A q \in Players, u \in Int :
         /\ Cardinality(Within(q, u)') <= Cardinality(Within(q, u))
         /\ Cardinality(After(q, u)') <= Cardinality(After(q, u))
  <2> TAKE q \in Players, u \in Int
  <2>1. Within(q, u)' \subseteq Within(q, u) /\ After(q, u)' \subseteq After(q, u)
    BY <1>2 DEF Within, After
  <2>2. Within(q, u) \subseteq reports /\ After(q, u) \subseteq reports
    BY DEF Within, After
  <2>3. IsFiniteSet(Within(q, u)) /\ IsFiniteSet(After(q, u))
    BY <1>4, <2>2, FS_Subset
  <2> QED BY <2>1, <2>3, FS_Subset
<1>9. RollingQuota' /\ QuotaReopens'
  BY <1>1, <1>4, <1>8, FewerReports
<1> QED BY <1>3, <1>4, <1>5, <1>6, <1>7, <1>9 DEF Inv

\* Closing a case keeps the invariant: the report stays, and stays counted.
LEMMA CloseInv ==
    ASSUME Inv, NEW r \in reports, Close(r)
    PROVE  Inv'
<1> DEFINE q == [r EXCEPT !.state = "closed"]
<1>1. /\ reports' = (reports \ {r}) \cup {q} /\ clock' = clock
      /\ live' = live /\ minted' = minted /\ heard' = heard
  BY DEF Close
<1>2. r \in Row /\ IsFiniteSet(reports)
  BY DEF Inv, TypeOK
<1>3. /\ q \in Row /\ q.id = r.id /\ q.reporter = r.reporter
      /\ q.target = r.target /\ q.reason = r.reason /\ q.at = r.at
      /\ q.state = "closed"
  BY <1>2 DEF Row, States
<1> HIDE DEF q
<1>4. TypeOK'
  <2>1. reports' \subseteq Row
    BY <1>1, <1>3 DEF Inv, TypeOK
  <2>2. \A s \in reports' : /\ s.id \in 1..minted /\ s.at <= clock
                             /\ s.reporter # s.target
    BY <1>1, <1>3 DEF Inv, TypeOK
  <2>3. \A s, u \in reports' : s.id = u.id => s = u
    BY <1>1, <1>3 DEF Inv, TypeOK
  <2> QED BY <1>1, <2>1, <2>2, <2>3 DEF Inv, TypeOK
<1>5. IsFiniteSet(reports')
  <2>1. IsFiniteSet(reports \ {r})
    BY <1>2, FS_RemoveElement
  <2> QED BY <1>1, <2>1, FS_AddElement
<1>6. NoOrphans'
  BY <1>1, <1>3 DEF Inv, NoOrphans
<1>7. NoDoubleCase'
  <2> SUFFICES ASSUME NEW s \in reports', NEW u \in reports', SameCase(s, u),
                      s.id < u.id, u.at - s.at < DedupWindow
               PROVE  s.state = "closed"
    BY DEF NoDoubleCase, SameCase
  <2>1. CASE s = q
    BY <1>3, <2>1
  <2>2. CASE s # q /\ u = q
    <3>1. s \in reports /\ SameCase(s, r)
      BY <1>1, <1>3, <2>2 DEF SameCase
    <3> QED BY <1>3, <2>2, <3>1 DEF Inv, NoDoubleCase
  <2>3. CASE s # q /\ u # q
    BY <1>1, <2>3 DEF Inv, NoDoubleCase
  <2> QED BY <2>1, <2>2, <2>3
<1>8. SuccessIsStored'
  BY <1>1, <1>3 DEF Inv, SuccessIsStored
<1>9. \A p \in Players, u \in Int :
         /\ Cardinality(Within(p, u)') <= Cardinality(Within(p, u))
         /\ Cardinality(After(p, u)') <= Cardinality(After(p, u))
  <2> TAKE p \in Players, u \in Int
  <2>1. Within(p, u) \subseteq reports /\ After(p, u) \subseteq reports
    BY DEF Within, After
  <2>2. IsFiniteSet(Within(p, u)) /\ IsFiniteSet(After(p, u))
    BY <1>2, <2>1, FS_Subset
  <2>3. /\ Within(p, u)' \subseteq (Within(p, u) \ {r}) \cup {q}
        /\ q \in Within(p, u)' => r \in Within(p, u)
    BY <1>1, <1>3 DEF Within
  <2>4. /\ After(p, u)' \subseteq (After(p, u) \ {r}) \cup {q}
        /\ q \in After(p, u)' => r \in After(p, u)
    BY <1>1, <1>3 DEF After
  <2>5. Cardinality(Within(p, u)') <= Cardinality(Within(p, u))
    BY <2>2, <2>3, Swap
  <2>6. Cardinality(After(p, u)') <= Cardinality(After(p, u))
    BY <2>2, <2>4, Swap
  <2> QED BY <2>5, <2>6
<1>10. RollingQuota' /\ QuotaReopens'
  BY <1>1, <1>5, <1>9, FewerReports
<1> QED BY <1>4, <1>5, <1>6, <1>7, <1>8, <1>10 DEF Inv

\* Time passing keeps the invariant: the window that ends now holds no report
\* the one before it did not.
LEMMA TickInv ==
    ASSUME Inv, Tick
    PROVE  Inv'
<1>1. /\ clock' = clock + 1 /\ reports' = reports /\ live' = live
      /\ minted' = minted /\ heard' = heard
  BY DEF Tick
<1>2. /\ clock \in Nat /\ reports \subseteq Row /\ IsFiniteSet(reports)
      /\ ReportWindow \in Nat \ {0} /\ ReportsPerDay \in Nat
      /\ \A r \in reports : r.at <= clock
  BY QuotaAssumption DEF Inv, TypeOK
<1>3. TypeOK'
  <2>1. clock' \in Nat
    BY <1>1, <1>2
  <2>2. \A r \in reports' : /\ r.id \in 1..minted' /\ r.at <= clock'
                             /\ r.reporter # r.target
    BY <1>1, <1>2 DEF Inv, TypeOK, Row
  <2> QED BY <1>1, <2>1, <2>2 DEF Inv, TypeOK
<1>4. NoOrphans' /\ NoDoubleCase' /\ SuccessIsStored' /\ IsFiniteSet(reports')
  BY <1>1 DEF Inv, NoOrphans, NoDoubleCase, SameCase, SuccessIsStored
<1>5. QuotaReopens'
  <2>1. \A q, u : After(q, u)' = After(q, u)
    BY <1>1 DEF After
  <2> QED BY <1>1, <2>1 DEF Inv, QuotaReopens
<1>6. RollingQuota'
  <2> SUFFICES ASSUME NEW q \in Players, NEW end \in 0..(clock + 1)
               PROVE  Cardinality(Within(q, end)) <= ReportsPerDay
    BY <1>1 DEF RollingQuota, Within
  <2>1. CASE end \in 0..clock
    BY <2>1 DEF Inv, RollingQuota
  <2>2. CASE end = clock + 1
    <3>1. Within(q, end) \subseteq Within(q, clock)
      BY <1>2, <2>2 DEF Within, Row
    <3>2. IsFiniteSet(Within(q, clock))
      BY <1>2, FS_Subset DEF Within
    <3>3. /\ Cardinality(Within(q, end)) <= Cardinality(Within(q, clock))
          /\ IsFiniteSet(Within(q, end))
      BY <3>1, <3>2, FS_Subset
    <3>4. Cardinality(Within(q, clock)) <= ReportsPerDay
      BY <1>2 DEF Inv, RollingQuota
    <3>5. /\ Cardinality(Within(q, end)) \in Nat
          /\ Cardinality(Within(q, clock)) \in Nat
      BY <3>2, <3>3, FS_CardinalityType
    <3> QED BY <1>2, <3>3, <3>4, <3>5
  <2> QED BY <1>2, <2>1, <2>2
<1> QED BY <1>3, <1>4, <1>5, <1>6 DEF Inv

-----------------------------------------------------------------------------
(* The theorems.                                                             *)

\* Every step keeps the invariant, and so does a stuttering one.
LEMMA NextInv == Inv /\ [Next]_vars => Inv'
<1> SUFFICES ASSUME Inv, [Next]_vars PROVE Inv'
  OBVIOUS
<1>1. CASE UNCHANGED vars
  <2>1. clock' = clock /\ live' = live /\ reports' = reports
        /\ minted' = minted /\ heard' = heard
    BY <1>1 DEF vars
  <2>2. \A q, u : Within(q, u)' = Within(q, u) /\ After(q, u)' = After(q, u)
    BY <2>1 DEF Within, After
  <2>3. TypeOK'
    BY <2>1 DEF Inv, TypeOK
  <2>4. SuccessIsStored' /\ QuotaReopens'
    BY <2>1, <2>2 DEF Inv, SuccessIsStored, QuotaReopens
  <2> QED BY <2>1, <2>3, <2>4, SameReports DEF Inv
<1>2. ASSUME NEW p \in Players, NEW t \in Players, NEW reason \in Reasons,
             Accept(p, t, reason)
      PROVE  Inv'
  BY <1>2, RepeatInv, LimitInv, CreateInv DEF Accept
<1>3. ASSUME NEW p \in Players, Erase(p) PROVE Inv'
  BY <1>3, EraseInv
<1>4. ASSUME NEW r \in reports, Close(r) PROVE Inv'
  BY <1>4, CloseInv
<1>5. CASE Tick
  BY <1>5, TickInv
<1> QED BY <1>1, <1>2, <1>3, <1>4, <1>5 DEF Next

\* The invariant holds in every reachable state.
LEMMA Invariance == Spec => []Inv
  BY InitInv, NextInv, PTL DEF Spec

\* Every variable keeps its type, references are unique and nobody reports
\* themselves, for any players, quota and windows.
THEOREM TypeCorrect == Spec => []TypeOK
<1>1. Inv => TypeOK
  BY DEF Inv
<1> QED BY <1>1, Invariance, PTL

\* No report outlives its reporter or its target.
THEOREM NoOrphansInvariant == Spec => []NoOrphans
<1>1. Inv => NoOrphans
  BY DEF Inv
<1> QED BY <1>1, Invariance, PTL

\* No case is open twice within a dedup window.
THEOREM NoDoubleCaseInvariant == Spec => []NoDoubleCase
<1>1. Inv => NoDoubleCase
  BY DEF Inv
<1> QED BY <1>1, Invariance, PTL

\* A report an app was told is accepted is stored.
THEOREM SuccessIsStoredInvariant == Spec => []SuccessIsStored
<1>1. Inv => SuccessIsStored
  BY DEF Inv
<1> QED BY <1>1, Invariance, PTL

\* No rolling window, wherever it ends, holds more reports of a player than the
\* quota, for any quota and window.
THEOREM RollingQuotaInvariant == Spec => []RollingQuota
<1>1. Inv => RollingQuota
  BY DEF Inv
<1> QED BY <1>1, Invariance, PTL

\* A reporter that has waited its Retry-After is not limited.
THEOREM RetryAfterInvariant == Spec => []RetryAfterHolds
<1>1. Inv => RetryAfterHolds
  <2> SUFFICES ASSUME Inv, NEW p \in Players, heard[p].code = 429,
                      clock >= heard[p].until
               PROVE  ~Limited(p)
    BY DEF RetryAfterHolds
  <2> DEFINE u == heard[p].until - ReportWindow - 1
  <2>1. /\ IsFiniteSet(reports) /\ clock \in Nat /\ heard[p].until \in Int
        /\ ReportWindow \in Nat /\ ReportsPerDay \in Nat
        /\ reports \subseteq Row
    BY QuotaAssumption DEF Inv, TypeOK, Nothing, Success, RateLimited
  <2>2. Cardinality(After(p, u)) < ReportsPerDay
    BY DEF Inv, QuotaReopens
  <2>3. Counted(p) \subseteq After(p, u)
    BY <2>1 DEF Counted, After, Row
  <2>4. IsFiniteSet(After(p, u))
    BY <2>1, FS_Subset DEF After
  <2>5. /\ Cardinality(Counted(p)) <= Cardinality(After(p, u))
        /\ IsFiniteSet(Counted(p))
    BY <2>3, <2>4, FS_Subset
  <2>6. Cardinality(Counted(p)) \in Nat /\ Cardinality(After(p, u)) \in Nat
    BY <2>4, <2>5, FS_CardinalityType
  <2> QED BY <2>1, <2>2, <2>5, <2>6 DEF Limited
<1> QED BY <1>1, Invariance, PTL
=============================================================================
