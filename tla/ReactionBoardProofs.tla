-------------------------- MODULE ReactionBoardProofs --------------------------
(***************************************************************************)
(* The Reaction board for any players, trials, requests under way, limits  *)
(* and dates: its type, that a retry never double-posts, that an answered  *)
(* run is listed, that nobody's all-time entry ever gets worse, that what  *)
(* a submitter is told is what readers see, and that the population of a   *)
(* board is what the backing rule says, in its SQL and its Go form.        *)
(***************************************************************************)
EXTENDS ReactionBoard, FiniteSetTheorems, TLAPS

\* Ids tell rows apart and have a bound, so that there is a highest one.
UniqueIds  == \A r, s \in rows : r.id = s.id => r = s
IdsBounded == \E n \in Nat : \A r \in rows : r.id <= n

Inv == /\ TypeOK
       /\ IsFiniteSet(rows)
       /\ UniqueIds
       /\ IdsBounded
       /\ NeverDoublePosts

-----------------------------------------------------------------------------
(* Numbers.                                                                  *)

\* A set of numbers has a least one.
LEMMA LeastExists ==
    ASSUME NEW S, S \subseteq Nat, S # {}
    PROVE  \E a \in S : \A b \in S : a <= b
<1> DEFINE Before == {ss \in Nat \X Nat : ss[1] < ss[2]}
<1>1. OpToRel(<, Nat) = Before
  BY Zenon DEF OpToRel
<1>2. IsWellFoundedOn(Before, Nat)
  BY <1>1, NatLessThanWellFounded
<1>3. PICK a \in S : \A b \in S : <<b, a>> \notin Before
  BY <1>2, WFMin
<1>4. ASSUME NEW b \in S
      PROVE  a <= b
  <2>1. a \in Nat /\ b \in Nat
    OBVIOUS
  <2>2. ~(b < a)
    BY <1>3, <2>1
  <2> QED BY <2>1, <2>2
<1> QED BY <1>4

\* The fastest attempt of a trial is a number.
LEMMA FastestType == \A t \in Trials : Fastest[t] \in Nat
<1> SUFFICES ASSUME NEW t \in Trials
             PROVE  Fastest[t] \in Nat
  OBVIOUS
<1>1. t.attempts \in Seq(Nat) /\ Len(t.attempts) \in 1..3
  BY TrialsAssumption
<1>2. Range(t.attempts) \subseteq Nat
  BY <1>1 DEF Range
<1>3. 1 \in DOMAIN t.attempts
  BY <1>1
<1>4. Range(t.attempts) # {}
  BY <1>3 DEF Range
<1>5. PICK a \in Range(t.attempts) : \A b \in Range(t.attempts) : a <= b
  BY <1>2, <1>4, LeastExists
<1>6. (CHOOSE c \in Range(t.attempts) : \A b \in Range(t.attempts) : c <= b)
          \in Range(t.attempts)
  BY <1>5
<1> QED BY <1>2, <1>6 DEF Fastest

\* A new row's id is above every id there is.
LEMMA NextIdFresh ==
    ASSUME TypeOK, IdsBounded
    PROVE  NextId \in Nat /\ \A r \in rows : r.id < NextId
<1>0. \A r \in rows : r.id \in Nat
  BY DEF TypeOK, Row
<1>1. CASE rows = {}
  BY <1>1 DEF NextId
<1>2. CASE rows # {}
  <2>1. PICK n \in Nat : \A r \in rows : r.id <= n
    BY DEF IdsBounded
  <2> DEFINE Gaps == {n - r.id : r \in rows}
  <2>2. Gaps \subseteq Nat /\ Gaps # {}
    BY <1>0, <1>2, <2>1
  <2>3. PICK g \in Gaps : \A h \in Gaps : g <= h
    BY <2>2, LeastExists
  <2>4. PICK r \in rows : g = n - r.id
    BY <2>3
  <2>5. ASSUME NEW s \in rows
        PROVE  s.id <= r.id
    <3>1. n - s.id \in Gaps
      OBVIOUS
    <3>2. n - r.id <= n - s.id
      BY <2>3, <2>4, <3>1
    <3> QED BY <1>0, <3>2
  <2> DEFINE top == CHOOSE t \in rows : \A s \in rows : s.id <= t.id
  <2>6. top \in rows /\ \A s \in rows : s.id <= top.id
    BY <2>5
  <2>7. NextId = top.id + 1
    BY <1>2 DEF NextId
  <2> HIDE DEF top
  <2> QED BY <1>0, <2>6, <2>7
<1> QED BY <1>1, <1>2

-----------------------------------------------------------------------------
(* The board's order.                                                        *)

\* What the order compares.
LEMMA RowTypes ==
    ASSUME NEW r \in Row
    PROVE  /\ Fastest[r.trial] \in Nat /\ r.trial.score \in Nat
           /\ r.at \in Nat /\ r.id \in Nat
BY FastestType, TrialsAssumption DEF Row

\* Of two rows with different ids one is ahead, under either sort.
LEMMA AheadTotal ==
    ASSUME NEW sort, NEW r \in Row, NEW s \in Row, r.id # s.id
    PROVE  Ahead(sort, r, s) \/ Ahead(sort, s, r)
BY RowTypes DEF Ahead, Faster, Higher, Arrived

\* Being ahead carries over.
LEMMA AheadTransitive ==
    ASSUME NEW sort, NEW r \in Row, NEW s \in Row, NEW t \in Row,
           Ahead(sort, r, s), Ahead(sort, s, t)
    PROVE  Ahead(sort, r, t)
<1>1. CASE sort = "score"
  BY <1>1, RowTypes DEF Ahead, Higher, Arrived
<1>2. CASE sort # "score"
  BY <1>2, RowTypes DEF Ahead, Faster, Arrived
<1> QED BY <1>1, <1>2

-----------------------------------------------------------------------------
(* The invariant.                                                            *)

\* An empty table and idle slots keep it.
LEMMA InitInv == Init => Inv
<1> SUFFICES ASSUME Init PROVE Inv
  OBVIOUS
<1> USE DEF Init
<1>1. TypeOK
  BY DEF TypeOK
<1>2. IsFiniteSet(rows)
  BY FS_EmptySet
<1>3. UniqueIds /\ IdsBounded
  BY DEF UniqueIds, IdsBounded
<1>4. \A s \in Slots : reqs[s].pc = "idle"
  BY DEF Idle
<1>5. NeverDoublePosts
  BY <1>4 DEF NeverDoublePosts
<1> QED BY <1>1, <1>2, <1>3, <1>5 DEF Inv

\* A step that leaves the table and the accounts alone, and makes no request
\* stored, keeps all but the type.
LEMMA SameTable ==
    ASSUME Inv, UNCHANGED <<live, rows>>, TypeOK',
           \A s \in Slots : reqs'[s].pc = "stored" => reqs'[s] = reqs[s]
    PROVE  Inv'
<1>1. IsFiniteSet(rows)' /\ UniqueIds' /\ IdsBounded'
  BY DEF Inv, UniqueIds, IdsBounded
<1>2. NeverDoublePosts'
  BY DEF Inv, NeverDoublePosts
<1> QED BY <1>1, <1>2 DEF Inv

\* Reading the clock.
LEMMA StampInv ==
    ASSUME Inv, NEW s \in Slots, Stamp(s)
    PROVE  Inv'
<1>1. TypeOK /\ TypeOK'
  <2>1. [pc |-> "stamped", at |-> clock] \in Stamped
    BY DEF Inv, TypeOK, Stamped
  <2> QED BY <2>1 DEF Inv, TypeOK, Stamp
<1>2. \A z \in Slots : reqs'[z].pc = "stored" => reqs'[z] = reqs[z]
  BY <1>1 DEF TypeOK, Stamp
<1> QED BY <1>1, <1>2, SameTable DEF Stamp

\* Answering, failing and giving up.
LEMMA LeaveInv ==
    ASSUME Inv, NEW s \in Slots, Leave(s)
    PROVE  Inv'
<1>1. TypeOK /\ TypeOK'
  BY DEF Inv, TypeOK, Leave
<1>2. \A z \in Slots : reqs'[z].pc = "stored" => reqs'[z] = reqs[z]
  BY <1>1 DEF TypeOK, Leave, Idle
<1> QED BY <1>1, <1>2, SameTable DEF Leave

\* A restart.
LEMMA RestartInv ==
    ASSUME Inv, Restart
    PROVE  Inv'
<1>1. TypeOK /\ TypeOK'
  BY DEF Inv, TypeOK, Restart
<1>2. \A z \in Slots : reqs'[z].pc = "stored" => reqs'[z] = reqs[z]
  BY DEF Restart, Idle
<1> QED BY <1>1, <1>2, SameTable DEF Restart

\* The passing of time.
LEMMA TickInv ==
    ASSUME Inv, Tick
    PROVE  Inv'
<1>1. TypeOK'
  BY DEF Inv, TypeOK, Tick
<1> QED BY <1>1, SameTable DEF Tick

\* The cascade: what is left was there, and the erased player's answers are no
\* longer spoken for.
LEMMA EraseInv ==
    ASSUME Inv, NEW p \in Players, Erase(p)
    PROVE  Inv'
<1>1. rows' \subseteq rows /\ live' = live \ {p} /\ reqs' = reqs
  BY DEF Erase
<1>2. TypeOK'
  BY DEF Inv, TypeOK, Erase
<1>3. IsFiniteSet(rows)'
  BY <1>1, FS_Subset DEF Inv
<1>4. UniqueIds' /\ IdsBounded'
  BY <1>1 DEF Inv, UniqueIds, IdsBounded
<1>5. NeverDoublePosts'
  BY <1>1 DEF Inv, NeverDoublePosts, Erase
<1> QED BY <1>2, <1>3, <1>4, <1>5 DEF Inv

\* The insert either finds the row of the client id or adds one with a new id.
LEMMA InsertCases ==
    ASSUME Inv, NEW s \in Slots, NEW p \in Players, NEW c \in Clients,
           NEW source \in Submittable, NEW trial \in Trials,
           Insert(s, p, c, source, trial)
    PROVE  \E r \in Row :
              /\ r.player = p /\ r.client = c
              /\ rows' = rows \cup {r}
              /\ reqs' = [reqs EXCEPT ![s] =
                     [pc |-> "stored", player |-> p, client |-> c,
                      id |-> r.id, source |-> r.source]]
              /\ \/ r \in rows
                 \/ /\ \A z \in rows : z.id < r.id
                    /\ \A z \in rows : ~(z.player = p /\ z.client = c)
<1> DEFINE at == reqs[s].at
<1>1. at \in Nat
  BY DEF Inv, TypeOK, Insert, Idle, Stamped, Stored
<1>2. CASE Existing(p, c, source) = {}
  <2> DEFINE r == NewRow(p, c, source, trial, at)
  <2>1. NextId \in Nat /\ \A z \in rows : z.id < NextId
    BY NextIdFresh DEF Inv
  <2>2. r \in Row /\ r.player = p /\ r.client = c /\ r.id = NextId
    BY <1>1, <2>1 DEF NewRow, Row, Submittable
  <2>3. rows' = rows \cup {r}
    BY <1>2 DEF Insert, Inserted
  <2>4. reqs' = [reqs EXCEPT ![s] =
                     [pc |-> "stored", player |-> p, client |-> c,
                      id |-> r.id, source |-> r.source]]
    BY <1>2 DEF Insert, Named
  <2>5. \A z \in rows : ~(z.player = p /\ z.client = c)
    BY <1>2 DEF Existing
  <2> HIDE DEF r
  <2> QED BY <2>1, <2>2, <2>3, <2>4, <2>5
<1>3. CASE Existing(p, c, source) # {}
  <2> DEFINE r == CHOOSE z \in Existing(p, c, source) : TRUE
  <2>1. r \in Existing(p, c, source)
    BY <1>3
  <2>2. r \in rows /\ r.player = p /\ r.client = c
    BY <2>1 DEF Existing
  <2>3. rows' = rows
    BY <1>3 DEF Insert, Inserted
  <2>4. reqs' = [reqs EXCEPT ![s] =
                     [pc |-> "stored", player |-> p, client |-> c,
                      id |-> r.id, source |-> r.source]]
    BY <1>3 DEF Insert, Named
  <2>5. r \in Row
    BY <2>2 DEF Inv, TypeOK
  <2> HIDE DEF r
  <2> QED BY <2>2, <2>3, <2>4, <2>5
<1> QED BY <1>2, <1>3

\* The insert keeps the invariant.
LEMMA InsertInv ==
    ASSUME Inv, NEW s \in Slots, NEW p \in Players, NEW c \in Clients,
           NEW source \in Submittable, NEW trial \in Trials,
           Insert(s, p, c, source, trial)
    PROVE  Inv'
<1>0. UNCHANGED <<clock, live>>
  BY DEF Insert
<1>1. PICK r \in Row :
         /\ r.player = p /\ r.client = c
         /\ rows' = rows \cup {r}
         /\ reqs' = [reqs EXCEPT ![s] =
                [pc |-> "stored", player |-> p, client |-> c,
                 id |-> r.id, source |-> r.source]]
         /\ \/ r \in rows
            \/ /\ \A z \in rows : z.id < r.id
               /\ \A z \in rows : ~(z.player = p /\ z.client = c)
  BY InsertCases
<1>2. r.id \in Nat /\ r.source \in Sources /\ \A z \in rows : z.id \in Nat
  BY DEF Row, Inv, TypeOK
<1>3. TypeOK'
  <2>1. [pc |-> "stored", player |-> p, client |-> c,
         id |-> r.id, source |-> r.source] \in Stored
    BY <1>2 DEF Stored
  <2> QED BY <1>0, <1>1, <2>1 DEF Inv, TypeOK
<1>4. IsFiniteSet(rows)'
  BY <1>1, FS_AddElement DEF Inv
<1>5. UniqueIds'
  BY <1>1, <1>2 DEF Inv, UniqueIds
<1>6. IdsBounded'
  <2>1. PICK n \in Nat : \A z \in rows : z.id <= n
    BY DEF Inv, IdsBounded
  <2>2. \A z \in rows' : z.id <= n + r.id
    BY <1>1, <1>2, <2>1
  <2> QED BY <1>2, <2>1, <2>2 DEF IdsBounded
<1>7. NeverDoublePosts'
  <2>1. \A y, z \in rows' : y.player = z.player /\ y.client = z.client => y = z
    BY <1>1 DEF Inv, NeverDoublePosts
  <2>2. ASSUME NEW z \in Slots,
               reqs'[z].pc = "stored", reqs'[z].player \in live'
        PROVE  \E y \in rows' : /\ y.player = reqs'[z].player
                                /\ y.client = reqs'[z].client
                                /\ y.id = reqs'[z].id
                                /\ y.source = reqs'[z].source
    <3>1. CASE z = s
      <4>1. reqs'[z] = [pc |-> "stored", player |-> p, client |-> c,
                        id |-> r.id, source |-> r.source]
        BY <1>1, <3>1 DEF Inv, TypeOK
      <4> QED BY <1>1, <4>1
    <3>2. CASE z # s
      <4>1. reqs'[z] = reqs[z]
        BY <1>1, <3>2 DEF Inv, TypeOK
      <4> QED BY <1>0, <1>1, <2>2, <4>1 DEF Inv, NeverDoublePosts
    <3> QED BY <3>1, <3>2
  <2> QED BY <2>1, <2>2 DEF NeverDoublePosts
<1> QED BY <1>3, <1>4, <1>5, <1>6, <1>7 DEF Inv

\* The invariant is inductive.
LEMMA StepInv == Inv /\ [Next]_vars => Inv'
<1> SUFFICES ASSUME Inv, [Next]_vars PROVE Inv'
  OBVIOUS
<1>1. CASE \E s \in Slots : Submit(s)
  <2>1. PICK s \in Slots : Submit(s)
    BY <1>1
  <2> QED BY <2>1, StampInv, InsertInv, LeaveInv DEF Submit
<1>2. CASE Restart
  BY <1>2, RestartInv
<1>3. CASE \E p \in Players : Erase(p)
  BY <1>3, EraseInv
<1>4. CASE Tick
  BY <1>4, TickInv
<1>5. CASE UNCHANGED vars
  <2>1. TypeOK'
    BY <1>5 DEF Inv, TypeOK, vars
  <2> QED BY <1>5, <2>1, SameTable DEF vars
<1> QED BY <1>1, <1>2, <1>3, <1>4, <1>5 DEF Next

\* The inductive invariant holds in every behaviour.
THEOREM BoardInvariant == Spec => []Inv
BY InitInv, StepInv, PTL DEF Spec

\* Every variable keeps its shape.
THEOREM TypeCorrect == Spec => []TypeOK
<1>1. Inv => TypeOK
  BY DEF Inv
<1> QED BY <1>1, BoardInvariant, PTL

\* A client id has one row, and every answer on its way names it.
THEOREM NeverDoublePostsInvariant == Spec => []NeverDoublePosts
<1>1. Inv => NeverDoublePosts
  BY DEF Inv
<1> QED BY <1>1, BoardInvariant, PTL

-----------------------------------------------------------------------------
(* The feed and the boards.                                                  *)

\* An answered run is the only row of its id, and it is in its source's feed
\* or Limit rows of that source arrived after it.
THEOREM AnsweredIsListedInvariant == Spec => []AnsweredIsListed
<1>1. Inv => AnsweredIsListed
  <2> SUFFICES ASSUME Inv, NEW q \in Range(reqs),
                      q.pc = "stored", q.player \in live
               PROVE  LET r == CHOOSE r \in rows : r.id = q.id IN
                      \/ r \in Recent(q.source)
                      \/ Cardinality({s \in rows : /\ s.source = q.source
                                                   /\ Arrived(r, s)}) >= Limit
    BY DEF AnsweredIsListed
  <2> DEFINE r == CHOOSE r \in rows : r.id = q.id
             later == {s \in rows : s.source = q.source /\ Arrived(r, s)}
  <2>1. PICK y \in rows : y.id = q.id /\ y.source = q.source
    BY DEF Inv, NeverDoublePosts, TypeOK, Range
  <2>2. r = y
    BY <2>1 DEF Inv, UniqueIds
  <2>3. q.source \in Sources
    BY <2>1 DEF Inv, TypeOK, Row
  <2>4. q.source # All
    BY <2>3, SourcesAssumption
  <2> HIDE DEF r
  <2>5. OnBoard(rows, q.source) = {s \in rows : s.source = q.source}
    BY <2>4 DEF OnBoard
  <2>6. {s \in OnBoard(rows, q.source) : Arrived(r, s)} = later
    BY <2>5
  <2>7. IsFiniteSet(later) /\ Cardinality(later) \in Nat
    BY FS_Subset, FS_CardinalityType DEF Inv
  <2>8. CASE Cardinality(later) < Limit
    <3>1. r \in OnBoard(rows, q.source)
      BY <2>1, <2>2, <2>5
    <3>2. r \in Recent(q.source)
      BY <2>6, <2>8, <3>1 DEF Recent
    <3> QED BY <3>2 DEF r
  <2>9. CASE Cardinality(later) >= Limit
    BY <2>9 DEF r
  <2> QED BY <2>7, <2>8, <2>9, BoundsAssumption
<1> QED BY <1>1, BoardInvariant, PTL

\* An entry of a table is still the entry when rows of other players go.
LEMMA EntrySurvives ==
    ASSUME NEW board, NEW sort, NEW r \in Entries(rows, board, 0, sort),
           rows' \subseteq rows, r \in rows'
    PROVE  r \in Entries(rows', board, 0, sort)
BY DEF Entries, OnBoard

\* A row more either leaves the entry, or takes it over from ahead.
LEMMA EntryYields ==
    ASSUME Inv, NEW board, NEW sort, NEW r \in Entries(rows, board, 0, sort),
           NEW x \in Row, rows' = rows \cup {x}, \A z \in rows : z.id < x.id
    PROVE  \E s \in Entries(rows', board, 0, sort) :
              s.player = r.player /\ (s = r \/ Ahead(sort, s, r))
<1> DEFINE pool(S) == {z \in OnBoard(S, board) : z.at >= 0 /\ Qualified(z)}
<1>1. /\ r \in pool(rows)
      /\ \A s \in pool(rows) \ {r} : s.player = r.player => Ahead(sort, r, s)
  BY DEF Entries
<1>2. pool(rows) \subseteq rows /\ rows \subseteq Row
  BY DEF OnBoard, Inv, TypeOK
<1>3. pool(rows) \subseteq pool(rows') /\ pool(rows') \subseteq pool(rows) \cup {x}
  BY DEF OnBoard
<1>4. x.id # r.id /\ x # r
  BY <1>1, <1>2 DEF Row
<1>5. CASE /\ x \in pool(rows') /\ x.player = r.player
           /\ Ahead(sort, x, r)
  <2>1. ASSUME NEW s \in pool(rows') \ {x}, s.player = x.player
        PROVE  Ahead(sort, x, s)
    <3>1. s \in pool(rows) /\ s \in Row /\ r \in Row
      BY <1>1, <1>2, <1>3
    <3>2. CASE s = r
      BY <1>5, <3>2
    <3>3. CASE s # r
      <4>1. Ahead(sort, r, s)
        BY <1>1, <1>5, <2>1, <3>1, <3>3
      <4> QED BY <1>5, <3>1, <4>1, AheadTransitive
    <3> QED BY <3>2, <3>3
  <2>2. x \in Entries(rows', board, 0, sort)
    BY <1>5, <2>1 DEF Entries
  <2> QED BY <1>5, <2>2
<1>6. CASE ~(/\ x \in pool(rows') /\ x.player = r.player
             /\ Ahead(sort, x, r))
  <2>1. ASSUME NEW s \in pool(rows') \ {r}, s.player = r.player
        PROVE  Ahead(sort, r, s)
    <3>1. CASE s \in pool(rows)
      BY <1>1, <2>1, <3>1
    <3>2. CASE s = x
      <4>1. r \in Row
        BY <1>1, <1>2
      <4> QED BY <1>4, <1>6, <2>1, <3>2, <4>1, AheadTotal
    <3> QED BY <1>3, <3>1, <3>2
  <2>2. r \in Entries(rows', board, 0, sort)
    BY <1>1, <1>3, <2>1 DEF Entries
  <2> QED BY <2>2
<1> QED BY <1>5, <1>6

\* Only an insert and an erasure change the table; neither worsens an entry of
\* a player who stays.
LEMMA StepNeverWorse ==
    ASSUME Inv, [Next]_vars, rows' # rows,
           NEW board \in Boards, NEW sort \in Sorts,
           NEW r \in Entries(rows, board, 0, sort), r.player \in live'
    PROVE  \E s \in Entries(rows', board, 0, sort) :
              s.player = r.player /\ (s = r \/ Ahead(sort, s, r))
<1>1. CASE \E p \in Players : Erase(p)
  <2>1. PICK p \in Players : Erase(p)
    BY <1>1
  <2>2. r \in rows /\ r.player # p
    BY <2>1 DEF Erase, Entries, OnBoard
  <2>3. r \in rows' /\ rows' \subseteq rows
    BY <2>1, <2>2 DEF Erase
  <2>4. r \in Entries(rows', board, 0, sort)
    BY <2>3, EntrySurvives
  <2> QED BY <2>4
<1>2. CASE \E s \in Slots, p \in Players, c \in Clients,
              source \in Submittable, trial \in Trials :
                  Insert(s, p, c, source, trial)
  <2>1. PICK s \in Slots, p \in Players, c \in Clients,
             source \in Submittable, trial \in Trials :
                 Insert(s, p, c, source, trial)
    BY <1>2
  <2>2. PICK x \in Row : /\ rows' = rows \cup {x}
                         /\ x \in rows \/ \A z \in rows : z.id < x.id
    BY <2>1, InsertCases
  <2>3. \A z \in rows : z.id < x.id
    BY <2>2
  <2> QED BY <2>2, <2>3, EntryYields
<1>3. rows' = rows \/ (\E p \in Players : Erase(p))
          \/ \E s \in Slots, p \in Players, c \in Clients,
                source \in Submittable, trial \in Trials :
                    Insert(s, p, c, source, trial)
  BY DEF Next, vars, Submit, Stamp, Leave, Restart, Tick
<1> QED BY <1>1, <1>2, <1>3

\* Nobody's all-time entry ever gets worse while they keep their account.
THEOREM NeverWorseHolds == Spec => NeverWorse
<1>1. Inv /\ [Next]_vars =>
        [\/ rows' = rows
         \/ \A board \in Boards, sort \in Sorts :
              \A r \in Entries(rows, board, 0, sort) :
                  r.player \in live' =>
                      \E s \in Entries(rows', board, 0, sort) :
                          /\ s.player = r.player
                          /\ s = r \/ Ahead(sort, s, r)]_vars
  BY StepNeverWorse
<1> QED BY <1>1, BoardInvariant, PTL DEF Spec, NeverWorse

-----------------------------------------------------------------------------
(* Places in an order.                                                       *)

\* A strict total order R on T, and how many of T come before r in it.
StrictOrder(T, R) ==
    /\ \A r \in T : <<r, r>> \notin R
    /\ \A r, s \in T : r # s => <<r, s>> \in R \/ <<s, r>> \in R
    /\ \A r, s, t \in T : <<r, s>> \in R /\ <<s, t>> \in R => <<r, t>> \in R

Place(T, R, r) == Cardinality({x \in T : <<x, r>> \in R})

Numbered(T, R) ==
    /\ \A r \in T : Place(T, R, r) \in Nat /\ Place(T, R, r) < Cardinality(T)
    /\ \A r, s \in T : Place(T, R, r) = Place(T, R, s) => r = s
    /\ \A r, s \in T : <<r, s>> \in R => Place(T, R, r) < Place(T, R, s)
    /\ \A k \in 1..Cardinality(T) : \E r \in T : Place(T, R, r) = k - 1

\* In a finite set under a strict total order, counting what comes before an
\* element gives each place from 0 on to one element, and leaves none out.
LEMMA Places ==
    ASSUME NEW T, IsFiniteSet(T), NEW R, StrictOrder(T, R)
    PROVE  Numbered(T, R)
<1> USE DEF StrictOrder
<1> DEFINE Before(r) == {x \in T : <<x, r>> \in R}
           place == [r \in T |-> Cardinality(Before(r)) + 1]
<1>1. Cardinality(T) \in Nat
  BY FS_CardinalityType
<1>2. \A r \in T : IsFiniteSet(Before(r)) /\ Cardinality(Before(r)) \in Nat
  BY FS_Subset, FS_CardinalityType
<1>3. ASSUME NEW r \in T, NEW s \in T, <<r, s>> \in R
      PROVE  Cardinality(Before(r)) < Cardinality(Before(s))
  <2>1. Before(r) \subseteq Before(s) /\ r \in Before(s) /\ r \notin Before(r)
    BY <1>3
  <2>2. Before(r) # Before(s)
    BY <2>1
  <2>3. /\ Cardinality(Before(r)) <= Cardinality(Before(s))
        /\ Cardinality(Before(s)) = Cardinality(Before(r)) => Before(s) = Before(r)
    BY <1>2, <2>1, FS_Subset
  <2>4. Cardinality(Before(r)) \in Nat /\ Cardinality(Before(s)) \in Nat
    BY <1>2
  <2> HIDE DEF Before
  <2> QED BY <2>2, <2>3, <2>4
<1>4. ASSUME NEW r \in T, NEW s \in T, Cardinality(Before(r)) = Cardinality(Before(s))
      PROVE  r = s
  <2>1. ~(Cardinality(Before(r)) < Cardinality(Before(s)))
        /\ ~(Cardinality(Before(s)) < Cardinality(Before(r)))
    <3>1. Cardinality(Before(r)) \in Nat
      BY <1>2
    <3> HIDE DEF Before
    <3> QED BY <1>4, <3>1
  <2> QED BY <1>3, <2>1
<1>5. ASSUME NEW r \in T
      PROVE  Cardinality(Before(r)) + 1 \in 1..Cardinality(T)
  <2>1. Before(r) \subseteq T /\ r \notin Before(r)
    OBVIOUS
  <2>2. Before(r) # T
    BY <2>1
  <2>3. /\ Cardinality(Before(r)) <= Cardinality(T)
        /\ Cardinality(T) = Cardinality(Before(r)) => T = Before(r)
    BY <2>1, FS_Subset
  <2>4. Cardinality(Before(r)) \in Nat
    BY <1>2
  <2> HIDE DEF Before
  <2> QED BY <1>1, <2>2, <2>3, <2>4
<1>6. place \in Injection(T, 1..Cardinality(T))
  <2>1. place \in [T -> 1..Cardinality(T)]
    BY <1>5
  <2>2. ASSUME NEW r \in T, NEW s \in T, place[r] = place[s]
        PROVE  r = s
    <3>1. Cardinality(Before(r)) \in Nat /\ Cardinality(Before(s)) \in Nat
      BY <1>2
    <3>2. Cardinality(Before(r)) + 1 = Cardinality(Before(s)) + 1
      BY <2>2
    <3> HIDE DEF Before
    <3>3. Cardinality(Before(r)) = Cardinality(Before(s))
      BY <3>1, <3>2
    <3> QED BY <1>4, <3>3
  <2> HIDE DEF place
  <2> QED BY <2>1, <2>2 DEF Injection, IsInjective
<1>7. IsFiniteSet(1..Cardinality(T)) /\ Cardinality(1..Cardinality(T)) = Cardinality(T)
  BY <1>1, FS_Interval
<1>8. place \in Surjection(T, 1..Cardinality(T))
  <2> HIDE DEF place
  <2> QED BY <1>6, <1>7, FS_Injection
<1>9. ASSUME NEW k \in 1..Cardinality(T)
      PROVE  \E r \in T : Cardinality(Before(r)) = k - 1
  <2>1. PICK r \in T : place[r] = k
    BY <1>8 DEF Surjection
  <2>2. Cardinality(Before(r)) + 1 = k
    BY <2>1
  <2>3. Cardinality(Before(r)) \in Nat
    BY <1>2
  <2>4. k \in Int
    BY <1>1
  <2> HIDE DEF Before
  <2>5. Cardinality(Before(r)) = k - 1
    BY <2>2, <2>3, <2>4
  <2> QED BY <2>5
<1>10. \A r \in T : Cardinality(Before(r)) \in Nat
                   /\ Cardinality(Before(r)) < Cardinality(T)
  <2> HIDE DEF Before
  <2> QED BY <1>1, <1>2, <1>5
<1> QED BY <1>3, <1>4, <1>9, <1>10 DEF Numbered, Place

\* No row is ahead of itself.
LEMMA AheadIrreflexive ==
    ASSUME NEW sort, NEW r \in Row
    PROVE  ~Ahead(sort, r, r)
BY RowTypes DEF Ahead, Faster, Higher, Arrived

\* How many rows of top are ahead of r.
AheadOf(sort, top, r) == Cardinality({x \in top : Ahead(sort, x, r)})

\* Counting the rows ahead numbers the rows of any part of the table.
LEMMA BoardPlaces ==
    ASSUME Inv, NEW sort, NEW top, top \subseteq rows
    PROVE  /\ IsFiniteSet(top) /\ Cardinality(top) \in Nat
           /\ \A r \in top : /\ AheadOf(sort, top, r) \in Nat
                             /\ AheadOf(sort, top, r) < Cardinality(top)
           /\ \A r, s \in top :
                  AheadOf(sort, top, r) = AheadOf(sort, top, s) => r = s
           /\ \A r, s \in top :
                  Ahead(sort, r, s) => AheadOf(sort, top, r) < AheadOf(sort, top, s)
           /\ \A k \in 1..Cardinality(top) :
                  \E r \in top : AheadOf(sort, top, r) = k - 1
<1> DEFINE R == {z \in top \X top : Ahead(sort, z[1], z[2])}
<1>1. IsFiniteSet(top) /\ Cardinality(top) \in Nat
  BY FS_Subset, FS_CardinalityType DEF Inv
<1>2. \A r, s \in top : <<r, s>> \in R <=> Ahead(sort, r, s)
  OBVIOUS
<1>3. top \subseteq Row /\ \A r, s \in top : r # s => r.id # s.id
  BY DEF Inv, TypeOK, UniqueIds
<1> HIDE DEF R
<1>4. StrictOrder(top, R)
  BY <1>2, <1>3, AheadIrreflexive, AheadTotal, AheadTransitive DEF StrictOrder
<1>5. Numbered(top, R)
  BY <1>1, <1>4, Places
<1>6. \A r \in top : Place(top, R, r) = AheadOf(sort, top, r)
  <2>1. \A r \in top : {x \in top : <<x, r>> \in R} = {x \in top : Ahead(sort, x, r)}
    BY <1>2
  <2> QED BY <2>1 DEF Place, AheadOf
<1> QED BY <1>1, <1>2, <1>5, <1>6 DEF Numbered

\* The entries of a board are rows, one for a player.
LEMMA OneEntryEach ==
    ASSUME Inv, NEW board, NEW since, NEW sort
    PROVE  /\ Entries(rows, board, since, sort) \subseteq rows
           /\ \A r, s \in Entries(rows, board, since, sort) :
                  r.player = s.player => r = s
<1>1. Entries(rows, board, since, sort) \subseteq rows
  BY DEF Entries, OnBoard
<1>2. ASSUME NEW r \in Entries(rows, board, since, sort),
             NEW s \in Entries(rows, board, since, sort),
             r.player = s.player, r # s
      PROVE  FALSE
  <2>1. Ahead(sort, r, s) /\ Ahead(sort, s, r)
    BY <1>2 DEF Entries
  <2>2. r \in Row /\ s \in Row
    BY <1>1 DEF Inv, TypeOK
  <2> QED BY <2>1, <2>2, AheadTransitive, AheadIrreflexive
<1> QED BY <1>1, <1>2

\* The rank of an entry is its place; no rank means no entry.
LEMMA RankIsPlace ==
    ASSUME Inv, NEW source, NEW p
    PROVE  LET top == Entries(rows, source, 0, "fastest") IN
           /\ \A r \in top : r.player = p =>
                  Rank(source, p) = AheadOf("fastest", top, r) + 1
           /\ (\A r \in top : r.player # p) => Rank(source, p) = 0
<1> DEFINE top  == Entries(rows, source, 0, "fastest")
           mine == {r \in top : r.player = p}
<1>1. ASSUME NEW r \in top, r.player = p
      PROVE  Rank(source, p) = AheadOf("fastest", top, r) + 1
  <2> DEFINE before == {x \in top : Ahead("fastest", x, r)}
  <2>1. mine = {r}
    BY <1>1, OneEntryEach
  <2>2. top \subseteq Row /\ \A s \in top : s # r => s.id # r.id
    BY OneEntryEach DEF Inv, TypeOK, UniqueIds
  <2>3. {s \in top : \E z \in mine : ~Ahead("fastest", z, s)} = before \cup {r}
    <3>1. ASSUME NEW s \in top
          PROVE  ~Ahead("fastest", r, s) <=> Ahead("fastest", s, r) \/ s = r
      BY <2>2, AheadIrreflexive, AheadTotal, AheadTransitive
    <3> QED BY <2>1, <3>1
  <2>4. IsFiniteSet(before) /\ r \notin before
    <3>1. IsFiniteSet(top)
      BY OneEntryEach, BoardPlaces
    <3> QED BY <2>2, <3>1, FS_Subset, AheadIrreflexive
  <2>5. Cardinality(before \cup {r}) = Cardinality(before) + 1
    BY <2>4, FS_AddElement
  <2>6. Rank(source, p) = Cardinality({s \in top : \E z \in mine : ~Ahead("fastest", z, s)})
    BY <2>1 DEF Rank
  <2> QED BY <2>3, <2>5, <2>6 DEF AheadOf
<1>2. ASSUME \A r \in top : r.player # p
      PROVE  Rank(source, p) = 0
  BY <1>2 DEF Rank
<1> QED BY <1>1, <1>2

\* A board is full up to the limit, and its i-th row is the entry with i - 1
\* ahead of it.
LEMMA BoardRows ==
    ASSUME Inv, NEW board, NEW window, NEW sort
    PROVE  LET top == Entries(rows, board, Since(window), sort) IN
           /\ \A i \in DOMAIN Board(board, window, sort) :
                  Board(board, window, sort)[i] \in top
           /\ \A r \in top : AheadOf(sort, top, r) + 1 <= Limit =>
                  /\ AheadOf(sort, top, r) + 1 \in DOMAIN Board(board, window, sort)
                  /\ Board(board, window, sort)[AheadOf(sort, top, r) + 1] = r
<1> DEFINE top  == Entries(rows, board, Since(window), sort)
           size == AtMost(Limit, Cardinality(top))
           at(i) == CHOOSE r \in top : AheadOf(sort, top, r) = i - 1
<1>1. /\ IsFiniteSet(top) /\ Cardinality(top) \in Nat
      /\ \A r \in top : /\ AheadOf(sort, top, r) \in Nat
                        /\ AheadOf(sort, top, r) < Cardinality(top)
      /\ \A r, s \in top :
             AheadOf(sort, top, r) = AheadOf(sort, top, s) => r = s
      /\ \A k \in 1..Cardinality(top) :
             \E r \in top : AheadOf(sort, top, r) = k - 1
  BY OneEntryEach, BoardPlaces
<1>2. Board(board, window, sort) = [i \in 1..size |-> at(i)]
  BY DEF Board, AheadOf
<1> HIDE DEF top
<1>3. size \in Nat /\ size <= Cardinality(top)
      /\ \A n \in Nat : n <= Limit /\ n <= Cardinality(top) => n <= size
  BY <1>1, BoundsAssumption DEF AtMost
<1>4. \A i \in 1..size : at(i) \in top /\ AheadOf(sort, top, at(i)) = i - 1
  <2> SUFFICES ASSUME NEW i \in 1..size
               PROVE  at(i) \in top /\ AheadOf(sort, top, at(i)) = i - 1
    OBVIOUS
  <2>1. i \in 1..Cardinality(top)
    BY <1>1, <1>3
  <2>2. \E r \in top : AheadOf(sort, top, r) = i - 1
    BY <1>1, <2>1
  <2> QED BY <2>2
<1> HIDE DEF size, at
<1>5. ASSUME NEW r \in top, AheadOf(sort, top, r) + 1 <= Limit
      PROVE  /\ AheadOf(sort, top, r) + 1 \in 1..size
             /\ at(AheadOf(sort, top, r) + 1) = r
  <2>1. AheadOf(sort, top, r) + 1 \in 1..size
    BY <1>1, <1>3, <1>5
  <2>2. PICK i \in 1..size : i = AheadOf(sort, top, r) + 1
    BY <2>1
  <2>3. at(i) \in top /\ AheadOf(sort, top, at(i)) = AheadOf(sort, top, r)
    BY <1>1, <1>4, <2>2
  <2> QED BY <1>1, <2>1, <2>2, <2>3
<1> QED BY <1>2, <1>4, <1>5 DEF top

\* A profile's row of a source is the player's row of its sort=score board.
LEMMA BestsAreEntries ==
    ASSUME Inv, NEW source \in Sources, NEW p \in Players
    PROVE  {r \in Bests(p) : r.source = source}
               = {r \in Entries(rows, source, 0, "score") : r.player = p}
<1>1. source # All /\ \A r \in rows : r.at >= 0
  BY SourcesAssumption DEF Inv, TypeOK, Row
<1>2. \A r \in rows : r \in OnBoard(rows, source) <=> r.source = source
  BY <1>1 DEF OnBoard
<1>3. ASSUME NEW r
      PROVE  r \in Bests(p) /\ r.source = source
                <=> r \in Entries(rows, source, 0, "score") /\ r.player = p
  <2>1. r \in Entries(rows, source, 0, "score") <=>
           /\ r \in rows /\ r.source = source /\ Qualified(r)
           /\ \A s \in rows : /\ s.source = source /\ Qualified(s) /\ s # r
                             /\ s.player = r.player => Ahead("score", r, s)
    BY <1>1, <1>2 DEF Entries, OnBoard
  <2>2. r \in Bests(p) <=>
           /\ r \in rows /\ r.player = p /\ Qualified(r)
           /\ \A s \in rows : /\ s.player = p /\ Qualified(s) /\ s # r
                             /\ s.source = r.source => Ahead("score", r, s)
    BY DEF Bests
  <2> QED BY <2>1, <2>2
<1> QED BY <1>3

\* What a submitter is told is what readers see.
THEOREM BoardsAgreeInvariant == Spec => []BoardsAgree
<1>1. Inv => BoardsAgree
  <2> SUFFICES ASSUME Inv, NEW source \in Sources, NEW p \in Players
               PROVE  LET board == Board(source, "all", "fastest")
                          rank  == Rank(source, p)
                      IN  /\ rank \in 1..Limit =>
                                 rank \in DOMAIN board /\ board[rank].player = p
                          /\ rank = 0 => \A i \in DOMAIN board : board[i].player # p
                          /\ rank <= PlayerCount(source, "all")
                          /\ {r \in Bests(p) : r.source = source}
                               = {r \in Entries(rows, source, 0, "score") : r.player = p}
    BY DEF BoardsAgree
  <2> DEFINE top   == Entries(rows, source, 0, "fastest")
             board == Board(source, "all", "fastest")
             rank  == Rank(source, p)
  <2>1. Since("all") = 0
    BY DEF Since
  <2>2. /\ \A i \in DOMAIN board : board[i] \in top
        /\ \A r \in top : AheadOf("fastest", top, r) + 1 <= Limit =>
               /\ AheadOf("fastest", top, r) + 1 \in DOMAIN board
               /\ board[AheadOf("fastest", top, r) + 1] = r
    BY <2>1, BoardRows
  <2>3. /\ Cardinality(top) \in Nat
        /\ \A r \in top : /\ AheadOf("fastest", top, r) \in Nat
                          /\ AheadOf("fastest", top, r) < Cardinality(top)
    BY OneEntryEach, BoardPlaces
  <2>4. PlayerCount(source, "all") = Cardinality(top)
    BY <2>1 DEF PlayerCount
  <2>5. {r \in Bests(p) : r.source = source}
            = {r \in Entries(rows, source, 0, "score") : r.player = p}
    BY BestsAreEntries
  <2>6. CASE \E r \in top : r.player = p
    <3>1. PICK r \in top : r.player = p
      BY <2>6
    <3>2. rank = AheadOf("fastest", top, r) + 1
      BY <3>1, RankIsPlace
    <3> HIDE DEF top, board, rank
    <3>3. rank # 0 /\ rank <= Cardinality(top)
      BY <2>3, <3>2
    <3>4. rank \in 1..Limit => rank \in DOMAIN board /\ board[rank].player = p
      BY <2>2, <3>1, <3>2
    <3> QED BY <2>4, <2>5, <3>3, <3>4 DEF rank, board
  <2>7. CASE \A r \in top : r.player # p
    <3>1. rank = 0
      BY <2>7, RankIsPlace
    <3> HIDE DEF top, board, rank
    <3>2. 0 \notin 1..Limit /\ 0 <= Cardinality(top)
      BY <2>3, BoundsAssumption
    <3>3. \A i \in DOMAIN board : board[i].player # p
      BY <2>2, <2>7
    <3> QED BY <2>4, <2>5, <3>1, <3>2, <3>3 DEF rank, board
  <2> QED BY <2>6, <2>7
<1> QED BY <1>1, BoardInvariant, PTL

-----------------------------------------------------------------------------
(* The backing rule, twice, and the population.                              *)

\* A sequence of numbers can be put in order.
LEMMA OrderExists ==
    ASSUME NEW a \in Seq(Nat)
    PROVE  \E f \in Orders(Len(a)) :
              \A i, j \in 1..Len(a) : i < j => a[f[i]] <= a[f[j]]
<1> DEFINE n == Len(a)
<1>1. n \in Nat /\ \A i \in 1..n : a[i] \in Nat /\ i \in Nat
  OBVIOUS
<1> HIDE DEF n
<1> DEFINE D == 1..n
           Before(i, j) == a[i] < a[j] \/ (a[i] = a[j] /\ i < j)
           R == {z \in D \X D : Before(z[1], z[2])}
<1>2. \A i, j \in D : <<i, j>> \in R <=> Before(i, j)
  <2> HIDE DEF D, Before
  <2> QED OBVIOUS
<1>3. IsFiniteSet(1..n) /\ Cardinality(1..n) = n
  BY <1>1, FS_Interval
<1> HIDE DEF R
<1>4. StrictOrder(1..n, R)
  BY <1>1, <1>2 DEF StrictOrder
<1>5. Numbered(1..n, R)
  BY <1>3, <1>4, Places
<1> DEFINE f == [k \in 1..n |-> CHOOSE i \in 1..n : Place(1..n, R, i) = k - 1]
<1>6. \A k \in 1..n : f[k] \in 1..n /\ Place(1..n, R, f[k]) = k - 1
  <2> SUFFICES ASSUME NEW k \in 1..n
               PROVE  f[k] \in 1..n /\ Place(1..n, R, f[k]) = k - 1
    OBVIOUS
  <2>1. \E i \in 1..n : Place(1..n, R, i) = k - 1
    BY <1>3, <1>5 DEF Numbered
  <2> QED BY <2>1
<1>7. f \in [1..n -> 1..n]
  BY <1>6
<1> HIDE DEF f
<1>8. \A i, j \in 1..n : f[i] = f[j] => i = j
  BY <1>1, <1>6
<1>9. ASSUME NEW i \in 1..n, NEW j \in 1..n, i < j
      PROVE  a[f[i]] <= a[f[j]]
  <2>1. f[i] \in 1..n /\ f[j] \in 1..n
    BY <1>6
  <2>2. Place(1..n, R, f[i]) = i - 1 /\ Place(1..n, R, f[j]) = j - 1
    BY <1>6
  <2>3. i - 1 < j - 1 /\ i \in Nat /\ j \in Nat
    BY <1>1, <1>9
  <2>4. <<f[j], f[i]>> \in R => j - 1 < i - 1
    BY <1>5, <2>1, <2>2 DEF Numbered
  <2>5. <<f[j], f[i]>> \notin R
    BY <2>3, <2>4
  <2>6. a[f[i]] \in Nat /\ a[f[j]] \in Nat
    BY <1>1, <2>1
  <2>7. ~(a[f[j]] < a[f[i]])
    BY <1>2, <2>1, <2>5
  <2> QED BY <2>6, <2>7
<1> QED BY <1>7, <1>8, <1>9 DEF Orders, n

\* What slices.Sort leaves: the attempts again, in order.
LEMMA SortedIsOrdered ==
    ASSUME NEW t \in Trials
    PROVE  LET a == t.attempts
               n == Len(a)
           IN  \E f \in [1..n -> 1..n] :
                  /\ \A i \in 1..n : \E k \in 1..n : f[k] = i
                  /\ \A i, j \in 1..n : f[i] = f[j] => i = j
                  /\ Len(Sorted[a]) = n
                  /\ \A k \in 1..n : Sorted[a][k] = a[f[k]]
                  /\ \A i, j \in 1..n : i < j => Sorted[a][i] <= Sorted[a][j]
<1> DEFINE a == t.attempts
           n == Len(a)
           f == CHOOSE f \in Orders(n) : \A i, j \in 1..n : i < j => a[f[i]] <= a[f[j]]
<1>1. a \in Seq(Nat) /\ n \in Nat
  BY TrialsAssumption
<1>2. f \in Orders(n) /\ \A i, j \in 1..n : i < j => a[f[i]] <= a[f[j]]
  BY <1>1, OrderExists
<1>3. Sorted[a] = [i \in 1..n |-> a[f[i]]]
  BY DEF Sorted
<1> HIDE DEF f, a
<1>4. f \in [1..n -> 1..n] /\ \A i, j \in 1..n : f[i] = f[j] => i = j
  BY <1>2 DEF Orders
<1>5. \A i \in 1..n : \E k \in 1..n : f[k] = i
  <2> HIDE DEF n
  <2>1. f \in Injection(1..n, 1..n)
    BY <1>4 DEF Injection, IsInjective
  <2>2. f \in Surjection(1..n, 1..n)
    BY <1>1, <2>1, FS_Interval, FS_Injection
  <2> QED BY <2>2 DEF Surjection
<1>6. Len(Sorted[a]) = n
  BY <1>1, <1>3
<1>7. \A k \in 1..n : Sorted[a][k] = a[f[k]]
  BY <1>3
<1>8. \A i, j \in 1..n : i < j => Sorted[a][i] <= Sorted[a][j]
  BY <1>2, <1>7
<1> QED BY <1>4, <1>5, <1>6, <1>7, <1>8 DEF a

\* The two forms of the backing rule agree on every scored trial.
LEMMA GoAgreesWithSql ==
    ASSUME NEW t \in Trials
    PROVE  Qualifies(t.attempts) <=> Fastest[t] >= Threshold \/ Backed(t)
<1> DEFINE a == t.attempts
           n == Len(a)
           s == Sorted[a]
<1>1. /\ a \in Seq(Nat) /\ n \in Nat /\ 1 \in 1..n /\ a # <<>>
      /\ \A i \in 1..n : a[i] \in Nat
      /\ DOMAIN a = 1..n
  <2>1. a \in Seq(Nat) /\ Len(a) \in 1..3
    BY TrialsAssumption
  <2>2. n \in Nat /\ n >= 1 /\ DOMAIN a = 1..n
    BY <2>1
  <2>3. \A i \in 1..n : a[i] \in Nat
    BY <2>1
  <2>4. 1 \in 1..n
    BY <2>2
  <2>5. a # <<>>
    BY <2>2
  <2> QED BY <2>1, <2>2, <2>3, <2>4, <2>5
<1>2. PICK f \in [1..n -> 1..n] :
         /\ \A i \in 1..n : \E k \in 1..n : f[k] = i
         /\ \A i, j \in 1..n : f[i] = f[j] => i = j
         /\ Len(s) = n
         /\ \A k \in 1..n : s[k] = a[f[k]]
         /\ \A i, j \in 1..n : i < j => s[i] <= s[j]
  BY SortedIsOrdered
<1> HIDE DEF s
<1>3. Within \in Nat /\ Threshold \in Nat
  BY BoundsAssumption
<1>4. Fastest[t] = s[1] /\ s[1] \in Nat
  <2>1. Range(a) = {a[i] : i \in 1..n}
    BY <1>1 DEF Range
  <2>2. s[1] \in Range(a) /\ s[1] \in Nat
    <3>1. s[1] = a[f[1]] /\ f[1] \in 1..n
      BY <1>1, <1>2
    <3> QED BY <1>1, <2>1, <3>1
  <2>3. \A b \in Range(a) : s[1] <= b
    <3> SUFFICES ASSUME NEW i \in 1..n
                 PROVE  s[1] <= a[i]
      BY <2>1
    <3>1. PICK k \in 1..n : f[k] = i
      BY <1>2
    <3>2. s[k] = a[i]
      BY <1>2, <3>1
    <3>3. k = 1 \/ 1 < k
      BY <1>1
    <3>4. CASE k = 1
      BY <2>2, <3>2, <3>4
    <3>5. CASE 1 < k
      BY <1>1, <1>2, <3>2, <3>5
    <3> QED BY <3>3, <3>4, <3>5
  <2>4. Range(a) \subseteq Nat
    BY <1>1, <2>1
  <2>5. \A c \in Range(a) : (\A b \in Range(a) : c <= b) => c = s[1]
    BY <2>2, <2>3, <2>4
  <2>6. Fastest[t] = CHOOSE c \in Range(a) : \A b \in Range(a) : c <= b
    BY DEF Fastest
  <2> HIDE DEF a
  <2> QED BY <2>2, <2>3, <2>5, <2>6
<1>5. Backed(t) <=> \E i, j \in 1..n : /\ i # j /\ a[i] = s[1]
                                       /\ a[j] <= s[1] + Within
  BY <1>1, <1>4 DEF Backed
<1>6. ASSUME n >= 2, s[2] <= s[1] + Within
      PROVE  \E i, j \in 1..n : i # j /\ a[i] = s[1] /\ a[j] <= s[1] + Within
  <2>1. 1 \in 1..n /\ 2 \in 1..n
    BY <1>1, <1>6
  <2>2. f[1] # f[2] /\ f[1] \in 1..n /\ f[2] \in 1..n
    <3>1. f[1] = f[2] => 1 = 2
      BY <1>2, <2>1
    <3>2. f[1] \in 1..n /\ f[2] \in 1..n
      BY <2>1
    <3> QED BY <3>1, <3>2
  <2>3. a[f[1]] = s[1] /\ a[f[2]] = s[2]
    BY <1>2, <2>1
  <2> QED BY <1>6, <2>2, <2>3
<1>7. ASSUME NEW i \in 1..n, NEW j \in 1..n, i # j,
             a[i] = s[1], a[j] <= s[1] + Within
      PROVE  n >= 2 /\ s[2] <= s[1] + Within
  <2>1. PICK k \in 1..n, l \in 1..n : f[k] = i /\ f[l] = j
    BY <1>2
  <2>2. k # l /\ s[k] = s[1] /\ s[l] = a[j]
    BY <1>2, <1>7, <2>1
  <2>3. n >= 2 /\ 2 \in 1..n /\ s[2] \in Nat
    <3>1. n >= 2 /\ 2 \in 1..n
      BY <1>1, <2>2
    <3> QED BY <1>1, <1>2, <3>1
  <2>4. \A m \in 1..n : m >= 2 => s[2] <= s[m] /\ s[m] \in Nat
    <3> SUFFICES ASSUME NEW m \in 1..n, m >= 2
                 PROVE  s[2] <= s[m] /\ s[m] \in Nat
      OBVIOUS
    <3>1. s[m] \in Nat
      BY <1>1, <1>2
    <3>2. m = 2 \/ 2 < m
      BY <1>1
    <3>3. 2 < m => s[2] <= s[m]
      BY <1>2, <2>3
    <3> QED BY <2>3, <3>1, <3>2, <3>3
  <2>5. CASE l >= 2
    <3>1. s[2] <= s[l] /\ s[l] \in Nat
      BY <2>4, <2>5
    <3> QED BY <1>3, <1>4, <1>7, <2>2, <2>3, <3>1
  <2>6. CASE l = 1
    <3>1. k >= 2
      BY <2>2, <2>6
    <3>2. s[2] <= s[1]
      BY <2>2, <2>4, <3>1
    <3> QED BY <1>3, <1>4, <2>3, <3>2
  <2> QED BY <2>5, <2>6
<1>8. Backed(t) <=> n >= 2 /\ s[2] <= s[1] + Within
  BY <1>5, <1>6, <1>7
<1>9. Qualifies(a) <=> s[1] >= Threshold \/ (n >= 2 /\ s[2] <= s[1] + Within)
  BY <1>1, <1>2 DEF Qualifies, s
<1> QED BY <1>4, <1>8, <1>9

\* A player with a qualified row of a board since an instant has an entry
\* there, under either sort: the row none of the player's is ahead of.
LEMMA LeaderExists ==
    ASSUME Inv, NEW board, NEW since, NEW sort, NEW r \in OnBoard(rows, board),
           r.at >= since, Qualified(r)
    PROVE  \E s \in Entries(rows, board, since, sort) : s.player = r.player
<1> DEFINE pool == {x \in OnBoard(rows, board) : x.at >= since /\ Qualified(x)}
           mine == {x \in pool : x.player = r.player}
<1>1. mine \subseteq rows /\ r \in mine
  BY DEF OnBoard
<1>2. /\ IsFiniteSet(mine) /\ Cardinality(mine) \in Nat
      /\ \A x \in mine : AheadOf(sort, mine, x) \in Nat
      /\ \A x, y \in mine :
             Ahead(sort, x, y) => AheadOf(sort, mine, x) < AheadOf(sort, mine, y)
      /\ \A k \in 1..Cardinality(mine) :
             \E x \in mine : AheadOf(sort, mine, x) = k - 1
  <2> HIDE DEF mine
  <2> QED BY <1>1, BoardPlaces
<1>3. PICK s \in mine : AheadOf(sort, mine, s) = 0
  <2> HIDE DEF mine
  <2>1. Cardinality(mine) # 0
    BY <1>1, <1>2, FS_EmptySet
  <2>2. PICK k \in 1..Cardinality(mine) : k = 1
    BY <1>2, <2>1
  <2>3. \E x \in mine : AheadOf(sort, mine, x) = k - 1
    BY <1>2
  <2> QED BY <2>2, <2>3
<1>4. ASSUME NEW x \in pool \ {s}, x.player = s.player
      PROVE  Ahead(sort, s, x)
  <2>1. x \in mine
    BY <1>3, <1>4
  <2>2. ~Ahead(sort, x, s)
    <3> HIDE DEF mine
    <3> QED BY <1>2, <1>3, <2>1
  <2>3. x \in Row /\ s \in Row /\ x.id # s.id
    BY <1>1, <1>3, <1>4, <2>1 DEF Inv, TypeOK, UniqueIds
  <2> QED BY <2>2, <2>3, AheadTotal
<1>5. s \in Entries(rows, board, since, sort)
  BY <1>3, <1>4 DEF Entries
<1> QED BY <1>3, <1>5

\* The players a board ranks are those with a qualified row there.
LEMMA RankedPlayers ==
    ASSUME Inv, NEW board, NEW since, NEW sort
    PROVE  {r.player : r \in Entries(rows, board, since, sort)}
               = {p \in Players : \E r \in OnBoard(rows, board) :
                      r.player = p /\ r.at >= since /\ Qualified(r)}
<1> DEFINE E == Entries(rows, board, since, sort)
<1>1. ASSUME NEW r \in E
      PROVE  /\ r \in OnBoard(rows, board) /\ r.at >= since /\ Qualified(r)
             /\ r.player \in Players
  <2>1. r \in OnBoard(rows, board) /\ r.at >= since /\ Qualified(r)
    BY DEF Entries
  <2>2. r \in Row
    BY <2>1 DEF OnBoard, Inv, TypeOK
  <2> QED BY <2>1, <2>2 DEF Row
<1>2. \A r \in OnBoard(rows, board) : r.at >= since /\ Qualified(r) =>
          \E s \in E : s.player = r.player
  BY LeaderExists
<1> HIDE DEF E
<1> QED BY <1>1, <1>2 DEF E

\* So their number is the number of entries.
LEMMA EntriesCountPlayers ==
    ASSUME Inv, NEW board, NEW since, NEW sort
    PROVE  Cardinality(Entries(rows, board, since, sort))
               = Cardinality({r.player : r \in Entries(rows, board, since, sort)})
<1> DEFINE E == Entries(rows, board, since, sort)
           P == {r.player : r \in E}
           f == [r \in E |-> r.player]
<1>1. IsFiniteSet(E)
  BY OneEntryEach, BoardPlaces
<1>2. \A r, s \in E : r.player = s.player => r = s
  BY OneEntryEach
<1> HIDE DEF E
<1>3. f \in Surjection(E, P) /\ f \in Injection(E, P)
  BY <1>2 DEF Surjection, Injection, IsInjective
<1> HIDE DEF f, P
<1>4. Cardinality(P) = Cardinality(E)
  BY <1>1, <1>3, FS_Surjection
<1> QED BY <1>4 DEF E, P

\* The population is what the backing rule says, in the form no board uses,
\* and the same under both sorts.
THEOREM PopulationAgreesInvariant == Spec => []PopulationAgrees
<1>1. Inv => PopulationAgrees
  <2> SUFFICES ASSUME Inv, NEW board \in Boards, NEW window \in {"all", "30d"}
               PROVE  LET ranking == {p \in Players : \E r \in OnBoard(rows, board) :
                                         /\ r.player = p
                                         /\ r.at >= Since(window)
                                         /\ \/ r.at < BackingSince
                                            \/ Qualifies(r.trial.attempts)}
                      IN  /\ PlayerCount(board, window) = Cardinality(ranking)
                          /\ ranking = {r.player :
                                 r \in Entries(rows, board, Since(window), "score")}
    BY DEF PopulationAgrees
  <2> DEFINE since == Since(window)
             ranking == {p \in Players : \E r \in OnBoard(rows, board) :
                             /\ r.player = p /\ r.at >= since
                             /\ \/ r.at < BackingSince
                                \/ Qualifies(r.trial.attempts)}
             ranked == {p \in Players : \E r \in OnBoard(rows, board) :
                             r.player = p /\ r.at >= since /\ Qualified(r)}
  <2>1. \A r \in OnBoard(rows, board) :
            Qualified(r) <=> r.at < BackingSince \/ Qualifies(r.trial.attempts)
    <3> SUFFICES ASSUME NEW r \in OnBoard(rows, board)
                 PROVE  Qualified(r) <=> \/ r.at < BackingSince
                                         \/ Qualifies(r.trial.attempts)
      OBVIOUS
    <3>1. r.trial \in Trials
      BY DEF OnBoard, Inv, TypeOK, Row
    <3> QED BY <3>1, GoAgreesWithSql DEF Qualified
  <2>2. ranking = ranked
    BY <2>1
  <2>3. /\ {r.player : r \in Entries(rows, board, since, "score")} = ranked
        /\ {r.player : r \in Entries(rows, board, since, "fastest")} = ranked
    BY RankedPlayers
  <2>4. PlayerCount(board, window)
            = Cardinality({r.player : r \in Entries(rows, board, since, "fastest")})
    BY EntriesCountPlayers DEF PlayerCount
  <2> HIDE DEF ranked
  <2> QED BY <2>2, <2>3, <2>4
<1> QED BY <1>1, BoardInvariant, PTL

=============================================================================
