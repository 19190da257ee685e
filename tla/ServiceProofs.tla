--------------------------- MODULE ServiceProofs ---------------------------
(***************************************************************************)
(* The board page shows what is selected and asks for nothing that is      *)
(* refused, for any set of drills and any number of requests on their way; *)
(* a name the policy refuses is refused in every spelling a reader takes   *)
(* for the same, at any length and under any policy whose terms are        *)
(* upper-case and hold no digit that folds; and the parts of the process,  *)
(* side by side as MCService runs them, each behave as by themselves, so   *)
(* that what is proved of a part is proved of the service.                 *)
(***************************************************************************)
EXTENDS MCService, AccountsProofs, StoreProofs, AdmissionProofs, FiniteSetTheorems,
        SequenceTheorems, TLAPS

(***************************************************************************)
(* The inductive invariant: the newest request is for what is selected.    *)
(***************************************************************************)

NewestIsSelected ==
    \A request \in requested :
        request.generation = loadGeneration => request.url = Selected

PageInv == PageTypeOK /\ NewestIsSelected /\ PageFaithful

(***************************************************************************)
(* The composed requests.                                                  *)
(***************************************************************************)

\* A mode made valid for a drill stays as it is.
LEMMA DrillModeTwice ==
    ASSUME NEW d, NEW m \in Modes
    PROVE  DrillMode(d, m) \in Modes /\ DrillMode(d, DrillMode(d, m)) = DrillMode(d, m)
  BY DEF DrillMode, Modes

\* A view, a drill and a mode make a URL.
LEMMA UrlKnown ==
    ASSUME NEW v \in Views, NEW d \in Drills \cup {Reaction}, NEW m \in Modes
    PROVE  Url(v, d, m) \in Urls
  BY DEF Urls

\* A view, an activity and the mode that drillMode lets through are never
\* refused.
LEMMA UrlAccepted ==
    ASSUME NEW v \in Views, NEW d \in Drills \cup {Reaction}, NEW m \in Modes
    PROVE  ~BadRequest(Url(v, d, DrillMode(d, m)))
  <1> DEFINE dm == DrillMode(d, m)
  <1>1. dm = "arcade" => d # StackDrill
    BY DEF DrillMode
  <1> HIDE DEF dm
  <1>2. CASE d # Reaction
    <2> DEFINE u == [path |-> "drills", drill |-> d, mode |-> dm,
                     sort |-> IF v = "recent" THEN "recent" ELSE "top"]
    <2>1. Url(v, d, dm) = u
      BY <1>2 DEF Url
    <2>2. u.path = "drills" /\ u.drill = d /\ u.mode = dm /\ u.sort \in {"top", "recent"}
      OBVIOUS
    <2> HIDE DEF u
    <2> QED
      BY <1>1, <1>2, <2>1, <2>2 DEF BadRequest, dm
  <1>3. CASE d = Reaction /\ v = "recent"
    BY <1>3 DEF Url, BadRequest, dm
  <1>4. CASE d = Reaction /\ v # "recent"
    <2>1. Url(v, d, dm) = [path |-> "board", sort |-> v]
      BY <1>4 DEF Url
    <2> QED
      BY <1>4, <2>1 DEF BadRequest, Views, dm
  <1> QED
    BY <1>2, <1>3, <1>4

(***************************************************************************)
(* A choice that loads: whatever was selected and asked before, the newest *)
(* request is for what is selected now.                                    *)
(***************************************************************************)

\* A load of the board: a new generation, and a request of that generation.
LEMMA LoadStep ==
    ASSUME PageInv, NEW v \in Views, NEW d \in Drills \cup {Reaction}, NEW m \in Modes,
           view' = v, drill' = d, mode' \in Modes, DrillMode(d, mode') = DrillMode(d, m),
           Load(v, d, DrillMode(d, m)), UNCHANGED <<art, avatarWaiting>>
    PROVE  PageInv'
  <1> DEFINE url == Url(v, d, DrillMode(d, m))
             request == [generation |-> loadGeneration + 1, url |-> url]
  <1>1. /\ loadGeneration' = loadGeneration + 1 /\ loadGeneration < MaxLoads
        /\ requested' = requested \cup {request} /\ shown' = Loading
    BY DEF Load
  <1>2. Selected' = url
    BY DEF Selected
  <1>3. url \in Urls /\ ~BadRequest(url)
    BY UrlKnown, UrlAccepted, DrillModeTwice
  <1> HIDE DEF url
  <1>4. /\ loadGeneration \in 1..MaxLoads /\ MaxLoads \in Nat
        /\ requested \subseteq [generation : 1..loadGeneration, url : Urls]
        /\ avatarWaiting \subseteq 1..loadGeneration
    BY MaxLoadsAssumption DEF PageInv, PageTypeOK
  <1>5. request \in [generation : 1..loadGeneration', url : Urls]
    BY <1>1, <1>3, <1>4
  <1>6. requested' \subseteq [generation : 1..loadGeneration', url : Urls]
    BY <1>1, <1>4, <1>5
  <1>7. PageTypeOK'
    BY <1>1, <1>4, <1>6 DEF PageInv, PageTypeOK
  <1>8. NewestIsSelected'
    BY <1>1, <1>2, <1>4 DEF NewestIsSelected
  <1>9. ShowsSelection'
    <2>1. /\ request \in requested' /\ request.generation = loadGeneration'
          /\ request.url = Selected'
      BY <1>1, <1>2
    <2>2. shown'.what = "loading"
      BY <1>1 DEF Loading
    <2> QED
      BY <2>1, <2>2 DEF ShowsSelection
  <1>10. NeverRefused'
    BY <1>1, <1>3 DEF PageInv, PageFaithful, NeverRefused
  <1>11. FacesPainted'
    BY <1>1 DEF PageInv, PageFaithful, FacesPainted, Loading
  <1> QED
    BY <1>7, <1>8, <1>9, <1>10, <1>11 DEF PageInv, PageFaithful

\* The page as it is opened keeps the invariant.
LEMMA PageInvInit == PageInit => PageInv
  <1> SUFFICES ASSUME PageInit PROVE PageInv
    OBVIOUS
  <1> DEFINE url == Url("recent", Reaction, "endless")
  <1>1. "recent" \in Views /\ "endless" \in Modes /\ DrillMode(Reaction, "endless") = "endless"
    BY DEF Views, Modes, DrillMode
  <1>2. url \in Urls /\ ~BadRequest(url)
    BY <1>1, UrlKnown, UrlAccepted
  <1>3. Selected = url
    BY <1>1 DEF PageInit, Selected
  <1> HIDE DEF url
  <1>4. /\ view = "recent" /\ drill = Reaction /\ mode = "endless" /\ loadGeneration = 1
        /\ requested = {[generation |-> 1, url |-> url]} /\ shown = Loading
        /\ art = "loading" /\ avatarWaiting = {}
    BY DEF PageInit, url
  <1>5. PageTypeOK
    BY <1>1, <1>2, <1>4, MaxLoadsAssumption DEF PageTypeOK
  <1>6. NewestIsSelected /\ ShowsSelection
    BY <1>3, <1>4 DEF NewestIsSelected, ShowsSelection, Loading
  <1>7. NeverRefused /\ FacesPainted
    BY <1>2, <1>4 DEF NeverRefused, FacesPainted, Loading
  <1> QED
    BY <1>5, <1>6, <1>7 DEF PageInv, PageFaithful

(***************************************************************************)
(* The answers and the art.                                                *)
(***************************************************************************)

\* What is selected stays; requests only go.
LEMMA RequestGoes ==
    ASSUME PageInv, NEW request \in requested,
           requested' = requested \ {request},
           UNCHANGED <<view, drill, mode, loadGeneration>>
    PROVE  /\ Selected' = Selected /\ NewestIsSelected' /\ NeverRefused'
           /\ requested' \subseteq [generation : 1..loadGeneration', url : Urls]
  BY DEF PageInv, PageTypeOK, PageFaithful, NewestIsSelected, NeverRefused, Selected

\* An answer that is not for the newest request changes nothing that shows.
LEMMA StaleStep ==
    ASSUME PageInv, NEW request \in requested, ~Latest(request),
           requested' = requested \ {request},
           UNCHANGED <<view, drill, mode, loadGeneration, shown, art, avatarWaiting>>
    PROVE  PageInv'
  <1>1. /\ Selected' = Selected /\ NewestIsSelected' /\ NeverRefused'
        /\ requested' \subseteq [generation : 1..loadGeneration', url : Urls]
    BY RequestGoes
  <1>2. PageTypeOK'
    BY <1>1 DEF PageInv, PageTypeOK
  <1>3. ShowsSelection'
    BY <1>1 DEF PageInv, PageFaithful, ShowsSelection, Latest
  <1> QED
    BY <1>1, <1>2, <1>3 DEF PageInv, PageFaithful, FacesPainted

\* A request is never answered: the board says that it is offline.
LEMMA OfflineStep ==
    ASSUME PageInv, NEW request \in requested,
           requested' = requested \ {request}, shown' = Offline,
           UNCHANGED <<view, drill, mode, loadGeneration, art, avatarWaiting>>
    PROVE  PageInv'
  <1>1. /\ Selected' = Selected /\ NewestIsSelected' /\ NeverRefused'
        /\ requested' \subseteq [generation : 1..loadGeneration', url : Urls]
    BY RequestGoes
  <1>2. PageTypeOK'
    BY <1>1 DEF PageInv, PageTypeOK
  <1> QED
    BY <1>1, <1>2 DEF PageInv, PageFaithful, ShowsSelection, FacesPainted, Offline

\* Tiles wait under the load that drew them while the art is on its way, and
\* under none once it is here.
LEMMA WaitingTiles ==
    ASSUME PageInv, NEW request \in requested,
           NEW what \in {"rows", "empty", "broken", "offer"},
           NEW tiles \in Waiting(what, request)
    PROVE  /\ tiles \subseteq 1..loadGeneration
           /\ art = "here" => tiles = {}
           /\ what = "rows" /\ art = "loading" => request.generation \in tiles
  <1>1. /\ request.generation \in 1..loadGeneration
        /\ avatarWaiting \subseteq 1..loadGeneration
        /\ art \in {"loading", "here", "failed"}
        /\ art = "here" => avatarWaiting = {}
    BY DEF PageInv, PageTypeOK, PageFaithful, FacesPainted
  <1> QED
    BY <1>1 DEF Waiting

\* Drawing what a request of the newest generation answered.
LEMMA DrawnStep ==
    ASSUME PageInv, NEW request \in requested, NEW answered \in Modes \cup {"none"},
           Latest(request), ~Wrong(answered),
           NEW what \in {"rows", "empty", "broken", "offer"},
           requested' = requested \ {request},
           shown' = Drawn(what, request, answered),
           avatarWaiting' \in Waiting(what, request),
           UNCHANGED <<view, drill, mode, loadGeneration, art>>
    PROVE  PageInv'
  <1>1. /\ Selected' = Selected /\ NewestIsSelected' /\ NeverRefused'
        /\ requested' \subseteq [generation : 1..loadGeneration', url : Urls]
    BY RequestGoes
  <1>2. /\ request \in [generation : 1..loadGeneration, url : Urls]
        /\ request.url = Selected
    BY DEF PageInv, PageTypeOK, NewestIsSelected, Latest
  <1>3. shown' = [what |-> what, url |-> request.url, mode |-> answered,
                  load |-> request.generation]
    BY DEF Drawn
  <1>4. /\ avatarWaiting' \subseteq 1..loadGeneration'
        /\ art' = "here" => avatarWaiting' = {}
        /\ what = "rows" /\ art' = "loading" => request.generation \in avatarWaiting'
    BY WaitingTiles
  <1>5. PageTypeOK'
    BY <1>1, <1>2, <1>3, <1>4 DEF PageInv, PageTypeOK
  <1>6. Selected.path = "drills" /\ Selected.mode = "arcade" => answered = "arcade"
    <2>1. drill = Reaction => Selected.path # "drills"
      BY DEF Selected, Url
    <2>2. drill # Reaction => Selected.mode = DrillMode(drill, mode)
      BY DEF Selected, Url
    <2> QED
      BY <2>1, <2>2 DEF Wrong
  <1>7. ShowsSelection'
    BY <1>1, <1>2, <1>3, <1>6 DEF ShowsSelection
  <1>8. FacesPainted'
    BY <1>3, <1>4 DEF FacesPainted
  <1> QED
    BY <1>1, <1>5, <1>7, <1>8 DEF PageInv, PageFaithful

\* An answer comes, drawn or dropped.
LEMMA AnsweredStep ==
    ASSUME PageInv, NEW request \in requested, NEW answered \in Modes \cup {"none"},
           Answered(request, answered)
    PROVE  PageInv'
  <1>1. /\ requested' = requested \ {request}
        /\ UNCHANGED <<view, drill, mode, loadGeneration, art>>
    BY DEF Answered
  <1>2. CASE ~Latest(request) /\ UNCHANGED <<shown, avatarWaiting>>
    BY <1>1, <1>2, StaleStep
  <1>3. CASE shown' = Offline /\ UNCHANGED avatarWaiting
    BY <1>1, <1>3, OfflineStep
  <1>4. CASE /\ Latest(request) /\ ~Wrong(answered)
             /\ \E what \in {"rows", "empty", "broken", "offer"} :
                   /\ shown' = Drawn(what, request, answered)
                   /\ avatarWaiting' \in Waiting(what, request)
    BY <1>1, <1>4, DrawnStep
  <1> QED
    BY <1>2, <1>3, <1>4 DEF Answered

\* A request fails, told or dropped.
LEMMA FailedStep == ASSUME PageInv, NEW request \in requested, Failed(request) PROVE PageInv'
  <1>1. /\ requested' = requested \ {request}
        /\ shown' = IF Latest(request) THEN Offline ELSE shown
        /\ UNCHANGED <<view, drill, mode, loadGeneration, art, avatarWaiting>>
    BY DEF Failed
  <1> QED
    BY <1>1, StaleStep, OfflineStep

\* The avatar art arrives, or never does.
LEMMA ArtStep == PageInv /\ (ArtLoaded \/ ArtFailed) => PageInv'
  <1> SUFFICES ASSUME PageInv, ArtLoaded \/ ArtFailed PROVE PageInv'
    OBVIOUS
  <1>1. /\ UNCHANGED <<view, drill, mode, loadGeneration, requested, shown>>
        /\ avatarWaiting' \subseteq avatarWaiting
        /\ \/ art' = "here" /\ avatarWaiting' = {}
           \/ art' = "failed"
    BY DEF ArtLoaded, ArtFailed
  <1>2. Selected' = Selected
    BY <1>1 DEF Selected
  <1>3. PageTypeOK'
    BY <1>1 DEF PageInv, PageTypeOK
  <1>4. NewestIsSelected' /\ ShowsSelection' /\ NeverRefused'
    BY <1>1, <1>2 DEF PageInv, PageFaithful, NewestIsSelected, ShowsSelection, NeverRefused
  <1>5. FacesPainted'
    BY <1>1 DEF FacesPainted
  <1> QED
    BY <1>3, <1>4, <1>5 DEF PageInv, PageFaithful

(***************************************************************************)
(* The reader's choices.                                                   *)
(***************************************************************************)

\* The reader chooses, reloads, or goes back.
Choice ==
    \/ \E v \in Views : ChooseView(v)
    \/ \E d \in Drills \cup {Reaction} : ChooseDrill(d)
    \/ \E m \in Modes : ChooseMode(m)
    \/ TakeOffer
    \/ Refresh

LEMMA ChoiceStep == ASSUME PageInv, Choice PROVE PageInv'
  <1>1. view \in Views /\ drill \in Drills \cup {Reaction} /\ mode \in Modes
    BY DEF PageInv, PageTypeOK
  <1>2. "score" \in Views
    BY DEF Views
  <1>3. ASSUME NEW v \in Views, view' = v, Load(v, drill, DrillMode(drill, mode)),
               UNCHANGED <<drill, mode, art, avatarWaiting>>
        PROVE  PageInv'
    BY <1>1, <1>3, LoadStep
  <1>4. ASSUME NEW v \in Views PROVE ChooseView(v) => PageInv'
    BY <1>3 DEF ChooseView
  <1>5. ASSUME NEW d \in Drills \cup {Reaction}, ChooseDrill(d) PROVE PageInv'
    <2>1. /\ drill' = d /\ mode' = DrillMode(d, mode)
          /\ Load(view', d, mode') /\ UNCHANGED <<art, avatarWaiting>>
          /\ view' \in Views
      BY <1>1, <1>2, <1>5 DEF ChooseDrill
    <2>2. mode' \in Modes /\ DrillMode(d, mode') = DrillMode(d, mode)
      BY <1>1, <2>1, DrillModeTwice
    <2> QED
      BY <1>1, <2>1, <2>2, LoadStep
  <1>6. ASSUME NEW m \in Modes, ChooseMode(m) PROVE PageInv'
    <2>1. /\ mode' = DrillMode(drill, m) /\ Load(view, drill, mode')
          /\ UNCHANGED <<view, drill, art, avatarWaiting>>
      BY <1>6 DEF ChooseMode
    <2>2. mode' \in Modes /\ DrillMode(drill, mode') = DrillMode(drill, m)
      BY <2>1, DrillModeTwice
    <2> QED
      BY <1>1, <2>1, <2>2, LoadStep
  <1>7. TakeOffer => PageInv'
    BY <1>2, <1>3 DEF TakeOffer
  <1>8. Refresh => PageInv'
    BY <1>1, <1>3 DEF Refresh
  <1> QED
    BY <1>4, <1>5, <1>6, <1>7, <1>8 DEF Choice

\* So every step keeps the invariant.
LEMMA PageInvStep == PageInv /\ [PageNext]_pageVars => PageInv'
  <1> SUFFICES ASSUME PageInv, [PageNext]_pageVars PROVE PageInv'
    OBVIOUS
  <1>1. CASE PageNext
    <2>1. CASE Choice
      BY <2>1, ChoiceStep
    <2>2. ASSUME NEW request \in requested, NEW answered \in Modes \cup {"none"},
                 Answered(request, answered)
          PROVE  PageInv'
      BY <2>2, AnsweredStep
    <2>3. ASSUME NEW request \in requested, Failed(request) PROVE PageInv'
      BY <2>3, FailedStep
    <2>4. CASE ArtLoaded \/ ArtFailed
      BY <2>4, ArtStep
    <2> QED
      BY <1>1, <2>1, <2>2, <2>3, <2>4 DEF PageNext, Choice
  <1>2. CASE UNCHANGED pageVars
    BY <1>2 DEF pageVars, PageInv, PageTypeOK, PageFaithful, NewestIsSelected, Selected,
                ShowsSelection, NeverRefused, FacesPainted
  <1> QED
    BY <1>1, <1>2

\* And it holds in every behaviour.
LEMMA PageInvHolds == PageSpec => []PageInv
  BY PageInvInit, PageInvStep, PTL DEF PageSpec

(***************************************************************************)
(* The theorems.                                                           *)
(***************************************************************************)

\* Every variable of the page's script keeps its shape.
THEOREM PageTypeCorrect == PageSpec => []PageTypeOK
  <1>1. PageInv => PageTypeOK
    BY DEF PageInv
  <1> QED
    BY <1>1, PageInvHolds, PTL

\* In every order of clicks, timer, answers, failures and the art, the page
\* shows the board that is selected, asks for none that is refused, and leaves
\* no face unpainted.
THEOREM PageFaithfulHolds == PageSpec => []PageFaithful
  <1>1. PageInv => PageFaithful
    BY DEF PageInv
  <1> QED
    BY <1>1, PageInvHolds, PTL

(***************************************************************************)
(* Names: what is typed is text.                                           *)
(***************************************************************************)

\* What a request may carry as a name is text.
THEOREM NamesTypeCorrect == NamesSpec => []NamesTypeOK
  <1>1. NamesInit => NamesTypeOK
    <2>1. <<>> \in Seq(Chars) /\ Len(<<>>) = 0
      OBVIOUS
    <2> QED BY <2>1, LengthsAssumption DEF NamesInit, NamesTypeOK
  <1>2. NamesTypeOK /\ [NamesNext]_typed => NamesTypeOK'
    <2> SUFFICES ASSUME NamesTypeOK, [NamesNext]_typed PROVE NamesTypeOK'
      OBVIOUS
    <2>1. ASSUME NEW c \in Chars, Type(c) PROVE NamesTypeOK'
      <3>1. typed \in Seq(Chars) /\ Len(typed) < MaxTyped /\ typed' = Append(typed, c)
        BY <2>1 DEF Type, NamesTypeOK
      <3>2. typed' \in Seq(Chars) /\ Len(typed') <= MaxTyped
        BY <3>1, LengthsAssumption
      <3> QED BY <3>2 DEF NamesTypeOK
    <2>2. CASE UNCHANGED typed
      BY <2>2 DEF NamesTypeOK
    <2> QED BY <2>1, <2>2 DEF NamesNext
  <1> QED BY <1>1, <1>2, PTL DEF NamesSpec

(***************************************************************************)
(* Names: choosing places of a sequence.                                   *)
(***************************************************************************)

\* K is a set of places in some sequence.
Placed(K) == \E n \in Nat : K \in SUBSET (1..n)

\* The place j takes among the places kept.
PlaceIn(kept, j) == Cardinality({k \in kept : k <= j})

\* The places kept are numbered in order, without gaps.
Counts(kept) ==
    /\ IsFiniteSet(kept) /\ Cardinality(kept) \in Nat
    /\ \A j \in kept : PlaceIn(kept, j) \in 1..Cardinality(kept)
    /\ \A j, k \in kept : j < k => PlaceIn(kept, j) < PlaceIn(kept, k)
    /\ \A m \in 1..Cardinality(kept) : \E j \in kept : PlaceIn(kept, j) = m

\* Counting what is no later numbers any finite set of places.
LEMMA PlacesCount ==
    ASSUME NEW kept, Placed(kept)
    PROVE  Counts(kept)
<1>n. PICK n \in Nat : kept \in SUBSET (1..n)
  BY DEF Placed
<1> DEFINE upTo(j) == {k \in kept : k <= j}
           place   == [j \in kept |-> Cardinality(upTo(j))]
<1>1. IsFiniteSet(kept) /\ Cardinality(kept) \in Nat
  <2>1. IsFiniteSet(1..n)
    BY FS_Interval
  <2> QED BY <1>n, <2>1, FS_Subset, FS_CardinalityType
<1>2. \A j \in kept : j \in Int /\ upTo(j) \in SUBSET kept /\ j \in upTo(j)
  <2>1. \A j \in kept : j \in Int
    BY <1>n
  <2> QED BY <2>1
<1>3. \A j \in kept : IsFiniteSet(upTo(j)) /\ Cardinality(upTo(j)) \in Nat
                      /\ Cardinality(upTo(j)) <= Cardinality(kept)
  BY <1>1, <1>2, FS_Subset, FS_CardinalityType
<1>4. ASSUME NEW j \in kept
      PROVE  Cardinality(upTo(j)) \in 1..Cardinality(kept)
  <2>1. upTo(j) # {}
    BY <1>2
  <2>2. Cardinality(upTo(j)) # 0
    BY <1>3, <2>1, FS_EmptySet
  <2> HIDE DEF upTo
  <2> QED BY <1>1, <1>3, <2>2
<1>5. ASSUME NEW j \in kept, NEW k \in kept, j < k
      PROVE  Cardinality(upTo(j)) < Cardinality(upTo(k))
  <2>1. upTo(j) \in SUBSET upTo(k) /\ k \in upTo(k) /\ k \notin upTo(j)
    <3>1. j \in Int /\ k \in Int /\ \A i \in kept : i \in Int
      BY <1>2
    <3>2. (\A i \in kept : i <= j => i <= k) /\ ~(k <= j) /\ k <= k
      BY <1>5, <3>1
    <3>3. upTo(j) \in SUBSET upTo(k)
      BY <3>2
    <3>4. k \in upTo(k) /\ k \notin upTo(j)
      BY <3>2
    <3> QED BY <3>3, <3>4
  <2>2. upTo(j) # upTo(k)
    BY <2>1
  <2>3. /\ Cardinality(upTo(j)) <= Cardinality(upTo(k))
        /\ Cardinality(upTo(k)) = Cardinality(upTo(j)) => upTo(k) = upTo(j)
    BY <1>3, <2>1, FS_Subset
  <2>4. Cardinality(upTo(j)) \in Nat /\ Cardinality(upTo(k)) \in Nat
    BY <1>3
  <2> HIDE DEF upTo
  <2> QED BY <2>2, <2>3, <2>4
<1>6. place \in Injection(kept, 1..Cardinality(kept))
  <2>1. place \in [kept -> 1..Cardinality(kept)]
    BY <1>4
  <2>2. ASSUME NEW j \in kept, NEW k \in kept, place[j] = place[k]
        PROVE  j = k
    <3>1. Cardinality(upTo(j)) = Cardinality(upTo(k))
      BY <2>2
    <3>2. Cardinality(upTo(j)) \in Nat /\ Cardinality(upTo(k)) \in Nat
      BY <1>3
    <3>3. j \in Int /\ k \in Int
      BY <1>2
    <3>4. ~(Cardinality(upTo(j)) < Cardinality(upTo(k)))
          /\ ~(Cardinality(upTo(k)) < Cardinality(upTo(j)))
      <4> HIDE DEF upTo
      <4> QED BY <3>1, <3>2
    <3>5. ~(j < k) /\ ~(k < j)
      BY <1>5, <3>4
    <3> QED BY <3>3, <3>5
  <2> HIDE DEF place
  <2> QED BY <2>1, <2>2 DEF Injection, IsInjective
<1>7. IsFiniteSet(1..Cardinality(kept)) /\ Cardinality(1..Cardinality(kept)) = Cardinality(kept)
  BY <1>1, FS_Interval
<1>8. place \in Surjection(kept, 1..Cardinality(kept))
  <2> HIDE DEF place
  <2> QED BY <1>6, <1>7, FS_Injection
<1>9. ASSUME NEW m \in 1..Cardinality(kept)
      PROVE  \E j \in kept : Cardinality(upTo(j)) = m
  <2>1. PICK j \in kept : place[j] = m
    BY <1>8 DEF Surjection
  <2> QED BY <2>1
<1> QED BY <1>1, <1>4, <1>5, <1>9 DEF Counts, PlaceIn

\* What is kept of a sequence stands at its place.
LEMMA KeptAt ==
    ASSUME NEW s, NEW kept, Placed(kept)
    PROVE  /\ Cardinality(kept) \in Nat
           /\ DOMAIN Kept(s, kept) = 1..Cardinality(kept)
           /\ Kept(s, kept) = [m \in 1..Cardinality(kept) |-> Kept(s, kept)[m]]
           /\ \A j \in kept : /\ PlaceIn(kept, j) \in 1..Cardinality(kept)
                              /\ Kept(s, kept)[PlaceIn(kept, j)] = s[j]
           /\ \A m \in 1..Cardinality(kept) : \E j \in kept : PlaceIn(kept, j) = m
<1>1. Counts(kept)
  BY PlacesCount
<1>2. \A j \in kept : j \in Int
  BY DEF Placed
<1>3. ASSUME NEW j \in kept
      PROVE  Kept(s, kept)[PlaceIn(kept, j)] = s[j]
  <2> DEFINE at == CHOOSE i \in kept : PlaceIn(kept, i) = PlaceIn(kept, j)
  <2>1. at \in kept /\ PlaceIn(kept, at) = PlaceIn(kept, j)
    OBVIOUS
  <2>2. PlaceIn(kept, j) \in 1..Cardinality(kept)
    BY <1>1 DEF Counts
  <2>3. Kept(s, kept)[PlaceIn(kept, j)] = s[at]
    BY <2>2 DEF Kept, PlaceIn
  <2> HIDE DEF at
  <2>4. PlaceIn(kept, j) \in Int /\ at \in Int /\ j \in Int
    BY <1>1, <1>2, <2>1, <2>2 DEF Counts
  <2>5. ~(at < j) /\ ~(j < at)
    BY <1>1, <2>1, <2>4 DEF Counts
  <2> QED BY <2>3, <2>4, <2>5
<1>4. DOMAIN Kept(s, kept) = 1..Cardinality(kept)
      /\ Kept(s, kept) = [m \in 1..Cardinality(kept) |-> Kept(s, kept)[m]]
  BY DEF Kept
<1> QED BY <1>1, <1>3, <1>4 DEF Counts

\* Places that correspond in their order and their characters make the same
\* sequence.
LEMMA SameKept ==
    ASSUME NEW s, NEW K, Placed(K), NEW t, NEW L, Placed(L),
           NEW f \in [K -> L],
           \A j, k \in K : j < k => f[j] < f[k],
           \A l \in L : \E j \in K : f[j] = l,
           \A j \in K : t[f[j]] = s[j]
    PROVE  Kept(s, K) = Kept(t, L)
<1>1. \A j \in K : j \in Int /\ f[j] \in L /\ f[j] \in Int
  <2>1. (\A j \in K : j \in Int) /\ (\A l \in L : l \in Int)
    BY DEF Placed
  <2>2. \A j \in K : f[j] \in L
    OBVIOUS
  <2> QED BY <2>1, <2>2
<1>2. \A j, k \in K : f[j] = f[k] => j = k
  BY <1>1
<1>3. \A j, k \in K : f[j] <= f[k] <=> j <= k
  BY <1>1
<1>4. Counts(K) /\ Counts(L)
  BY PlacesCount
<1>5. f \in Bijection(K, L)
  BY <1>2 DEF Bijection, Injection, Surjection, IsInjective
<1>6. Cardinality(L) = Cardinality(K)
  BY <1>4, <1>5, FS_Bijection DEF Counts, ExistsBijection
<1>7. ASSUME NEW j \in K
      PROVE  PlaceIn(L, f[j]) = PlaceIn(K, j)
  <2> DEFINE KK == {k \in K : k <= j}
             LL == {l \in L : l <= f[j]}
             g  == [k \in KK |-> f[k]]
  <2>1. g \in [KK -> LL] /\ \A k \in KK : g[k] = f[k] /\ k \in K
    BY <1>3
  <2>2. \A l \in LL : \E k \in KK : g[k] = l
    <3> TAKE l \in LL
    <3>1. PICK k \in K : f[k] = l
      OBVIOUS
    <3>2. k \in KK
      BY <1>3, <3>1
    <3> QED BY <3>1, <3>2
  <2>3. g \in Bijection(KK, LL)
    <3> HIDE DEF g, KK, LL
    <3> QED BY <1>2, <2>1, <2>2 DEF Bijection, Injection, Surjection, IsInjective
  <2>4. IsFiniteSet(KK)
    <3>1. KK \in SUBSET K
      OBVIOUS
    <3> QED BY <1>4, <3>1, FS_Subset DEF Counts
  <2>5. Cardinality(LL) = Cardinality(KK)
    <3> HIDE DEF g, KK, LL
    <3> QED BY <2>3, <2>4, FS_Bijection DEF ExistsBijection
  <2> QED BY <2>5 DEF PlaceIn
<1>8. ASSUME NEW m \in 1..Cardinality(K)
      PROVE  Kept(s, K)[m] = Kept(t, L)[m]
  <2>1. PICK j \in K : PlaceIn(K, j) = m
    BY <1>4 DEF Counts
  <2>2. Kept(s, K)[m] = s[j]
    BY <2>1, KeptAt
  <2>3. f[j] \in L /\ PlaceIn(L, f[j]) = m
    BY <1>7, <2>1
  <2>4. Kept(t, L)[PlaceIn(L, f[j])] = t[f[j]]
    BY <2>3, KeptAt
  <2> QED BY <2>2, <2>3, <2>4
<1>9. /\ Kept(s, K) = [m \in 1..Cardinality(K) |-> Kept(s, K)[m]]
      /\ Kept(t, L) = [m \in 1..Cardinality(L) |-> Kept(t, L)[m]]
  BY DEF Kept
<1> QED BY <1>6, <1>8, <1>9, Zenon

(***************************************************************************)
(* The policy's candidates.                                                *)
(***************************************************************************)

\* s as the policy sees it through its disguises: capital letters, digits folded.
Undisguised(s) == foldOtherDigits(Uppered(s))

\* Neither rewriting makes or removes a space, nor leaves the characters.
LEMMA Characters ==
    \A c \in Chars : /\ Upper(c) \in Chars /\ (Upper(c) = " " <=> c = " ")
                     /\ Fold(c) \in Chars /\ (Fold(c) = " " <=> c = " ")
  BY DEF Upper, Fold, Chars, Ascii, Small, Capitals, Folding, Plain, Wide, Blank, Symbol

\* Rewriting leaves the length and each place to itself.
LEMMA Rewritten ==
    ASSUME NEW s \in Seq(Chars)
    PROVE  /\ Len(s) \in Nat /\ DOMAIN s = 1..Len(s) /\ \A i \in 1..Len(s) : s[i] \in Chars
           /\ Uppered(s) \in Seq(Chars) /\ Len(Uppered(s)) = Len(s)
           /\ foldOtherDigits(s) \in Seq(Chars) /\ Len(foldOtherDigits(s)) = Len(s)
           /\ \A i \in 1..Len(s) :
                  Uppered(s)[i] = Upper(s[i]) /\ foldOtherDigits(s)[i] = Fold(s[i])
<1>1. Len(s) \in Nat /\ DOMAIN s = 1..Len(s) /\ \A i \in 1..Len(s) : s[i] \in Chars
  OBVIOUS
<1>2. \A i \in 1..Len(s) : Upper(s[i]) \in Chars /\ Fold(s[i]) \in Chars
  BY <1>1, Characters
<1>3. PICK n : n = Len(s)
  OBVIOUS
<1>4. /\ Uppered(s) = [i \in 1..n |-> Upper(s[i])]
      /\ foldOtherDigits(s) = [i \in 1..n |-> Fold(s[i])]
  BY <1>1, <1>3, Zenon DEF Uppered, foldOtherDigits
<1>5. Uppered(s) \in [1..n -> Chars] /\ foldOtherDigits(s) \in [1..n -> Chars]
  BY <1>2, <1>3, <1>4, Zenon
<1>6. n \in Nat
  BY <1>1, <1>3
<1>7. /\ Uppered(s) \in Seq(Chars) /\ Len(Uppered(s)) = n
      /\ foldOtherDigits(s) \in Seq(Chars) /\ Len(foldOtherDigits(s)) = n
  BY <1>5, <1>6
<1>8. \A i \in 1..n : Uppered(s)[i] = Upper(s[i]) /\ foldOtherDigits(s)[i] = Fold(s[i])
  BY <1>4, Zenon
<1> QED BY <1>1, <1>3, <1>7, <1>8

\* Rewriting and choosing places go together.
LEMMA RewritingKept ==
    ASSUME NEW s \in Seq(Chars), NEW K \in SUBSET DOMAIN s
    PROVE  /\ Kept(s, K) \in Seq(Chars)
           /\ Uppered(s) \in Seq(Chars) /\ foldOtherDigits(s) \in Seq(Chars)
           /\ Uppered(Kept(s, K)) = Kept(Uppered(s), K)
           /\ foldOtherDigits(Kept(s, K)) = Kept(foldOtherDigits(s), K)
<1> DEFINE n == Len(s)
<1>n. n = Len(s)
  OBVIOUS
<1>1. n \in Nat /\ DOMAIN s = 1..n /\ \A i \in 1..n : s[i] \in Chars
  BY Rewritten
<1>2. K \in SUBSET (1..n)
  BY <1>1
<1> HIDE DEF n
<1>3. Uppered(s) \in Seq(Chars) /\ foldOtherDigits(s) \in Seq(Chars)
      /\ \A i \in 1..n : Uppered(s)[i] = Upper(s[i]) /\ foldOtherDigits(s)[i] = Fold(s[i])
  BY <1>n, Rewritten
<1>3a. Placed(K)
  BY <1>1, <1>2 DEF Placed
<1>4. Cardinality(K) \in Nat
  BY <1>3a, KeptAt
<1>5. \A m \in 1..Cardinality(K) : \E j \in K :
          /\ j \in 1..n
          /\ Kept(s, K)[m] = s[j]
          /\ Kept(Uppered(s), K)[m] = Uppered(s)[j]
          /\ Kept(foldOtherDigits(s), K)[m] = foldOtherDigits(s)[j]
  <2> TAKE m \in 1..Cardinality(K)
  <2>1. PICK j \in K : PlaceIn(K, j) = m
    BY <1>3a, KeptAt
  <2> WITNESS j \in K
  <2> QED BY <1>1, <1>2, <1>3a, <2>1, KeptAt
<1>6. Kept(s, K) \in Seq(Chars)
  <2>1. \A m \in 1..Cardinality(K) : Kept(s, K)[m] \in Chars
    BY <1>1, <1>5
  <2>2. Kept(s, K) = [m \in 1..Cardinality(K) |-> Kept(s, K)[m]]
    BY DEF Kept
  <2>3. Kept(s, K) \in [1..Cardinality(K) -> Chars]
    BY <2>1, <2>2, Zenon
  <2> QED BY <1>4, <2>3
<1>7. /\ DOMAIN Kept(s, K) = 1..Cardinality(K)
      /\ Kept(Uppered(s), K) = [m \in 1..Cardinality(K) |-> Kept(Uppered(s), K)[m]]
      /\ Kept(foldOtherDigits(s), K)
             = [m \in 1..Cardinality(K) |-> Kept(foldOtherDigits(s), K)[m]]
  BY DEF Kept
<1>8. Uppered(Kept(s, K)) = [m \in 1..Cardinality(K) |-> Upper(Kept(s, K)[m])]
      /\ foldOtherDigits(Kept(s, K)) = [m \in 1..Cardinality(K) |-> Fold(Kept(s, K)[m])]
  BY <1>7, Zenon DEF Uppered, foldOtherDigits
<1>9. \A m \in 1..Cardinality(K) :
          /\ Kept(Uppered(s), K)[m] = Upper(Kept(s, K)[m])
          /\ Kept(foldOtherDigits(s), K)[m] = Fold(Kept(s, K)[m])
  BY <1>3, <1>5
<1> QED BY <1>3, <1>6, <1>7, <1>8, <1>9, Zenon

\* A term holds nothing that folding changes.
LEMMA TermsStay ==
    ASSUME NEW t \in Seq(Chars), t \in WholeTerms \cup TokenTerms \cup SubstringTerms
    PROVE  foldOtherDigits(t) = t
<1>1. \A i \in DOMAIN t : Fold(t[i]) = t[i]
  BY TermsAssumption DEF Fold, Capitals, Plain
<1>2. t = [i \in DOMAIN t |-> t[i]]
  OBVIOUS
<1> QED BY <1>1, <1>2, Zenon DEF foldOtherDigits

\* Folding a part is a part of the folded.
LEMMA FoldedPart ==
    ASSUME NEW c \in Seq(Chars), NEW i \in 1..Len(c), NEW j \in i..Len(c)
    PROVE  /\ SubSeq(c, i, j) \in Seq(Chars) /\ Len(SubSeq(c, i, j)) = j - i + 1
           /\ SubSeq(foldOtherDigits(c), i, j) = foldOtherDigits(SubSeq(c, i, j))
<1>1. Len(c) \in Nat /\ \A k \in 1..Len(c) : c[k] \in Chars
  OBVIOUS
<1>2. /\ foldOtherDigits(c) \in Seq(Chars) /\ Len(foldOtherDigits(c)) = Len(c)
      /\ \A k \in 1..Len(c) : foldOtherDigits(c)[k] = Fold(c[k])
  BY Rewritten
<1>3. i \in Int /\ j \in Int /\ i <= j /\ \A k \in i..j : k \in 1..Len(c)
  BY <1>1
<1>4. /\ SubSeq(c, i, j) \in Seq(Chars) /\ Len(SubSeq(c, i, j)) = j - i + 1
      /\ \A k \in 1..(j - i + 1) : SubSeq(c, i, j)[k] = c[i + k - 1]
  BY <1>1, <1>3, SubSeqProperties
<1>5. /\ SubSeq(foldOtherDigits(c), i, j) \in Seq(Chars)
      /\ Len(SubSeq(foldOtherDigits(c), i, j)) = j - i + 1
      /\ \A k \in 1..(j - i + 1) :
             SubSeq(foldOtherDigits(c), i, j)[k] = foldOtherDigits(c)[i + k - 1]
  <2>1. \A k \in i..j : foldOtherDigits(c)[k] \in Chars
    BY <1>2, <1>3
  <2> QED BY <1>3, <2>1, SubSeqProperties
<1>6. \A k \in 1..(j - i + 1) : i + k - 1 \in 1..Len(c)
  BY <1>1, <1>3
<1>7. \A k \in 1..(j - i + 1) :
          SubSeq(foldOtherDigits(c), i, j)[k] = Fold(SubSeq(c, i, j)[k])
  BY <1>2, <1>4, <1>5, <1>6
<1>8. /\ DOMAIN SubSeq(c, i, j) = 1..(j - i + 1)
      /\ SubSeq(foldOtherDigits(c), i, j)
             = [k \in 1..(j - i + 1) |-> SubSeq(foldOtherDigits(c), i, j)[k]]
  BY <1>4, <1>5
<1>9. foldOtherDigits(SubSeq(c, i, j)) = [k \in 1..(j - i + 1) |-> Fold(SubSeq(c, i, j)[k])]
  BY <1>8, Zenon DEF foldOtherDigits
<1> QED BY <1>4, <1>7, <1>8, <1>9, Zenon

\* What a candidate is refused for, the folded candidate is refused for.
LEMMA FoldedRejects ==
    ASSUME NEW c \in Seq(Chars), rejectsCandidate(c)
    PROVE  rejectsCandidate(foldOtherDigits(c))
<1> DEFINE d == foldOtherDigits(c)
<1>1. Len(c) \in Nat /\ \A k \in 1..Len(c) : c[k] \in Chars
  OBVIOUS
<1>2. /\ d \in Seq(Chars) /\ Len(d) = Len(c)
      /\ \A k \in 1..Len(c) : d[k] = Fold(c[k]) /\ (d[k] = " " <=> c[k] = " ")
  BY <1>1, Characters, Rewritten
<1>3. CASE c \in WholeTerms
  BY <1>3, TermsStay DEF rejectsCandidate
<1>4. CASE c \notin WholeTerms
  <2>1. PICK token \in Words(c) :
            \/ token \in TokenTerms
            \/ \E i \in 1..Len(token) : \E j \in i..Len(token) :
                  SubSeq(token, i, j) \in SubstringTerms
    BY <1>4 DEF rejectsCandidate
  <2>2. PICK u \in 1..Len(c), v \in 1..Len(c) :
            /\ token = SubSeq(c, u, v)
            /\ u <= v
            /\ \A k \in u..v : c[k] # " "
            /\ u = 1 \/ c[u - 1] = " "
            /\ v = Len(c) \/ c[v + 1] = " "
    BY <2>1 DEF Words
  <2>3. /\ Len(d) = Len(c) /\ v \in u..Len(c)
        /\ u \in Int /\ v \in Int /\ 1 <= u /\ u <= v /\ v <= Len(c)
    <3>1. Len(c) \in Int
      BY <1>1
    <3>2. u \in Int /\ v \in Int /\ 1 <= u /\ v <= Len(c)
      BY <3>1
    <3>3. u <= v
      BY <2>2, Zenon
    <3>4. v \in u..Len(c)
      BY <3>1, <3>2, <3>3
    <3>5. Len(d) = Len(c)
      BY <1>2, Zenon
    <3> HIDE DEF d
    <3> QED BY <3>2, <3>3, <3>4, <3>5
  <2>4. /\ token \in Seq(Chars)
        /\ SubSeq(d, u, v) = foldOtherDigits(token)
    BY <2>2, <2>3, FoldedPart
  <2>5. foldOtherDigits(token) \in Words(d)
    <3> HIDE DEF d
    <3>1. \A k \in u..v : d[k] # " "
      <4>1. \A k \in u..v : k \in 1..Len(c)
        BY <1>1, <2>3
      <4> QED BY <1>2, <2>2, <4>1
    <3>2. u = 1 \/ d[u - 1] = " "
      <4>1. u # 1 => u - 1 \in 1..Len(c)
        BY <1>1, <2>3
      <4> QED BY <1>2, <2>2, <4>1
    <3>3. v = Len(d) \/ d[v + 1] = " "
      <4>1. v # Len(c) => v + 1 \in 1..Len(c)
        BY <1>1, <2>3
      <4> QED BY <1>2, <2>2, <2>3, <4>1
    <3>4. <<u, v>> \in (1..Len(d)) \X (1..Len(d)) /\ u <= v
      BY <2>2, <2>3
    <3>5. \E w \in (1..Len(d)) \X (1..Len(d)) :
              /\ foldOtherDigits(token) = SubSeq(d, w[1], w[2])
              /\ w[1] <= w[2]
              /\ \A k \in w[1]..w[2] : d[k] # " "
              /\ w[1] = 1 \/ d[w[1] - 1] = " "
              /\ w[2] = Len(d) \/ d[w[2] + 1] = " "
      BY <2>4, <3>1, <3>2, <3>3, <3>4
    <3> QED BY <3>5 DEF Words
  <2>6. CASE token \in TokenTerms
    BY <2>4, <2>5, <2>6, TermsStay DEF rejectsCandidate
  <2>7. ASSUME NEW i \in 1..Len(token), NEW j \in i..Len(token),
               SubSeq(token, i, j) \in SubstringTerms
        PROVE  rejectsCandidate(d)
    <3>1. SubSeq(foldOtherDigits(token), i, j) = SubSeq(token, i, j)
      BY <2>4, <2>7, FoldedPart, TermsStay
    <3>2. Len(foldOtherDigits(token)) = Len(token)
      BY <2>4, Rewritten
    <3> HIDE DEF d
    <3> QED BY <2>5, <2>7, <3>1, <3>2 DEF rejectsCandidate
  <2> QED BY <2>1, <2>6, <2>7
<1> QED BY <1>3, <1>4

\* The places kept for a candidate are places of the name.
LEMMA PlacesOfName ==
    ASSUME NEW s \in Seq(Chars)
    PROVE  /\ Solid(s) \in SUBSET DOMAIN s /\ Solid(s) \cup Parting(s) \in SUBSET DOMAIN s
           /\ Placed(Solid(s)) /\ Placed(Solid(s) \cup Parting(s))
<1>1. Solid(s) \subseteq DOMAIN s /\ Parting(s) \subseteq DOMAIN s
  BY Zenon DEF Solid, Parting
<1>2. DOMAIN s = 1..Len(s) /\ Len(s) \in Nat
  OBVIOUS
<1>3. \A K \in SUBSET DOMAIN s : Placed(K)
  BY <1>2 DEF Placed
<1> QED BY <1>1, <1>3, Zenon

\* The folded candidates are the undisguised name with its spaces made one, and
\* without them.
LEMMA Candidates ==
    ASSUME NEW s \in Seq(Chars)
    PROVE  /\ normalizeASCII(s) \in Seq(Chars)
           /\ compact(normalizeASCII(s)) \in Seq(Chars)
           /\ foldOtherDigits(normalizeASCII(s))
                  = Kept(Undisguised(s), Solid(s) \cup Parting(s))
           /\ foldOtherDigits(compact(normalizeASCII(s))) = Kept(Undisguised(s), Solid(s))
<1> DEFINE K == Solid(s) \cup Parting(s)
           N == normalizeASCII(s)
           f == [j \in Solid(s) |-> PlaceIn(K, j)]
<1>1. /\ K \in SUBSET DOMAIN s /\ Placed(K)
      /\ Solid(s) \in SUBSET DOMAIN s /\ Placed(Solid(s))
      /\ Solid(s) \in SUBSET K
      /\ \A j \in K : j \in 1..Len(s)
  <2>1. /\ K \in SUBSET DOMAIN s /\ Placed(K)
        /\ Solid(s) \in SUBSET DOMAIN s /\ Placed(Solid(s))
    BY PlacesOfName
  <2>2. DOMAIN s = 1..Len(s)
    OBVIOUS
  <2> QED BY <2>1, <2>2, Zenon
<1>2. /\ Len(s) \in Nat /\ \A i \in 1..Len(s) : s[i] \in Chars
      /\ Uppered(s) \in Seq(Chars) /\ Len(Uppered(s)) = Len(s)
      /\ \A i \in 1..Len(s) : Uppered(s)[i] = Upper(s[i])
  BY Rewritten
<1>3. DOMAIN Uppered(s) = DOMAIN s
  BY DEF Uppered
<1>4. /\ Kept(s, K) \in Seq(Chars) /\ N = Uppered(Kept(s, K))
      /\ N = Kept(Uppered(s), K)
  <2> HIDE DEF K
  <2> QED BY <1>1, RewritingKept DEF normalizeASCII, K
<1>5. N \in Seq(Chars)
  BY <1>4, Rewritten
<1> HIDE DEF K, N
<1>6. foldOtherDigits(N) = Kept(Undisguised(s), K)
  BY <1>1, <1>2, <1>3, <1>4, RewritingKept DEF Undisguised
<1>7. /\ DOMAIN N = 1..Cardinality(K)
      /\ \A j \in K : PlaceIn(K, j) \in 1..Cardinality(K) /\ N[PlaceIn(K, j)] = Upper(s[j])
      /\ \A m \in 1..Cardinality(K) : \E j \in K : PlaceIn(K, j) = m
  <2>1. /\ DOMAIN N = 1..Cardinality(K)
        /\ \A j \in K : /\ PlaceIn(K, j) \in 1..Cardinality(K)
                        /\ N[PlaceIn(K, j)] = Uppered(s)[j]
        /\ \A m \in 1..Cardinality(K) : \E j \in K : PlaceIn(K, j) = m
    BY <1>1, <1>4, KeptAt
  <2> QED BY <1>1, <1>2, <2>1
<1>8. Kept(Uppered(s), Solid(s)) = Kept(N, Solid(N))
  <2>1. \A j \in K : N[PlaceIn(K, j)] = " " <=> s[j] = " "
    BY <1>1, <1>2, <1>7, Characters
  <2>2. f \in [Solid(s) -> Solid(N)]
    <3>1. \A j \in Solid(s) : PlaceIn(K, j) \in Solid(N)
      BY <1>1, <1>7, <2>1 DEF Solid
    <3> QED BY <3>1
  <2>3. \A j, k \in Solid(s) : j < k => f[j] < f[k]
    <3>1. Counts(K)
      BY <1>1, PlacesCount
    <3> QED BY <1>1, <3>1 DEF Counts
  <2>4. \A l \in Solid(N) : \E j \in Solid(s) : f[j] = l
    <3> TAKE l \in Solid(N)
    <3>1. l \in 1..Cardinality(K) /\ N[l] # " "
      BY <1>7 DEF Solid
    <3>2. PICK j \in K : PlaceIn(K, j) = l
      BY <1>7, <3>1
    <3>3. j \in Solid(s)
      BY <1>1, <2>1, <3>1, <3>2 DEF Solid
    <3> QED BY <3>2, <3>3
  <2>5. \A j \in Solid(s) : N[f[j]] = Uppered(s)[j]
    BY <1>1, <1>2, <1>7
  <2>6. Placed(Solid(N))
    BY <1>5, PlacesOfName
  <2> HIDE DEF f
  <2> QED BY <1>1, <2>2, <2>3, <2>4, <2>5, <2>6, SameKept
<1>9. compact(N) = Kept(Uppered(s), Solid(s))
  BY <1>8 DEF compact
<1>10. /\ compact(N) \in Seq(Chars)
       /\ foldOtherDigits(compact(N)) = Kept(Undisguised(s), Solid(s))
  BY <1>1, <1>2, <1>3, <1>9, RewritingKept DEF Undisguised
<1> QED BY <1>5, <1>6, <1>10 DEF K, N

\* A name is refused exactly for what it is without its disguises.
LEMMA RejectsUndisguised ==
    ASSUME NEW s \in Seq(Chars)
    PROVE  Rejects(s) <=>
               /\ normalizable(s)
               /\ \/ rejectsCandidate(Kept(Undisguised(s), Solid(s) \cup Parting(s)))
                  \/ rejectsCandidate(Kept(Undisguised(s), Solid(s)))
  BY Candidates, FoldedRejects DEF Rejects

\* What a name is without its disguises, place by place.
LEMMA UndisguisedAt ==
    ASSUME NEW s \in Seq(Chars)
    PROVE  /\ Undisguised(s) = [i \in 1..Len(s) |-> Fold(Upper(s[i]))]
           /\ Undisguised(s) \in Seq(Chars)
           /\ \A i \in 1..Len(s) : Undisguised(s)[i] = " " <=> s[i] = " "
<1>1. /\ DOMAIN s = 1..Len(s) /\ \A i \in 1..Len(s) : s[i] \in Chars
      /\ Uppered(s) \in Seq(Chars) /\ \A i \in 1..Len(s) : Uppered(s)[i] = Upper(s[i])
  BY Rewritten
<1>2. Undisguised(s) \in Seq(Chars)
  BY <1>1, Rewritten DEF Undisguised
<1>3. DOMAIN Uppered(s) = 1..Len(s)
  BY <1>1 DEF Uppered
<1>4. Undisguised(s) = [i \in 1..Len(s) |-> Fold(Uppered(s)[i])]
  BY <1>3 DEF Undisguised, foldOtherDigits
<1>5. Undisguised(s) = [i \in 1..Len(s) |-> Fold(Upper(s[i]))]
  BY <1>1, <1>4
<1>6. \A i \in 1..Len(s) : Undisguised(s)[i] = Fold(Upper(s[i]))
  BY <1>5
<1> QED BY <1>1, <1>2, <1>5, <1>6, Characters

\* A letter in the other case, a digit for the letter it looks like, or that
\* letter for the digit changes nothing.
LEMMA SameClasses ==
    ASSUME NEW s \in Seq(Chars), NEW t \in Seq(Chars), Len(t) = Len(s),
           \A i \in 1..Len(s) : t[i] \in Ascii /\ Fold(Upper(t[i])) = Fold(Upper(s[i])),
           Rejects(s)
    PROVE  Rejects(t)
<1>1. Undisguised(t) = Undisguised(s)
  <2>1. Undisguised(s) = [i \in 1..Len(s) |-> Fold(Upper(s[i]))]
    BY UndisguisedAt
  <2>2. Undisguised(t) = [i \in 1..Len(s) |-> Fold(Upper(t[i]))]
    BY UndisguisedAt
  <2> QED BY <2>1, <2>2, Zenon
<1>2. DOMAIN s = 1..Len(s) /\ DOMAIN t = 1..Len(s)
  OBVIOUS
<1>3. \A i \in 1..Len(s) : t[i] = " " <=> s[i] = " "
  <2>1. \A i \in 1..Len(s) : Undisguised(s)[i] = " " <=> s[i] = " "
    BY UndisguisedAt
  <2>2. \A i \in 1..Len(s) : Undisguised(t)[i] = " " <=> t[i] = " "
    BY UndisguisedAt
  <2> QED BY <1>1, <2>1, <2>2
<1>4. Solid(t) = Solid(s)
  BY <1>2, <1>3 DEF Solid
<1>5. Parting(t) = Parting(s)
  BY <1>2, <1>3, <1>4 DEF Parting
<1>6. normalizable(t)
  BY <1>2, <1>4 DEF normalizable, Rejects
<1> QED BY <1>1, <1>4, <1>5, <1>6, RejectsUndisguised

(***************************************************************************)
(* One more space.                                                         *)
(***************************************************************************)

\* Where the k-th character goes when a space comes to stand at j.
Moved(k, j) == IF k < j THEN k ELSE k + 1

\* t is s, of n characters, with one more space, at j.
Widened(s, t, n, j) ==
    /\ n \in Nat /\ j \in 1..(n + 1)
    /\ s \in [1..n -> Chars] /\ t \in [1..(n + 1) -> Chars]
    /\ t[j] = " "
    /\ \A k \in 1..n : t[Moved(k, j)] = s[k]

\* One more element at the end.
LEMMA OneMore ==
    ASSUME NEW C, NEW a \in Seq(C), NEW x \in C, NEW m \in Nat, Len(a) = m
    PROVE  /\ a \o <<x>> \in Seq(C) /\ Len(a \o <<x>>) = m + 1
           /\ \A k \in 1..m : (a \o <<x>>)[k] = a[k]
           /\ (a \o <<x>>)[m + 1] = x
  OBVIOUS

\* Inserting a space is that.
LEMMA InsertedSpace ==
    ASSUME NEW s \in Seq(Chars), NEW j \in 1..(Len(s) + 1)
    PROVE  Widened(s, InsertAt(s, j, " "), Len(s), j)
<1>n. PICK n \in Nat : n = Len(s)
  OBVIOUS
<1>s. PICK space \in Chars : space = " "
  BY DEF Chars, Blank
<1>1. s \in [1..n -> Chars]
  BY <1>n
<1>2. j \in Int /\ 1 <= j /\ j <= n + 1
  BY <1>n
<1> DEFINE a == SubSeq(s, 1, j - 1)
           b == SubSeq(s, j, n)
<1>3. /\ a \in Seq(Chars) /\ Len(a) = j - 1
      /\ \A k \in 1..(j - 1) : a[k] = s[k]
  <2>1. \A k \in 1..(j - 1) : s[k] \in Chars
    <3>1. \A k \in 1..(j - 1) : k \in 1..n
      BY <1>2
    <3> QED BY <1>1, <3>1
  <2>2. 1 \in Int /\ j - 1 \in Int
    BY <1>2
  <2>3. /\ a \in Seq(Chars) /\ Len(a) = IF 1 <= j - 1 THEN (j - 1) - 1 + 1 ELSE 0
        /\ \A k \in 1..((j - 1) - 1 + 1) : a[k] = s[1 + k - 1]
    BY <2>1, <2>2, SubSeqProperties
  <2> HIDE DEF a
  <2>4. /\ Len(a) = j - 1
        /\ (j - 1) - 1 + 1 = j - 1
        /\ \A k \in 1..(j - 1) : 1 + k - 1 = k
    BY <1>2, <2>3
  <2> QED BY <2>3, <2>4
<1>4. /\ b \in Seq(Chars) /\ Len(b) = n - j + 1
      /\ \A k \in 1..(n - j + 1) : b[k] = s[j + k - 1]
  <2>1. \A k \in j..n : s[k] \in Chars
    <3>1. \A k \in j..n : k \in 1..n
      BY <1>2
    <3> QED BY <1>1, <3>1
  <2>2. j \in Int /\ n \in Int
    BY <1>2
  <2>3. /\ b \in Seq(Chars) /\ Len(b) = IF j <= n THEN n - j + 1 ELSE 0
        /\ \A k \in 1..(n - j + 1) : b[k] = s[j + k - 1]
    BY <2>1, <2>2, SubSeqProperties
  <2> HIDE DEF b
  <2>4. Len(b) = n - j + 1
    BY <1>2, <2>2, <2>3
  <2> QED BY <2>3, <2>4
<1>5. PICK t : t = a \o <<space>> \o b
  OBVIOUS
<1>6. /\ t \in Seq(Chars) /\ Len(t) = n + 1
      /\ \A k \in 1..(j - 1) : t[k] = a[k]
      /\ t[j] = space
      /\ \A k \in 1..(n - j + 1) : t[j + k] = b[k]
  <2> HIDE DEF a, b
  <2>1. /\ a \o <<space>> \in Seq(Chars) /\ Len(a \o <<space>>) = j
        /\ \A k \in 1..(j - 1) : (a \o <<space>>)[k] = a[k]
        /\ (a \o <<space>>)[j] = space
    <3>1. PICK m \in Nat : m = j - 1
      BY <1>2
    <3>2. a \in Seq(Chars) /\ Len(a) = m
      BY <1>3, <3>1
    <3>3. /\ a \o <<space>> \in Seq(Chars) /\ Len(a \o <<space>>) = m + 1
          /\ \A k \in 1..m : (a \o <<space>>)[k] = a[k]
          /\ (a \o <<space>>)[m + 1] = space
      BY <3>2, OneMore
    <3>4. m + 1 = j
      BY <1>2, <3>1
    <3> QED BY <3>1, <3>3, <3>4
  <2>2. PICK c : c = a \o <<space>>
    OBVIOUS
  <2>3. t = c \o b /\ c \in Seq(Chars) /\ Len(c) = j
    BY <1>5, <2>1, <2>2
  <2>4. /\ t \in Seq(Chars) /\ Len(t) = n + 1
        /\ \A k \in 1..j : t[k] = c[k]
        /\ \A k \in 1..(n - j + 1) : t[j + k] = b[k]
    <3>1. PICK m \in Nat : m = n - j + 1
      BY <1>2
    <3>2. b \in Seq(Chars) /\ Len(b) = m /\ j \in Nat
      BY <1>2, <1>4, <3>1
    <3>3. /\ t \in Seq(Chars) /\ Len(t) = j + m
          /\ \A k \in 1..j : t[k] = c[k]
          /\ \A k \in 1..m : t[j + k] = b[k]
      <4>1. /\ c \o b \in Seq(Chars) /\ Len(c \o b) = j + m
            /\ \A i \in 1..(j + m) : (c \o b)[i] = IF i <= j THEN c[i] ELSE b[i - j]
        BY <2>3, <3>2, ConcatProperties
      <4>2. /\ \A k \in 1..j : k \in 1..(j + m) /\ k <= j
            /\ \A k \in 1..m : j + k \in 1..(j + m) /\ ~(j + k <= j) /\ (j + k) - j = k
        BY <1>2, <3>1
      <4> QED BY <2>3, <4>1, <4>2, Zenon
    <3>4. j + m = n + 1
      BY <1>2, <3>1
    <3> QED BY <3>1, <3>3, <3>4
  <2>5. j \in 1..j /\ \A k \in 1..(j - 1) : k \in 1..j
    BY <1>2
  <2> QED BY <2>1, <2>2, <2>4, <2>5
<1>7. \A k \in 1..n : t[Moved(k, j)] = s[k]
  <2> HIDE DEF a, b
  <2> TAKE k \in 1..n
  <2>1. CASE k < j
    <3>1. k \in 1..(j - 1)
      BY <1>2, <2>1
    <3> QED BY <1>3, <1>6, <2>1, <3>1, Zenon DEF Moved
  <2>2. CASE ~(k < j)
    <3>1. PICK m \in 1..(n - j + 1) : m = k - j + 1
      BY <1>2, <2>2
    <3>2. j + m = k + 1 /\ j + m - 1 = k
      BY <1>2, <3>1
    <3>3. t[j + m] = b[m] /\ b[m] = s[j + m - 1]
      BY <1>4, <1>6
    <3>4. t[k + 1] = s[k]
      BY <3>2, <3>3, Zenon
    <3> QED BY <2>2, <3>4, Zenon DEF Moved
  <2> QED BY <2>1, <2>2
<1>8. InsertAt(s, j, " ") = t
  BY <1>n, <1>s, <1>5, Zenon DEF InsertAt
<1>9. t \in [1..(n + 1) -> Chars]
  <2>1. PICK m : m = n + 1
    OBVIOUS
  <2>2. t \in Seq(Chars) /\ Len(t) = m
    BY <1>6, <2>1
  <2>3. t \in [1..m -> Chars]
    BY <2>2
  <2> QED BY <2>1, <2>3
<1>10. n \in Nat /\ j \in 1..(n + 1)
  BY <1>2
<1>11. Widened(s, t, n, j)
  BY <1>1, <1>s, <1>6, <1>7, <1>9, <1>10, Zenon DEF Widened
<1> QED BY <1>n, <1>8, <1>11, Zenon

\* The other characters move apart, in order, and are what they were.
LEMMA MovedApart ==
    ASSUME NEW s, NEW t, NEW n, NEW j, Widened(s, t, n, j)
    PROVE  /\ \A k \in 1..n : /\ Moved(k, j) \in 1..(n + 1)
                              /\ Moved(k, j) \in Solid(t) <=> k \in Solid(s)
           /\ \A l \in 1..(n + 1) : l # j => \E k \in 1..n : Moved(k, j) = l
           /\ \A l \in Solid(t) : \E k \in Solid(s) : Moved(k, j) = l
           /\ Solid(s) \subseteq 1..n /\ Solid(t) \subseteq 1..(n + 1)
           /\ j \notin Solid(t)
<1>a. n \in Nat /\ j \in 1..(n + 1)
  BY Zenon DEF Widened
<1>b. n \in Int /\ j \in Int /\ 1 <= j /\ j <= n + 1
  BY <1>a
<1>1. /\ DOMAIN s = 1..n /\ DOMAIN t = 1..(n + 1) /\ t[j] = " "
      /\ \A k \in 1..n : t[Moved(k, j)] = s[k]
  BY Zenon DEF Widened
<1>2. \A k \in 1..n : Moved(k, j) \in 1..(n + 1)
  BY <1>b DEF Moved
<1>3. \A k \in 1..n : Moved(k, j) \in Solid(t) <=> k \in Solid(s)
  BY <1>1, <1>2, Zenon DEF Solid
<1>4. ASSUME NEW l \in 1..(n + 1), l # j
      PROVE  \E k \in 1..n : Moved(k, j) = l
  <2>1. CASE l < j
    <3>1. l \in 1..n /\ Moved(l, j) = l
      BY <1>b, <2>1 DEF Moved
    <3> QED BY <3>1
  <2>2. CASE l > j
    <3>1. l - 1 \in 1..n /\ Moved(l - 1, j) = l
      BY <1>b, <2>2 DEF Moved
    <3> QED BY <3>1
  <2>3. l < j \/ l > j
    BY <1>b, <1>4
  <2> QED BY <2>1, <2>2, <2>3
<1>5. Solid(s) \subseteq 1..n /\ Solid(t) \subseteq 1..(n + 1) /\ j \notin Solid(t)
  BY <1>1, Zenon DEF Solid
<1>6. \A l \in Solid(t) : \E k \in Solid(s) : Moved(k, j) = l
  BY <1>3, <1>4, <1>5
<1> QED BY <1>2, <1>3, <1>4, <1>5, <1>6, Zenon

\* So are they without their disguises.
LEMMA MovedUndisguised ==
    ASSUME NEW s, NEW t, NEW n, NEW j, Widened(s, t, n, j)
    PROVE  /\ \A k \in 1..n : Undisguised(t)[Moved(k, j)] = Undisguised(s)[k]
           /\ \A k \in 1..n : s[k] = t[j] => Undisguised(t)[j] = Undisguised(s)[k]
<1>1. /\ n \in Nat /\ j \in 1..(n + 1)
      /\ DOMAIN s = 1..n /\ DOMAIN t = 1..(n + 1) /\ t[j] = " "
      /\ \A k \in 1..n : t[Moved(k, j)] = s[k]
  BY DEF Widened
<1>2. /\ \A k \in 1..n : Moved(k, j) \in 1..(n + 1)
      /\ \A l \in 1..(n + 1) : l # j => \E k \in 1..n : Moved(k, j) = l
      /\ \A k \in 1..n : Moved(k, j) \in Solid(t) <=> k \in Solid(s)
      /\ Solid(s) \subseteq 1..n
  BY MovedApart
<1>3. /\ DOMAIN Uppered(s) = 1..n /\ \A k \in 1..n : Uppered(s)[k] = Upper(s[k])
      /\ DOMAIN Uppered(t) = 1..(n + 1) /\ \A l \in 1..(n + 1) : Uppered(t)[l] = Upper(t[l])
  BY <1>1 DEF Uppered
<1>4. /\ Undisguised(s) = [k \in 1..n |-> Fold(Uppered(s)[k])]
      /\ Undisguised(t) = [l \in 1..(n + 1) |-> Fold(Uppered(t)[l])]
  BY <1>3 DEF Undisguised, foldOtherDigits
<1>5. /\ Undisguised(s) = [k \in 1..n |-> Fold(Upper(s[k]))]
      /\ Undisguised(t) = [l \in 1..(n + 1) |-> Fold(Upper(t[l]))]
  BY <1>3, <1>4, Zenon
<1>6. /\ \A k \in 1..n : Undisguised(s)[k] = Fold(Upper(s[k]))
      /\ \A l \in 1..(n + 1) : Undisguised(t)[l] = Fold(Upper(t[l]))
  BY <1>5, Zenon
<1>7. \A k \in 1..n : Undisguised(t)[Moved(k, j)] = Undisguised(s)[k]
  BY <1>1, <1>2, <1>6, Zenon
<1>8. \A k \in 1..n : s[k] = t[j] => Undisguised(t)[j] = Undisguised(s)[k]
  BY <1>1, <1>6, Zenon
<1> QED BY <1>7, <1>8

\* Nor is a character new.
LEMMA StillNormalizable ==
    ASSUME NEW s, NEW t, NEW n, NEW j, Widened(s, t, n, j), normalizable(s)
    PROVE  normalizable(t)
<1>1. /\ n \in Nat /\ j \in 1..(n + 1)
      /\ DOMAIN s = 1..n /\ DOMAIN t = 1..(n + 1) /\ t[j] = " "
      /\ \A k \in 1..n : t[Moved(k, j)] = s[k]
  BY DEF Widened
<1>2. /\ \A k \in 1..n : Moved(k, j) \in 1..(n + 1)
      /\ \A l \in 1..(n + 1) : l # j => \E k \in 1..n : Moved(k, j) = l
      /\ \A k \in 1..n : Moved(k, j) \in Solid(t) <=> k \in Solid(s)
      /\ Solid(s) \subseteq 1..n
  BY MovedApart
<1>3. (\A k \in 1..n : s[k] \in Ascii) /\ Solid(s) # {}
  BY <1>1 DEF normalizable
<1>4. Solid(t) # {}
  BY <1>2, <1>3
<1>5. " " \in Ascii
  BY DEF Ascii
<1>6. \A l \in 1..(n + 1) : t[l] \in Ascii
  BY <1>1, <1>2, <1>3, <1>5
<1> QED BY <1>1, <1>4, <1>6 DEF normalizable

\* The name without its spaces is the same.
LEMMA CompactStays ==
    ASSUME NEW s, NEW t, NEW n, NEW j, Widened(s, t, n, j)
    PROVE  Kept(Undisguised(t), Solid(t)) = Kept(Undisguised(s), Solid(s))
<1>0. \A k \in 1..n : Undisguised(t)[Moved(k, j)] = Undisguised(s)[k]
  BY MovedUndisguised
<1> DEFINE f == [k \in Solid(s) |-> Moved(k, j)]
<1>1. /\ \A k \in 1..n : Moved(k, j) \in Solid(t) <=> k \in Solid(s)
      /\ \A l \in Solid(t) : \E k \in Solid(s) : Moved(k, j) = l
      /\ Solid(s) \subseteq 1..n /\ Solid(t) \subseteq 1..(n + 1)
  BY MovedApart
<1>2. n \in Nat /\ j \in 1..(n + 1)
  BY DEF Widened
<1>3. f \in [Solid(s) -> Solid(t)] /\ \A k \in Solid(s) : f[k] = Moved(k, j)
  BY <1>1
<1>4. \A k, l \in Solid(s) : k < l => Moved(k, j) < Moved(l, j)
  <2>1. (\A k \in Solid(s) : k \in Int) /\ j \in Int
    BY <1>1, <1>2
  <2> QED BY <2>1 DEF Moved
<1>5. \A k \in Solid(s) : Undisguised(t)[Moved(k, j)] = Undisguised(s)[k]
  BY <1>0, <1>1, Zenon
<1>6. Placed(Solid(s)) /\ Placed(Solid(t))
  <2>1. n + 1 \in Nat
    BY <1>2
  <2> QED BY <1>1, <1>2, <2>1, Zenon DEF Placed
<1> HIDE DEF f
<1>7. \A k, l \in Solid(s) : k < l => f[k] < f[l]
  BY <1>3, <1>4
<1>8. \A l \in Solid(t) : \E k \in Solid(s) : f[k] = l
  BY <1>1, <1>3, Zenon
<1>9. \A k \in Solid(s) : Undisguised(t)[f[k]] = Undisguised(s)[k]
  BY <1>3, <1>5, Zenon
<1>10. Kept(Undisguised(s), Solid(s)) = Kept(Undisguised(t), Solid(t))
  BY <1>3, <1>6, <1>7, <1>8, <1>9, SameKept
<1> QED BY <1>10

\* Where the k-th character goes when it is kept: a space that stands where the
\* new one comes to stand changes places with it.
Goes(s, k, j) == IF k < j \/ (k = j /\ k \notin Solid(s)) THEN k ELSE k + 1

\* The spaces kept are those after a character and before another.
LEMMA PartingPlaces ==
    ASSUME NEW s, NEW n, DOMAIN s = 1..n, NEW i
    PROVE  i \in Parting(s) <=> /\ i \in 1..n /\ i \notin Solid(s) /\ i - 1 \in Solid(s)
                                /\ \E k \in Solid(s) : k > i
  BY Zenon DEF Parting, Solid

\* The spaces kept go to spaces kept, and come from them.
LEMMA PartingsGo ==
    ASSUME NEW s, NEW t, NEW n, NEW j, Widened(s, t, n, j),
           j = 1 \/ j = n + 1 \/ j \notin Solid(s) \/ j - 1 \notin Solid(s)
    PROVE  /\ \A k \in Parting(s) : Goes(s, k, j) \in Parting(t)
           /\ \A l \in Parting(t) : \E k \in Parting(s) : Goes(s, k, j) = l
<1> DEFINE S == Solid(s)
           T == Solid(t)
<1>1. /\ \A k \in 1..n : Moved(k, j) \in T <=> k \in S
      /\ \A l \in T : \E k \in S : Moved(k, j) = l
      /\ S \subseteq 1..n /\ T \subseteq 1..(n + 1) /\ j \notin T
  BY MovedApart
<1>2. n \in Nat /\ j \in 1..(n + 1)
  BY Zenon DEF Widened
<1>3. /\ \A k \in Parting(s) : /\ k \in 1..n /\ k \notin S /\ k - 1 \in S
                               /\ \E m \in S : m > k
      /\ \A k \in 1..n : k \notin S /\ k - 1 \in S /\ (\E m \in S : m > k) => k \in Parting(s)
  <2>1. DOMAIN s = 1..n
    BY Zenon DEF Widened
  <2> QED BY <2>1, PartingPlaces
<1>4. /\ \A l \in Parting(t) : /\ l \in 1..(n + 1) /\ l \notin T /\ l - 1 \in T
                               /\ \E m \in T : m > l
      /\ \A l \in 1..(n + 1) :
             l \notin T /\ l - 1 \in T /\ (\E m \in T : m > l) => l \in Parting(t)
  <2>1. DOMAIN t = 1..(n + 1)
    BY Zenon DEF Widened
  <2> QED BY <2>1, PartingPlaces
<1>5. j = 1 \/ j = n + 1 \/ j \notin S \/ j - 1 \notin S
  OBVIOUS
<1> HIDE DEF S, T
<1>6. n \in Int /\ j \in Int /\ 1 <= j /\ j <= n + 1
  BY <1>2
<1>7. (\A k \in S : k \in Int /\ 1 <= k /\ k <= n) /\ (\A l \in T : l \in Int)
  BY <1>1, <1>2
<1>8. ASSUME NEW k \in Parting(s)
      PROVE  Goes(s, k, j) \in Parting(t)
  <2>1. k \in 1..n /\ k \notin S /\ k - 1 \in S
    BY <1>3
  <2>2. PICK m \in S : m > k
    BY <1>3
  <2>3. k \in Int /\ m \in Int /\ 1 <= k - 1 /\ m <= n
    BY <1>7, <2>1, <2>2
  <2>4. k - 1 \in 1..n /\ m \in 1..n
    BY <1>1, <2>1, <2>2
  <2>5. Moved(k, j) \notin T /\ Moved(k - 1, j) \in T /\ Moved(m, j) \in T
    BY <1>1, <2>1, <2>2, <2>4
  <2>6. CASE k <= j
    <3>1. Goes(s, k, j) = k
      BY <1>6, <2>1, <2>3, <2>6 DEF Goes, S
    <3>2. Moved(k - 1, j) = k - 1 /\ Moved(m, j) > k
      BY <1>6, <2>2, <2>3, <2>6 DEF Moved
    <3>3. k \notin T
      <4>1. CASE k = j
        BY <1>1, <4>1
      <4>2. CASE k < j
        BY <2>5, <4>2 DEF Moved
      <4> QED BY <1>6, <2>3, <2>6, <4>1, <4>2
    <3>4. k \in 1..(n + 1)
      BY <1>6, <2>1
    <3> QED BY <1>4, <2>5, <3>1, <3>2, <3>3, <3>4
  <2>7. CASE k > j
    <3>1. Goes(s, k, j) = k + 1 /\ Moved(k, j) = k + 1
      BY <1>6, <2>3, <2>7 DEF Goes, Moved
    <3>2. Moved(k - 1, j) = (k + 1) - 1 /\ Moved(m, j) > k + 1
      BY <1>6, <2>2, <2>3, <2>7 DEF Moved
    <3>3. k + 1 \in 1..(n + 1)
      BY <1>6, <2>1
    <3> QED BY <1>4, <2>5, <3>1, <3>2, <3>3
  <2> QED BY <1>6, <2>3, <2>6, <2>7
<1>9. ASSUME NEW l \in Parting(t)
      PROVE  \E k \in Parting(s) : Goes(s, k, j) = l
  <2>1. l \in 1..(n + 1) /\ l \notin T /\ l - 1 \in T
    BY <1>4
  <2>2. PICK m \in T : m > l
    BY <1>4
  <2>3. PICK i \in S : Moved(i, j) = m
    BY <1>1, <2>2
  <2>4. PICK h \in S : Moved(h, j) = l - 1
    BY <1>1, <2>1
  <2>5. l \in Int /\ m \in Int /\ i \in Int /\ h \in Int /\ i <= n /\ 1 <= h
    BY <1>7, <2>1, <2>2
  <2>6. CASE l < j
    <3>1. h = l - 1 /\ i > l /\ Goes(s, l, j) = l /\ Moved(l, j) = l
      BY <1>6, <2>2, <2>3, <2>4, <2>5, <2>6 DEF Moved, Goes
    <3>2. l \in 1..n
      BY <1>6, <2>1, <2>6
    <3>3. l \notin S
      BY <1>1, <2>1, <3>1, <3>2
    <3> QED BY <1>3, <3>1, <3>2, <3>3
  <2>7. CASE l = j
    <3>1. h = j - 1 /\ i >= j /\ j # 1 /\ j # n + 1
      BY <1>6, <2>2, <2>3, <2>4, <2>5, <2>7 DEF Moved
    <3>2. j \notin S
      BY <1>5, <3>1
    <3>3. i > l
      <4>1. i # j
        BY <3>2
      <4> QED BY <2>5, <2>7, <3>1, <4>1, <1>6
    <3>4. Goes(s, l, j) = l
      BY <2>7, <3>2 DEF Goes, S
    <3>5. l \in 1..n
      BY <1>6, <2>1, <2>7, <3>1
    <3> QED BY <1>3, <2>7, <3>1, <3>2, <3>3, <3>4, <3>5
  <2>8. CASE l > j
    <3>1. l - 1 # j
      BY <1>1, <2>1
    <3>2. /\ h = (l - 1) - 1 /\ i > l - 1 /\ l - 1 > j
          /\ Goes(s, l - 1, j) = l /\ Moved(l - 1, j) = l
      <4>1. l - 1 > j
        BY <1>6, <2>5, <2>8, <3>1
      <4>2. h = (l - 1) - 1 /\ i > l - 1
        BY <1>6, <2>2, <2>3, <2>4, <2>5, <4>1 DEF Moved
      <4>3. Goes(s, l - 1, j) = l /\ Moved(l - 1, j) = l
        BY <1>6, <2>5, <4>1 DEF Moved, Goes
      <4> QED BY <4>1, <4>2, <4>3
    <3>3. l - 1 \in 1..n
      BY <1>6, <2>1, <3>2
    <3>4. l - 1 \notin S
      BY <1>1, <2>1, <3>2, <3>3
    <3> QED BY <1>3, <3>2, <3>3, <3>4
  <2> QED BY <1>6, <2>5, <2>6, <2>7, <2>8
<1> QED BY <1>8, <1>9

\* The name with its spaces made one is the same, if the new space is at an end
\* or beside another.
LEMMA SpacingStays ==
    ASSUME NEW s, NEW t, NEW n, NEW j, Widened(s, t, n, j),
           j = 1 \/ j = n + 1 \/ j \notin Solid(s) \/ j - 1 \notin Solid(s)
    PROVE  Kept(Undisguised(t), Solid(t) \cup Parting(t))
               = Kept(Undisguised(s), Solid(s) \cup Parting(s))
<1> DEFINE K == Solid(s) \cup Parting(s)
           L == Solid(t) \cup Parting(t)
           f == [k \in K |-> Goes(s, k, j)]
<1>1. /\ \A k \in 1..n : Moved(k, j) \in Solid(t) <=> k \in Solid(s)
      /\ \A l \in Solid(t) : \E k \in Solid(s) : Moved(k, j) = l
      /\ Solid(s) \subseteq 1..n /\ Solid(t) \subseteq 1..(n + 1)
  BY MovedApart
<1>2. n \in Nat /\ j \in 1..(n + 1) /\ DOMAIN s = 1..n /\ DOMAIN t = 1..(n + 1)
      /\ \A k \in 1..n : t[Moved(k, j)] = s[k]
  BY Zenon DEF Widened
<1>3. /\ \A k \in Parting(s) : Goes(s, k, j) \in Parting(t)
      /\ \A l \in Parting(t) : \E k \in Parting(s) : Goes(s, k, j) = l
  BY PartingsGo
<1>4. \A k \in Solid(s) : Goes(s, k, j) = Moved(k, j)
  BY DEF Goes, Moved
<1>5. Parting(s) \subseteq 1..n /\ Parting(t) \subseteq 1..(n + 1)
  BY <1>2, Zenon DEF Parting
<1>6. K \subseteq 1..n /\ L \subseteq 1..(n + 1)
  BY <1>1, <1>5, Zenon
<1>7. Placed(K) /\ Placed(L)
  <2>1. n + 1 \in Nat
    BY <1>2
  <2> HIDE DEF K, L
  <2> QED BY <1>2, <1>6, <2>1, Zenon DEF Placed
<1>8. \A k \in K : Goes(s, k, j) \in L
  BY <1>1, <1>3, <1>4
<1>9. \A l \in L : \E k \in K : Goes(s, k, j) = l
  <2>1. \A l \in Solid(t) : \E k \in K : Goes(s, k, j) = l
    BY <1>1, <1>4
  <2>2. \A l \in Parting(t) : \E k \in K : Goes(s, k, j) = l
    BY <1>3
  <2> QED BY <2>1, <2>2
<1>10. \A k \in K : Undisguised(t)[Goes(s, k, j)] = Undisguised(s)[k]
  <2>1. /\ \A k \in 1..n : Undisguised(t)[Moved(k, j)] = Undisguised(s)[k]
        /\ \A k \in 1..n : s[k] = t[j] => Undisguised(t)[j] = Undisguised(s)[k]
    BY MovedUndisguised
  <2> TAKE k \in K
  <2>2. k \in 1..n
    BY <1>6
  <2>3. CASE k = j /\ k \notin Solid(s)
    <3>1. Goes(s, k, j) = j
      BY <2>3 DEF Goes
    <3>2. s[k] = t[j]
      <4>1. s[k] = " "
        BY <1>2, <2>2, <2>3, Zenon DEF Solid
      <4>2. t[j] = " "
        BY Zenon DEF Widened
      <4> QED BY <4>1, <4>2, Zenon
    <3> QED BY <2>1, <2>2, <3>1, <3>2, Zenon
  <2>4. CASE ~(k = j /\ k \notin Solid(s))
    <3>1. Goes(s, k, j) = Moved(k, j)
      BY <2>4 DEF Goes, Moved
    <3> QED BY <2>1, <2>2, <3>1, Zenon
  <2> QED BY <2>3, <2>4
<1>11. \A k, l \in K : k < l => Goes(s, k, j) < Goes(s, l, j)
  <2>1. (\A k \in K : k \in Int) /\ j \in Int
    BY <1>2, <1>6
  <2> HIDE DEF K
  <2> QED BY <2>1 DEF Goes
<1> HIDE DEF K, L
<1>12. f \in [K -> L] /\ \A k \in K : f[k] = Goes(s, k, j)
  BY <1>8
<1> HIDE DEF f
<1>13. \A k, l \in K : k < l => f[k] < f[l]
  BY <1>11, <1>12
<1>14. \A l \in L : \E k \in K : f[k] = l
  BY <1>9, <1>12, Zenon
<1>15. \A k \in K : Undisguised(t)[f[k]] = Undisguised(s)[k]
  BY <1>10, <1>12, Zenon
<1>16. Kept(Undisguised(s), K) = Kept(Undisguised(t), L)
  BY <1>7, <1>12, <1>13, <1>14, <1>15, SameKept
<1> QED BY <1>16 DEF K, L

(***************************************************************************)
(* Names: a refusal survives respelling.                                   *)
(***************************************************************************)

\* Keeping every place keeps the sequence.
LEMMA KeptWhole ==
    ASSUME NEW x, NEW m \in Nat, x = [i \in 1..m |-> x[i]]
    PROVE  Kept(x, 1..m) = x
<1>1. DOMAIN x = 1..m
  OBVIOUS
<1>2. Placed(1..m)
  BY DEF Placed
<1>3. Cardinality(1..m) = m
  BY FS_Interval
<1>4. ASSUME NEW i \in 1..m PROVE PlaceIn(1..m, i) = i
  <2>1. {k \in 1..m : k <= i} = 1..i
    OBVIOUS
  <2>2. Cardinality(1..i) = i
    <3>1. 1 \in Int /\ i \in Int /\ ~(1 > i) /\ i - 1 + 1 = i
      OBVIOUS
    <3> QED BY <3>1, FS_Interval
  <2> QED BY <2>1, <2>2 DEF PlaceIn
<1>5. /\ Kept(x, 1..m) = [i \in 1..m |-> Kept(x, 1..m)[i]]
      /\ \A i \in 1..m : Kept(x, 1..m)[PlaceIn(1..m, i)] = x[i]
  <2>1. PICK K : K = 1..m
    OBVIOUS
  <2>2. Placed(K) /\ Cardinality(K) = m
    BY <1>2, <1>3, <2>1
  <2>3. /\ Kept(x, K) = [i \in 1..Cardinality(K) |-> Kept(x, K)[i]]
        /\ \A i \in K : Kept(x, K)[PlaceIn(K, i)] = x[i]
    BY <2>2, KeptAt
  <2> QED BY <2>1, <2>2, <2>3, Zenon
<1>6. \A i \in 1..m : Kept(x, 1..m)[i] = x[i]
  BY <1>4, <1>5
<1> QED BY <1>5, <1>6, Zenon

\* The name without its spaces is refused for what it is without its disguises
\* and its spaces.
LEMMA RejectsCompact ==
    ASSUME NEW s \in Seq(Chars), Rejects(compact(s))
    PROVE  rejectsCandidate(Kept(Undisguised(s), Solid(s)))
<1> DEFINE c == compact(s)
<1>1. Solid(s) \in SUBSET DOMAIN s /\ Placed(Solid(s))
  BY PlacesOfName
<1>2. c \in Seq(Chars) /\ foldOtherDigits(Uppered(c)) = Kept(Undisguised(s), Solid(s))
  <2>1. /\ c \in Seq(Chars) /\ Uppered(s) \in Seq(Chars)
        /\ Uppered(c) = Kept(Uppered(s), Solid(s))
    BY <1>1, RewritingKept DEF compact
  <2>2. DOMAIN Uppered(s) = DOMAIN s
    BY DEF Uppered
  <2>3. foldOtherDigits(Kept(Uppered(s), Solid(s)))
            = Kept(foldOtherDigits(Uppered(s)), Solid(s))
    BY <1>1, <2>1, <2>2, RewritingKept
  <2> QED BY <2>1, <2>3 DEF Undisguised
<1>3. /\ DOMAIN c = 1..Cardinality(Solid(s))
      /\ \A k \in Solid(s) : c[PlaceIn(Solid(s), k)] = s[k]
      /\ \A m \in 1..Cardinality(Solid(s)) : \E k \in Solid(s) : PlaceIn(Solid(s), k) = m
  BY <1>1, KeptAt DEF compact
<1>4. PICK m \in Nat : m = Len(c) /\ DOMAIN c = 1..m
  BY <1>2
<1> HIDE DEF c
<1>5. Solid(c) = 1..m
  <2>1. \A k \in Solid(s) : s[k] # " "
    BY Zenon DEF Solid
  <2>2. \A i \in DOMAIN c : c[i] # " "
    BY <1>3, <2>1, Zenon
  <2> QED BY <1>4, <2>2, Zenon DEF Solid
<1>6. Parting(c) = {}
  BY <1>4, <1>5, Zenon DEF Parting, Solid
<1>7. Solid(c) \cup Parting(c) = 1..m
  BY <1>5, <1>6
<1>8. Undisguised(c) = [i \in 1..m |-> Undisguised(c)[i]]
  <2>1. Undisguised(c) = [i \in 1..m |-> Fold(Upper(c[i]))]
    BY <1>2, <1>4, UndisguisedAt
  <2> QED BY <2>1
<1>9. Kept(Undisguised(c), 1..m) = Undisguised(c)
  BY <1>8, KeptWhole
<1>10. Rejects(c)
  BY DEF c
<1>11. rejectsCandidate(Kept(Undisguised(c), 1..m))
  <2>1. \/ rejectsCandidate(Kept(Undisguised(c), Solid(c) \cup Parting(c)))
        \/ rejectsCandidate(Kept(Undisguised(c), Solid(c)))
    BY <1>2, <1>10, RejectsUndisguised
  <2> QED BY <1>5, <1>7, <2>1
<1> QED BY <1>2, <1>9, <1>11 DEF Undisguised

\* A space at j would be at an end or beside another.
BesideSpace(s, j) ==
    \/ j = 1 \/ j = Len(s) + 1
    \/ s[j] = " " \/ s[j - 1] = " "

\* One more space there, or anywhere in a name that is refused without its spaces.
LEMMA SpacedRejects ==
    ASSUME NEW s \in Seq(Chars), Rejects(s), NEW j \in 1..(Len(s) + 1),
           BesideSpace(s, j) \/ Rejects(compact(s))
    PROVE  Rejects(InsertAt(s, j, " "))
<1>1. PICK t, n : t = InsertAt(s, j, " ") /\ n = Len(s)
  OBVIOUS
<1>2. Widened(s, t, n, j)
  BY <1>1, InsertedSpace, Zenon
<1>3. normalizable(s)
  BY DEF Rejects
<1>4. normalizable(t)
  BY <1>2, <1>3, StillNormalizable
<1>5. t \in Seq(Chars)
  <2>1. n \in Nat /\ t \in [1..(n + 1) -> Chars]
    BY <1>2, Zenon DEF Widened
  <2>2. n + 1 \in Nat
    BY <2>1
  <2> QED BY <2>1, <2>2
<1>6. \/ rejectsCandidate(Kept(Undisguised(s), Solid(s) \cup Parting(s)))
      \/ rejectsCandidate(Kept(Undisguised(s), Solid(s)))
  BY RejectsUndisguised
<1>7. \/ rejectsCandidate(Kept(Undisguised(t), Solid(t) \cup Parting(t)))
      \/ rejectsCandidate(Kept(Undisguised(t), Solid(t)))
      => Rejects(t)
  BY <1>4, <1>5, RejectsUndisguised
<1>8. Kept(Undisguised(t), Solid(t)) = Kept(Undisguised(s), Solid(s))
  BY <1>2, CompactStays
<1>9. CASE rejectsCandidate(Kept(Undisguised(s), Solid(s)))
  BY <1>1, <1>7, <1>8, <1>9
<1>10. CASE Rejects(compact(s))
  <2>1. rejectsCandidate(Kept(Undisguised(s), Solid(s)))
    BY <1>10, RejectsCompact
  <2> QED BY <1>9, <2>1
<1>11. CASE /\ rejectsCandidate(Kept(Undisguised(s), Solid(s) \cup Parting(s)))
            /\ BesideSpace(s, j)
  <2>1. j = 1 \/ j = n + 1 \/ j \notin Solid(s) \/ j - 1 \notin Solid(s)
    BY <1>1, <1>11, Zenon DEF Solid, BesideSpace
  <2>2. Kept(Undisguised(t), Solid(t) \cup Parting(t))
            = Kept(Undisguised(s), Solid(s) \cup Parting(s))
    BY <1>2, <2>1, SpacingStays
  <2> QED BY <1>1, <1>7, <1>11, <2>2
<1> QED BY <1>6, <1>9, <1>10, <1>11

\* A refused name stays refused in every spelling a reader takes for the same.
LEMMA RespelledRejects ==
    ASSUME NEW s \in Seq(Chars), Rejects(s), NEW t \in Respellings(s)
    PROVE  Rejects(t)
<1> DEFINE swaps == {w \in (1..Len(s)) \X Ascii : Fold(Upper(w[2])) = Fold(Upper(s[w[1]]))}
           gaps  == {j \in 1..(Len(s) + 1) :
                        \/ j = 1 \/ j = Len(s) + 1
                        \/ s[j] = " " \/ s[j - 1] = " "
                        \/ Rejects(compact(s))}
<1>1. CASE t \in {[s EXCEPT ![w[1]] = w[2]] : w \in swaps}
  <2>1. PICK w \in swaps : t = [s EXCEPT ![w[1]] = w[2]]
    BY <1>1
  <2>2. PICK i \in 1..Len(s), c \in Ascii : i = w[1] /\ c = w[2]
    OBVIOUS
  <2>3. Fold(Upper(c)) = Fold(Upper(s[i])) /\ t = [s EXCEPT ![i] = c]
    BY <2>1, <2>2
  <2>4. c \in Chars
    BY DEF Chars
  <2>5. t \in Seq(Chars) /\ Len(t) = Len(s) /\ t[i] = c
        /\ \A k \in 1..Len(s) : k # i => t[k] = s[k]
    BY <2>3, <2>4
  <2>6. \A k \in 1..Len(s) : s[k] \in Ascii
    BY DEF Rejects, normalizable
  <2>7. \A k \in 1..Len(s) : t[k] \in Ascii /\ Fold(Upper(t[k])) = Fold(Upper(s[k]))
    BY <2>2, <2>3, <2>5, <2>6
  <2> QED BY <2>5, <2>7, SameClasses
<1>2. CASE t \in {InsertAt(s, i, " ") : i \in gaps}
  <2>1. PICK j \in gaps : t = InsertAt(s, j, " ")
    BY <1>2
  <2>2. j \in 1..(Len(s) + 1) /\ (BesideSpace(s, j) \/ Rejects(compact(s)))
    BY Zenon DEF BesideSpace
  <2>3. Rejects(InsertAt(s, j, " "))
    BY <2>2, SpacedRejects
  <2> QED BY <2>1, <2>3
<1>3. t \in {[s EXCEPT ![w[1]] = w[2]] : w \in swaps} \cup {InsertAt(s, i, " ") : i \in gaps}
  BY Zenon DEF Respellings
<1> QED BY <1>1, <1>2, <1>3, Zenon

(***************************************************************************)
(* Names: what is stored stands as it is.                                  *)
(***************************************************************************)

\* Trimming what is trimmed changes nothing.
LEMMA TrimmedTwice ==
    ASSUME NEW s \in Seq(Chars), NEW set
    PROVE  /\ Trimmed(s, set) \in Seq(Chars)
           /\ Trimmed(Trimmed(s, set), set) = Trimmed(s, set)
<1> DEFINE kept(x) == {i \in DOMAIN x : x[i] \notin set}
           first(x) == CHOOSE i \in kept(x) : \A k \in kept(x) : i <= k
           last(x)  == CHOOSE i \in kept(x) : \A k \in kept(x) : k <= i
<1>t. \A x : Trimmed(x, set) = IF kept(x) = {} THEN <<>> ELSE SubSeq(x, first(x), last(x))
  BY DEF Trimmed
<1>1. CASE kept(s) = {}
  <2>1. Trimmed(s, set) = <<>>
    BY <1>t, <1>1
  <2>2. kept(<<>>) = {}
    OBVIOUS
  <2>3. Trimmed(<<>>, set) = <<>>
    BY <1>t, <2>2
  <2> QED BY <2>1, <2>3
<1>2. CASE kept(s) # {}
  <2> DEFINE K == kept(s)
  <2>n. PICK n \in Nat : n = Len(s) /\ DOMAIN s = 1..n /\ \A i \in 1..n : s[i] \in Chars
    OBVIOUS
  <2>1. K \subseteq 1..n /\ \A i \in K : s[i] \notin set
    BY <2>n
  <2>2. K # {}
    BY <1>2
  <2>f. first(s) = (CHOOSE i \in K : \A k \in K : i <= k)
        /\ last(s) = (CHOOSE i \in K : \A k \in K : k <= i)
    OBVIOUS
  <2>i. \A i \in K : i \in 1..n /\ s[i] \notin set
    BY <2>1
  <2> HIDE DEF K, first, last
  <2>3. Counts(K)
    BY <2>1, PlacesCount DEF Placed
  <2>4. Cardinality(K) \in Nat \ {0}
    BY <2>2, <2>3, FS_EmptySet DEF Counts
  <2>5. \A k \in K : k \in Int
    BY <2>1
  <2>6. PICK u \in K : \A k \in K : u <= k
    <3>1. PICK i \in K : PlaceIn(K, i) = 1
      BY <2>3, <2>4 DEF Counts
    <3>2. \A k \in K : PlaceIn(K, k) \in 1..Cardinality(K) /\ (k < i => PlaceIn(K, k) < PlaceIn(K, i))
      BY <2>3 DEF Counts
    <3>3. \A k \in K : ~(k < i)
      BY <2>4, <3>1, <3>2
    <3> QED BY <2>5, <3>3
  <2>7. PICK v \in K : \A k \in K : k <= v
    <3>1. PICK i \in K : PlaceIn(K, i) = Cardinality(K)
      BY <2>3, <2>4 DEF Counts
    <3>2. \A k \in K : PlaceIn(K, k) \in 1..Cardinality(K) /\ (i < k => PlaceIn(K, i) < PlaceIn(K, k))
      BY <2>3 DEF Counts
    <3>3. \A k \in K : ~(i < k)
      BY <2>4, <3>1, <3>2
    <3> QED BY <2>5, <3>3
  <2>8. first(s) = u /\ last(s) = v
    <3>1. \A i \in K : (\A k \in K : i <= k) => i = u
      BY <2>5, <2>6
    <3>2. \A i \in K : (\A k \in K : k <= i) => i = v
      BY <2>5, <2>7
    <3>3. (CHOOSE i \in K : \A k \in K : i <= k) = u
      BY <2>6, <3>1
    <3>4. (CHOOSE i \in K : \A k \in K : k <= i) = v
      BY <2>7, <3>2
    <3> QED BY <2>f, <3>3, <3>4
  <2>9. u \in 1..n /\ v \in 1..n /\ u <= v /\ s[u] \notin set /\ s[v] \notin set
    BY <2>i, <2>6
  <2>10. PICK m \in Nat : m = v - u + 1 /\ m >= 1
    BY <2>9
  <2>11. PICK x : x = SubSeq(s, u, v)
    OBVIOUS
  <2>12. x \in Seq(Chars) /\ Len(x) = m /\ \A i \in 1..m : x[i] = s[u + i - 1]
    <3>1. \A i \in u..v : s[i] \in Chars
      <4>1. \A i \in u..v : i \in 1..n
        BY <2>9
      <4> QED BY <2>n, <4>1
    <3>2. u \in Int /\ v \in Int /\ u <= v
      BY <2>9
    <3>3. /\ x \in Seq(Chars) /\ Len(x) = v - u + 1
          /\ \A i \in 1..(v - u + 1) : x[i] = s[u + i - 1]
      BY <2>11, <3>1, <3>2, SubSeqProperties
    <3> QED BY <2>10, <3>3
  <2>13. x[1] \notin set /\ x[m] \notin set
    <3>1. 1 \in 1..m /\ m \in 1..m /\ u + 1 - 1 = u /\ u + m - 1 = v
      BY <2>9, <2>10
    <3> QED BY <2>9, <2>12, <3>1
  <2>14. Trimmed(s, set) = x
    BY <1>t, <1>2, <2>8, <2>11
  <2>15. DOMAIN x = 1..m
    BY <2>12
  <2> DEFINE L == kept(x)
  <2>16. L \subseteq 1..m /\ 1 \in L /\ m \in L
    BY <2>10, <2>13, <2>15
  <2>g. first(x) = (CHOOSE i \in L : \A k \in L : i <= k)
        /\ last(x) = (CHOOSE i \in L : \A k \in L : k <= i)
    BY DEF first, last
  <2>17. L # {} => Trimmed(x, set) = SubSeq(x, first(x), last(x))
    BY <1>t
  <2> HIDE DEF L
  <2>18. first(x) = 1 /\ last(x) = m
    <3>a. \A i \in L : i \in Int /\ 1 <= i /\ i <= m
      BY <2>10, <2>16
    <3>b. \A i \in L : (\A k \in L : i <= k) => i = 1
      BY <2>16, <3>a
    <3>c. \A i \in L : (\A k \in L : k <= i) => i = m
      BY <2>10, <2>16, <3>a
    <3>1. (CHOOSE i \in L : \A k \in L : i <= k) = 1
      BY <2>16, <3>a, <3>b
    <3>2. (CHOOSE i \in L : \A k \in L : k <= i) = m
      BY <2>16, <3>a, <3>c
    <3> QED BY <2>g, <3>1, <3>2
  <2>19. SubSeq(x, 1, m) = x
    BY <2>12
  <2> QED BY <2>12, <2>14, <2>16, <2>17, <2>18, <2>19, Zenon
<1> QED BY <1>1, <1>2

\* What an accepted name is stored as is accepted as it stands, and no name is
\* shown as none.
LEMMA AbsenceIsAnonymous ==
    ASSUME NEW s \in Seq(Chars), Reason(s) = ""
    PROVE  /\ Normalize(Display(Stored(s))) = Normalize(AnonymousName) => Stored(s) = <<>>
           /\ Reason(Stored(s)) = "" /\ Stored(Stored(s)) = Stored(s)
           /\ Display(Stored(s)) # <<>>
<1>1. Trimmed(Trimmed(s, Blank), Blank) = Trimmed(s, Blank)
  BY TrimmedTwice
<1>2. Stored(Stored(s)) = Stored(s)
  BY <1>1 DEF Stored
<1>3. Reason(Stored(s)) = ""
  BY <1>1 DEF Stored, Reason
<1>4. Display(Stored(s)) # <<>>
  BY AnonymousAssumption DEF Display
<1>5. ASSUME Stored(s) # <<>> PROVE Normalize(Stored(s)) \notin Reserved
  BY <1>5 DEF Stored, Reason
<1>6. ASSUME Stored(s) # <<>>,
             Normalize(Display(Stored(s))) = Normalize(AnonymousName)
      PROVE  FALSE
  <2>1. Display(Stored(s)) = Stored(s)
    BY <1>6 DEF Display
  <2> QED BY <1>5, <1>6, <2>1, AnonymousAssumption
<1> QED BY <1>2, <1>3, <1>4, <1>6

\* NamesHold, for every policy whose terms are upper-case and hold no digit that
\* folds, every list of reserved names, every limit and every name: a refused name stays refused in every spelling a reader takes for
\* the same, only a player with no name is shown as one, and what is stored is
\* accepted again as it stands (filter.go's candidates, names.go's validation).
THEOREM NamesHoldAlways == NamesSpec => []NamesHold
<1>1. NamesTypeOK => NamesHold
  <2> SUFFICES ASSUME NamesTypeOK PROVE NamesHold
    OBVIOUS
  <2>1. typed \in Seq(Chars)
    BY DEF NamesTypeOK
  <2>2. RejectionSurvives
    BY <2>1, RespelledRejects DEF RejectionSurvives
  <2>3. AnonymousIsAbsence
    BY <2>1, AbsenceIsAnonymous DEF AnonymousIsAbsence
  <2> QED BY <2>2, <2>3 DEF NamesHold
<1> QED BY <1>1, NamesTypeCorrect, PTL

(***************************************************************************)
(* The parts together.                                                     *)
(***************************************************************************)

\* Each part of the service behaves as it does by itself: no part's step is
\* a step of another's, so that every theorem about a part holds of the service.
THEOREM PartsBehave ==
    ServiceSpec => /\ Spec /\ LimiterSpec /\ KeysSpec /\ MigrationsSpec
                   /\ ConnectionSpec /\ PageSpec /\ ScoringSpec /\ NamesSpec
  <1> DEFINE serviceVars == <<part, vars, limits, keys, schema, pool, page, rules, typed>>
  <1>1. ServiceInit => /\ Init /\ LimiterInit /\ KeysInit /\ MigrationsInit
                       /\ ConnectionInit /\ PageInit /\ ScoringInit /\ NamesInit
    BY DEF ServiceInit
  <1>2. [ServiceNext]_serviceVars =>
            /\ [Next]_vars /\ [LimiterNext]_limiterVars /\ [KeysNext]_keysVars
            /\ [MigrationsNext]_migrationVars /\ [ConnectionNext]_connectionVars
            /\ [PageNext]_pageVars /\ [ScoringNext]_scoringVars /\ [NamesNext]_typed
    BY DEF ServiceNext, limits, keys, schema, pool, page, rules
  <1> QED
    BY <1>1, <1>2, PTL DEF ServiceSpec, Spec, LimiterSpec, KeysSpec, MigrationsSpec,
                           ConnectionSpec, PageSpec, ScoringSpec, NamesSpec

\* Every variable of every part keeps its shape, in any number and on any data.
THEOREM ServiceTypeCorrect == ServiceSpec => []ServiceTypeOK
  <1>1. /\ TypeOK /\ LimiterTypeOK /\ KeysTypeOK /\ MigrationsTypeOK
        /\ ConnectionTypeOK /\ PageTypeOK /\ ScoringTypeOK /\ NamesTypeOK
        => ServiceTypeOK
    BY DEF ServiceTypeOK
  <1> QED
    BY <1>1, PartsBehave, TypeCorrect, LimiterTypeCorrect, KeysTypeCorrect,
       MigrationsTypeCorrect, ConnectionTypeCorrect, PageTypeCorrect, ScoringTypeCorrect,
       NamesTypeCorrect, PTL

============================================================================
