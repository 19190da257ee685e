----------------------------- MODULE BoardPage -----------------------------
(***************************************************************************)
(* The script of the public board page against the two board handlers.     *)
(* Every choice of the reader, and every 15 s on the Recent view, sends a  *)
(* request; requests are answered in any order, late, by an older server,  *)
(* or not at all.  A generation number tells the latest from the rest.     *)
(*                                                                         *)
(* The avatars' art is one file fetched once: tiles drawn before it is     *)
(* here wait for it.                                                       *)
(***************************************************************************)
EXTENDS Integers, FiniteSets

CONSTANTS
    Drills,        \* the drills of the activity list
    StackDrill,    \* mental-stack, which has no Arcade mode
    MaxLoads       \* bound: requests the page sends

ASSUME DrillsAssumption == StackDrill \in Drills
ASSUME MaxLoadsAssumption == MaxLoads \in Nat \ {0}

VARIABLES
    view, drill, mode,    \* state.view, state.drill, state.mode
    loadGeneration,       \* the newest request
    requested,            \* requests not answered yet
    shown,                \* what the board and the status line show, and of what
    art,                  \* avatarArt: "loading", "here" or "failed"
    avatarWaiting         \* the loads whose tiles wait for the art

pageVars == <<view, drill, mode, loadGeneration, requested, shown, art, avatarWaiting>>

-----------------------------------------------------------------------------
Reaction == ""                          \* no drill chosen
Views    == {"recent", "fastest", "score"}
Modes    == {"endless", "arcade"}

\* The URL load composes: the path, and the parameters that vary.
Url(v, d, m) ==
    IF d # Reaction
    THEN [path |-> "drills", drill |-> d, mode |-> m,
          sort |-> IF v = "recent" THEN "recent" ELSE "top"]
    ELSE IF v = "recent" THEN [path |-> "recent"]
    ELSE [path |-> "board", sort |-> v]

\* drillMode: Arcade only where the drill has it.
DrillMode(d, asked) ==
    IF asked = "arcade" /\ d \in Drills \ {StackDrill} THEN "arcade" ELSE "endless"

\* What drills.board and leaderboard.board refuse with 400.
BadRequest(url) ==
    \/ /\ url.path = "drills"
       /\ \/ url.drill \notin Drills
          \/ url.mode = "arcade" /\ url.drill = StackDrill
          \/ url.sort \notin {"top", "recent"}
    \/ url.path = "board" /\ url.sort \notin {"fastest", "score"}

Selected == Url(view, drill, DrillMode(drill, mode))

\* generation !== loadGeneration.
Latest_Any(request) == TRUE
Latest(request)     == request.generation = loadGeneration

\* An Arcade selection takes only an answer that says it is one; a server from
\* before the mode ignores the parameter and does not.
Wrong(answered) ==
    drill # Reaction /\ DrillMode(drill, mode) = "arcade" /\ answered # "arcade"

\* What a server may answer under mode: its own, or nothing from an older one.
AnswerModes(url) ==
    IF url.path = "drills" THEN {url.mode, "none"} ELSE {"none"}

Loading == [what |-> "loading"]
Offline == [what |-> "offline"]

\* render: rows; no rows; or no rows but records, and the way to see them; and
\* the outcome of an answer the script cannot draw.
Drawn(what, request, answered) ==
    [what |-> what, url |-> request.url, mode |-> answered,
     load |-> request.generation]

\* avatarTile: the rows drawn wait for the art, also those drawn before one that
\* cannot be.
Waiting(what, request) ==
    LET more == avatarWaiting \cup {request.generation}
    IN  CASE art = "here" -> {avatarWaiting}
          [] art # "here" /\ what = "rows"   -> {more}
          [] art # "here" /\ what = "broken" -> {avatarWaiting, more}
          [] OTHER -> {avatarWaiting}

Offers == drill # Reaction /\ view = "recent"

-----------------------------------------------------------------------------
(* Actions.                                                                  *)

\* load(): the choice has been made.
Load(v, d, m) ==
    /\ loadGeneration < MaxLoads
    /\ loadGeneration' = loadGeneration + 1
    /\ requested' = requested \cup {[generation |-> loadGeneration + 1, url |-> Url(v, d, m)]}
    /\ shown' = Loading

PageInit ==
    /\ view = "recent" /\ drill = Reaction /\ mode = "endless"
    /\ loadGeneration = 1
    /\ requested = {[generation |-> 1, url |-> Url("recent", Reaction, "endless")]}
    /\ shown = Loading
    /\ art = "loading"
    /\ avatarWaiting = {}

\* A view button; FASTEST is disabled while a drill is chosen.
ChooseView(v) ==
    /\ v = "fastest" => drill = Reaction
    /\ view' = v
    /\ Load(v, drill, DrillMode(drill, mode))
    /\ UNCHANGED <<drill, mode, art, avatarWaiting>>

\* The activity list.
ChooseDrill(d) ==
    /\ d # drill
    /\ drill' = d
    /\ mode' = DrillMode(d, mode)
    /\ view' = IF d # Reaction /\ view = "fastest" THEN "score" ELSE view
    /\ Load(view', d, mode')
    /\ UNCHANGED <<art, avatarWaiting>>

\* The mode list, hidden without a drill and for the one without Arcade.
ChooseMode(m) ==
    /\ drill \notin {Reaction, StackDrill}
    /\ m # mode
    /\ mode' = DrillMode(drill, m)
    /\ Load(view, drill, mode')
    /\ UNCHANGED <<view, drill, art, avatarWaiting>>

\* VIEW HIGH SCORES, on an empty feed of a drill that has records.
TakeOffer ==
    /\ shown.what = "offer"
    /\ view' = "score"
    /\ Load("score", drill, DrillMode(drill, mode))
    /\ UNCHANGED <<drill, mode, art, avatarWaiting>>

\* The timer, on the Recent view of a visible page.
Refresh ==
    /\ view = "recent"
    /\ Load(view, drill, DrillMode(drill, mode))
    /\ UNCHANGED <<view, drill, mode, art, avatarWaiting>>

\* A board arrives, and is drawn if it is the latest and right.
Answered(request, answered) ==
    /\ request \in requested
    /\ ~BadRequest(request.url)
    /\ answered \in AnswerModes(request.url)
    /\ requested' = requested \ {request}
    /\ \/ /\ ~Latest(request)
          /\ UNCHANGED <<shown, avatarWaiting>>
       \/ /\ Latest(request) /\ Wrong(answered)
          /\ shown' = Offline
          /\ UNCHANGED avatarWaiting
       \/ /\ Latest(request) /\ ~Wrong(answered)
          /\ \E what \in {"rows", "empty", "broken"} \cup (IF Offers THEN {"offer"} ELSE {}) :
                /\ shown' = Drawn(what, request, answered)
                /\ avatarWaiting' \in Waiting(what, request)
    /\ UNCHANGED <<view, drill, mode, loadGeneration, art>>

\* A request fails: refused, an error, or no network.
Failed(request) ==
    /\ request \in requested
    /\ requested' = requested \ {request}
    /\ shown' = IF Latest(request) THEN Offline ELSE shown
    /\ UNCHANGED <<view, drill, mode, loadGeneration, art, avatarWaiting>>

\* The art arrives, and the waiting tiles are painted.
ArtLoaded ==
    /\ art = "loading"
    /\ art' = "here"
    /\ avatarWaiting' = {}
    /\ UNCHANGED <<view, drill, mode, loadGeneration, requested, shown>>

\* It does not, or is not what it should be: the tiles stay plain, and in the
\* second case on the list.  It is not asked for again.
ArtFailed ==
    /\ art = "loading"
    /\ art' = "failed"
    /\ avatarWaiting' \in {{}, avatarWaiting}
    /\ UNCHANGED <<view, drill, mode, loadGeneration, requested, shown>>

PageNext ==
    \/ \E v \in Views : ChooseView(v)
    \/ \E d \in Drills \cup {Reaction} : ChooseDrill(d)
    \/ \E m \in Modes : ChooseMode(m)
    \/ TakeOffer \/ Refresh
    \/ \E request \in requested :
          \/ \E answered \in Modes \cup {"none"} : Answered(request, answered)
          \/ Failed(request)
    \/ ArtLoaded \/ ArtFailed

PageSpec == PageInit /\ [][PageNext]_pageVars

-----------------------------------------------------------------------------
(* Properties.                                                               *)

Urls == {Url(v, d, m) : v \in Views, d \in Drills \cup {Reaction}, m \in Modes}

\* Every variable keeps its shape; requests carry different generations.
PageTypeOK ==
    /\ view \in Views /\ drill \in Drills \cup {Reaction} /\ mode \in Modes
    /\ loadGeneration \in 1..MaxLoads
    /\ requested \subseteq [generation : 1..loadGeneration, url : Urls]
    /\ shown \in {Loading, Offline} \cup
           [what : {"rows", "empty", "offer", "broken"}, url : Urls,
            mode : Modes \cup {"none"}, load : 1..loadGeneration]
    /\ art \in {"loading", "here", "failed"}
    /\ avatarWaiting \subseteq 1..loadGeneration

\* In whatever order the answers come, the page shows the board that is
\* selected: an answer to the selected request, of the selected mode; never one
\* for an earlier choice; and it says Loading only while that answer is still
\* to come.
ShowsSelection ==
    /\ shown.what \notin {"loading", "offline"} =>
           /\ shown.url = Selected
           /\ Selected.path = "drills" /\ Selected.mode = "arcade"
                  => shown.mode = "arcade"
    /\ shown.what = "loading" =>
           \E request \in requested :
               request.generation = loadGeneration /\ request.url = Selected

\* Whatever the reader clicks, the page never asks for a board that the
\* handlers refuse, which it would report as the server being offline.
NeverRefused ==
    \A request \in requested : ~BadRequest(request.url)

\* The rows on display have their faces as soon as the art is here: no tile is
\* left waiting for it.
FacesPainted ==
    /\ art = "here" => avatarWaiting = {}
    /\ shown.what = "rows" /\ art = "loading" => shown.load \in avatarWaiting

\* All of it, whatever the order of clicks, answers, failures and the art.
PageFaithful == ShowsSelection /\ NeverRefused /\ FacesPainted
=============================================================================
