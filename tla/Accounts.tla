------------------------------- MODULE Accounts -------------------------------
(***************************************************************************)
(* Player accounts: registration, bearer authentication, the routes a      *)
(* player uses on its own account, and the erasure the app runs as a job.  *)
(*                                                                         *)
(* A handler is a chain of middleware, and each link asks the database on  *)
(* its own: between two links any other request may run.  One link is one  *)
(* action.  The app is outside the repository: its erase job is the one    *)
(* the comments of players/handlers.go describe.  A definition with a      *)
(* suffix after an underscore is the one below it with a fault seeded in.  *)
(***************************************************************************)
EXTENDS FiniteSets

CONSTANTS
    Players,   \* player ids, minted at random with a token each
    Requests,  \* requests the server may be serving at once
    Nobody,    \* a missing, malformed or unknown token
    Free       \* the state of a request slot not in use

ASSUME NobodyAssumption == Nobody \notin Players

VARIABLES
    rows,      \* players table: ids whose row, and so whose token, exists
    data,      \* ids some feature table references
    app,       \* what the app that registered an id knows of it
    served     \* the request in each slot

vars == <<rows, data, app, served>>

\* "submit" stands for every authenticated write of another feature.
Ops   == {"erase", "rename", "avatar", "submit", "profile"}
Steps == {"exists", "bearer", "act", "answered"}
Codes == {0, 200, 201, 204, 401, 403, 404, 500}
Request == [op : Ops, id : Players, token : Players \cup {Nobody},
            step : Steps, code : Codes]

AppStates == {"none", "enrolled", "orphaned", "erasing", "forgotten"}

\* An app holds an id and its token from the registration's answer to the end
\* of its erase job.
HoldsToken(p) == app[p] \in {"enrolled", "erasing"}

\* A request to a player's own account; the erase job sends such erasures.
Own(r)      == r.id = r.token
OwnErase(r) == r.op = "erase" /\ Own(r)

At(s, step)   == served[s] # Free /\ served[s].step = step
Becomes(s, r) == served' = [served EXCEPT ![s] = r]

Continue(s, step) == Becomes(s, [served[s] EXCEPT !.step = step])
Reply_NoStatus(s, code) ==
    Becomes(s, [served[s] EXCEPT !.step = "answered"])
Reply(s, code) ==
    Becomes(s, [served[s] EXCEPT !.step = "answered", !.code = code])

-----------------------------------------------------------------------------
Init ==
    /\ rows = {}
    /\ data = {}
    /\ app = [p \in Players |-> "none"]
    /\ served = [s \in Requests |-> Free]

\* POST /v1/players: one INSERT.  If its answer is lost nobody holds the token.
Register(p) ==
    /\ app[p] = "none"
    /\ rows' = rows \cup {p}
    /\ \E known \in {"enrolled", "orphaned"} : app' = [app EXCEPT ![p] = known]
    /\ UNCHANGED <<data, served>>

\* The player asks for REMOVE MY SCORES.
StartErase(p) ==
    /\ app[p] = "enrolled"
    /\ app' = [app EXCEPT ![p] = "erasing"]
    /\ UNCHANGED <<rows, data, served>>

\* The first link of each route.
Entry_BearerFirst(op) == IF op = "profile" THEN "exists" ELSE "bearer"
Entry(op) == IF op \in {"erase", "profile"} THEN "exists" ELSE "bearer"

\* Anyone may send a request with a token it holds, or none, about any id that
\* was ever minted: ids are random, none is named before.  A player erases its
\* own account only through the job, which sends again while earlier sendings
\* may still be served.
Send(s, op, id, token) ==
    /\ served[s] = Free
    /\ app[id] # "none"
    /\ token \in {Nobody} \cup {p \in Players : HoldsToken(p)}
    /\ op = "erase" /\ id = token => app[id] = "erasing"
    /\ Becomes(s, [op |-> op, id |-> id, token |-> token,
                   step |-> Entry(op), code |-> 0])
    /\ UNCHANGED <<rows, data, app>>

\* requireExists, and the look-up of the public profile.
Exists(s) ==
    /\ At(s, "exists")
    /\ IF served[s].id \notin rows THEN Reply(s, 404)
       ELSE Continue(s, IF served[s].op = "profile" THEN "act" ELSE "bearer")
    /\ UNCHANGED <<rows, data, app>>

\* What requireOwner lets through: submissions name no id.
Allowed_AnyAccount(r) == TRUE
Allowed(r)            == r.op = "submit" \/ Own(r)

\* The answer to a token that is missing, malformed or unknown.
Unauthorized_Hidden == 404
Unauthorized        == 401

\* RequireBearer, then requireOwner, which asks the database nothing.
Bearer(s) ==
    /\ At(s, "bearer")
    /\ IF served[s].token \notin rows THEN Reply(s, Unauthorized)
       ELSE IF ~Allowed(served[s]) THEN Reply(s, 403)
       ELSE Continue(s, "act")
    /\ UNCHANGED <<rows, data, app>>

\* A statement on the row of an authenticated player: no row is a 404.
Update(s) ==
    /\ At(s, "act") /\ served[s].op \in {"rename", "avatar"}
    /\ Reply(s, IF served[s].token \in rows THEN 200 ELSE 404)
    /\ UNCHANGED <<rows, data, app>>

\* DELETE FROM players cascades through every feature table.
Cascade_RowOnly(S, p) == S
Cascade(S, p)         == S \ {p}

Erase(s) ==
    /\ At(s, "act") /\ served[s].op = "erase"
    /\ rows' = rows \ {served[s].token}
    /\ data' = Cascade(data, served[s].token)
    /\ Reply(s, IF served[s].token \in rows THEN 204 ELSE 404)
    /\ UNCHANGED app

\* A feature's insert: the foreign key of a row that is gone fails it.
Submit(s) ==
    /\ At(s, "act") /\ served[s].op = "submit"
    /\ IF served[s].token \in rows
       THEN data' = data \cup {served[s].token} /\ Reply(s, 201)
       ELSE UNCHANGED data /\ Reply(s, 500)
    /\ UNCHANGED <<rows, app>>

\* The profile's scores are read after the look-up, whatever came in between.
Profile(s) ==
    /\ At(s, "act") /\ served[s].op = "profile"
    /\ Reply(s, 200)
    /\ UNCHANGED <<rows, data, app>>

Act(s) == Update(s) \/ Erase(s) \/ Submit(s) \/ Profile(s)

\* A failing statement, or a cancelled request, is a 500.
Fail(s) ==
    /\ \E step \in {"exists", "bearer", "act"} : At(s, step)
    /\ Reply(s, 500)
    /\ UNCHANGED <<rows, data, app>>

\* The erase job is over when it hears 204 or 404; any other answer is retried.
Finished(code) == code \in {204, 404}

Deliver(s) ==
    /\ At(s, "answered")
    /\ Becomes(s, Free)
    /\ app' = IF OwnErase(served[s]) /\ Finished(served[s].code)
              THEN [app EXCEPT ![served[s].id] = "forgotten"]
              ELSE app
    /\ UNCHANGED <<rows, data>>

\* The answer, or the server serving the request, is lost.  What the request
\* committed stays.
Lose(s) ==
    /\ served[s] # Free
    /\ Becomes(s, Free)
    /\ UNCHANGED <<rows, data, app>>

\* The process restarts: every request being served is lost.
Restart ==
    /\ served' = [s \in Requests |-> Free]
    /\ UNCHANGED <<rows, data, app>>

\* Whatever ends or advances a request being served.
Serve(s) ==
    Exists(s) \/ Bearer(s) \/ Act(s) \/ Fail(s) \/ Deliver(s) \/ Lose(s)

Next ==
    \/ \E p \in Players : Register(p) \/ StartErase(p)
    \/ \E s \in Requests :
        \/ \E op \in Ops, id \in Players, token \in Players \cup {Nobody} :
              Send(s, op, id, token)
        \/ Serve(s)
    \/ Restart

Spec == Init /\ [][Next]_vars

-----------------------------------------------------------------------------
(* Properties.                                                               *)

\* Every variable keeps its shape, and a request has a status exactly when it
\* has been answered.
TypeOK ==
    /\ rows \subseteq Players
    /\ data \subseteq Players
    /\ app \in [Players -> AppStates]
    /\ served \in [Requests -> Request \cup {Free}]
    /\ \A s \in Requests :
           served[s] # Free => (served[s].code # 0 <=> At(s, "answered"))

\* When the app has forgotten an account, nothing of it is left and nothing of
\* it comes back, whatever was in flight when it was erased.
ForgottenIsErased ==
    \A p \in Players : app[p] = "forgotten" => p \notin rows \cup data

\* "Never 404, so a wrong token is never mistaken for nothing to delete": an
\* erasure is answered 204 or 404 only when the account is gone.
GoneMeansGone ==
    \A s \in Requests :
        At(s, "answered") /\ served[s].op = "erase"
            /\ served[s].code \in {204, 404}
        => served[s].id \notin rows \cup data

\* An account disappears only by its own player's erase job.
OnlyOwnerErases ==
    [][\A p \in rows \ rows' :
           /\ app[p] = "erasing"
           /\ \E s \in Requests : /\ At(s, "act")
                                  /\ OwnErase(served[s])
                                  /\ served[s].id = p]_vars

\* "A row that vanished between requireExists and here is a 404 through fail"
\* (players/handlers.go): the erase job never hears 401 for its own token.
VanishedIs404 ==
    \A s \in Requests :
        At(s, "answered") /\ OwnErase(served[s]) => served[s].code # 401

-----------------------------------------------------------------------------
(* The inductive strengthening behind the safety properties.                 *)

\* Feature rows belong to accounts, and accounts to ids once minted.
RowsMinted ==
    /\ data \subseteq rows
    /\ \A p \in rows : app[p] \in {"enrolled", "orphaned", "erasing"}

\* A request names an id once minted; an erasure that has come through to the
\* delete is of its own account; a job's erasure is of a job that was started;
\* and an erasure that may end a job is of an account that is gone.
RequestMinted(r) ==
    /\ app[r.id] # "none"
    /\ r.op = "erase" /\ r.step = "act" => Own(r)
    /\ OwnErase(r) => app[r.id] \in {"erasing", "forgotten"}
    /\ r.op = "erase" /\ r.step = "answered" /\ Finished(r.code)
         => r.id \notin rows

RequestsMinted ==
    \A s \in Requests : served[s] # Free => RequestMinted(served[s])

Minted == RowsMinted /\ RequestsMinted

-----------------------------------------------------------------------------
(* Fairness.  No request is served for ever, and the job retries.  The job's *)
(* statements and answers may fail again and again, but not for ever.        *)
(* Nothing makes anybody else send anything.                                 *)

OfJob(s, p) == served[s] # Free /\ OwnErase(served[s]) /\ served[s].id = p

Fairness ==
    /\ \A s \in Requests : WF_vars(Serve(s))
    /\ \A p \in Players :
          /\ SF_vars(\E s \in Requests : Send(s, "erase", p, p))
          /\ SF_vars(\E s \in Requests : OfJob(s, p) /\ Exists(s))
          /\ SF_vars(\E s \in Requests : OfJob(s, p) /\ Bearer(s))
          /\ SF_vars(\E s \in Requests : OfJob(s, p) /\ Erase(s))
          /\ SF_vars(\E s \in Requests : OfJob(s, p) /\ Deliver(s)
                                           /\ Finished(served[s].code))

FairSpec == Spec /\ Fairness

\* An erasure once asked for is finished: the job does not retry for ever with
\* credentials kept for a player that no longer exists.
EraseFinishes ==
    \A p \in Players : app[p] = "erasing" ~> app[p] = "forgotten"
=============================================================================
