--------------------------- MODULE AccountsProofs ---------------------------
(***************************************************************************)
(* What the erase job may rely on, for any number of players and of        *)
(* requests served at once: Accounts' type invariant, that a forgotten     *)
(* account is erased, that 204 and 404 are only heard of an account that   *)
(* is gone, and that only an account's own job erases it.                  *)
(***************************************************************************)
EXTENDS Accounts, TLAPS

-----------------------------------------------------------------------------
(* Types.                                                                    *)

\* The initial state is of its type, whatever the slots.
LEMMA InitTypeOK == Init => TypeOK
  BY DEF Init, TypeOK, AppStates

\* A slot may take a request of its type that has a status iff it is answered.
LEMMA BecomesType ==
    ASSUME TypeOK, NEW s \in Requests, NEW r \in Request \cup {Free},
           r # Free => (r.code # 0 <=> r.step = "answered"), Becomes(s, r)
    PROVE  /\ served' \in [Requests -> Request \cup {Free}]
           /\ \A t \in Requests :
                 served'[t] # Free =>
                    (served'[t].code # 0 <=> At(t, "answered")')
<1>1. served' = [served EXCEPT ![s] = r] /\ served \in [Requests -> Request \cup {Free}]
  BY DEF Becomes, TypeOK
<1>2. \A t \in Requests : served'[t] = IF t = s THEN r ELSE served[t]
  BY <1>1
<1>3. \A t \in Requests : served[t] # Free =>
         (served[t].code # 0 <=> served[t].step = "answered")
  BY DEF TypeOK, At
<1> QED BY <1>1, <1>2, <1>3 DEF At

\* A request moved on to a step, or answered, keeps its type.
LEMMA MovedType ==
    ASSUME TypeOK, NEW s \in Requests, NEW from \in Steps \ {"answered"},
           At(s, from)
    PROVE  /\ \A step \in Steps \ {"answered"} :
                 /\ [served[s] EXCEPT !.step = step] \in Request
                 /\ [served[s] EXCEPT !.step = step].code = 0
                 /\ [served[s] EXCEPT !.step = step].step = step
           /\ \A code \in Codes :
                 LET r == [served[s] EXCEPT !.step = "answered", !.code = code]
                 IN  r \in Request /\ r.code = code /\ r.step = "answered"
<1>1. served[s] \in Request /\ served[s] # Free /\ served[s].step = from
  BY DEF At, TypeOK
<1>2. served[s].code = 0
  BY <1>1 DEF TypeOK, At
<1> QED BY <1>1, <1>2 DEF Request, Steps


\* Serving a request from a step before its answer keeps the slots' type.
LEMMA ServedType ==
    ASSUME TypeOK, NEW s \in Requests, NEW from \in Steps \ {"answered"},
           At(s, from),
           \/ \E step \in Steps \ {"answered"} : Continue(s, step)
           \/ \E code \in Codes \ {0} : Reply(s, code)
    PROVE  /\ served' \in [Requests -> Request \cup {Free}]
           /\ \A t \in Requests :
                 served'[t] # Free =>
                    (served'[t].code # 0 <=> At(t, "answered")')
<1>1. CASE \E step \in Steps \ {"answered"} : Continue(s, step)
  <2>1. PICK step \in Steps \ {"answered"} : Continue(s, step)
    BY <1>1
  <2> DEFINE r == [served[s] EXCEPT !.step = step]
  <2>2. r \in Request /\ r.code = 0 /\ r.step # "answered"
    BY MovedType
  <2>3. Becomes(s, r)
    BY <2>1 DEF Continue
  <2> HIDE DEF r
  <2> QED BY <2>2, <2>3, BecomesType
<1>2. CASE \E code \in Codes \ {0} : Reply(s, code)
  <2>1. PICK code \in Codes \ {0} : Reply(s, code)
    BY <1>2
  <2> DEFINE r == [served[s] EXCEPT !.step = "answered", !.code = code]
  <2>2. r \in Request /\ r.code = code /\ r.step = "answered"
    BY MovedType
  <2>3. Becomes(s, r)
    BY <2>1 DEF Reply
  <2> HIDE DEF r
  <2> QED BY <2>1, <2>2, <2>3, BecomesType
<1> QED BY <1>1, <1>2

\* Freeing a slot keeps the slots' type.
LEMMA FreedType ==
    ASSUME TypeOK, NEW s \in Requests, Becomes(s, Free)
    PROVE  /\ served' \in [Requests -> Request \cup {Free}]
           /\ \A t \in Requests :
                 served'[t] # Free =>
                    (served'[t].code # 0 <=> At(t, "answered")')
  BY BecomesType

\* Every action keeps the types.
LEMMA NextTypeOK == TypeOK /\ [Next]_vars => TypeOK'
<1> SUFFICES ASSUME TypeOK, [Next]_vars PROVE TypeOK'
  OBVIOUS
<1> USE DEF Codes, Steps
<1>1. ASSUME NEW p \in Players, Register(p) \/ StartErase(p) PROVE TypeOK'
  BY <1>1 DEF Register, StartErase, TypeOK, AppStates, At
<1>2. ASSUME NEW s \in Requests, NEW op \in Ops, NEW id \in Players,
             NEW token \in Players \cup {Nobody}, Send(s, op, id, token)
      PROVE  TypeOK'
  <2> DEFINE r == [op |-> op, id |-> id, token |-> token,
                   step |-> Entry(op), code |-> 0]
  <2>1. r \in Request /\ r.code = 0 /\ r.step # "answered"
    BY DEF Request, Entry, Ops
  <2>2. Becomes(s, r) /\ UNCHANGED <<rows, data, app>>
    BY <1>2 DEF Send
  <2> HIDE DEF r
  <2> QED BY <2>1, <2>2, BecomesType DEF TypeOK
<1>3. ASSUME NEW s \in Requests, Exists(s) PROVE TypeOK'
  <2>1. /\ At(s, "exists") /\ UNCHANGED <<rows, data, app>>
        /\ \/ \E step \in Steps \ {"answered"} : Continue(s, step)
           \/ \E code \in Codes \ {0} : Reply(s, code)
    BY <1>3 DEF Exists
  <2> QED BY <2>1, ServedType DEF TypeOK
<1>4. ASSUME NEW s \in Requests, Bearer(s) PROVE TypeOK'
  <2>1. /\ At(s, "bearer") /\ UNCHANGED <<rows, data, app>>
        /\ \/ \E step \in Steps \ {"answered"} : Continue(s, step)
           \/ \E code \in Codes \ {0} : Reply(s, code)
    BY <1>4 DEF Bearer, Unauthorized
  <2> QED BY <2>1, ServedType DEF TypeOK
<1>5. ASSUME NEW s \in Requests, Update(s) \/ Profile(s) PROVE TypeOK'
  <2>1. /\ At(s, "act") /\ UNCHANGED <<rows, data, app>>
        /\ \E code \in Codes \ {0} : Reply(s, code)
    BY <1>5 DEF Update, Profile
  <2> QED BY <2>1, ServedType DEF TypeOK
<1>6. ASSUME NEW s \in Requests, Erase(s) PROVE TypeOK'
  <2>1. /\ At(s, "act") /\ UNCHANGED app
        /\ \E code \in Codes \ {0} : Reply(s, code)
    BY <1>6 DEF Erase
  <2>2. rows' \subseteq rows /\ data' \subseteq data
    BY <1>6 DEF Erase, Cascade
  <2> QED BY <2>1, <2>2, ServedType DEF TypeOK
<1>7. ASSUME NEW s \in Requests, Submit(s) PROVE TypeOK'
  <2>1. /\ At(s, "act") /\ UNCHANGED <<rows, app>>
        /\ \E code \in Codes \ {0} : Reply(s, code)
    BY <1>7 DEF Submit
  <2>2. data' \subseteq data \cup rows
    BY <1>7 DEF Submit
  <2> QED BY <2>1, <2>2, ServedType DEF TypeOK
<1>8. ASSUME NEW s \in Requests, Fail(s) PROVE TypeOK'
  <2>1. PICK from \in Steps \ {"answered"} : At(s, from)
    BY <1>8 DEF Fail
  <2>2. UNCHANGED <<rows, data, app>> /\ \E code \in Codes \ {0} : Reply(s, code)
    BY <1>8 DEF Fail
  <2> QED BY <2>1, <2>2, ServedType DEF TypeOK
<1>9. ASSUME NEW s \in Requests, Deliver(s) PROVE TypeOK'
  <2>1. Becomes(s, Free) /\ UNCHANGED <<rows, data>>
    BY <1>9 DEF Deliver
  <2>2. app' \in [Players -> AppStates]
    BY <1>9 DEF Deliver, TypeOK, AppStates
  <2> QED BY <2>1, <2>2, FreedType DEF TypeOK
<1>10. ASSUME NEW s \in Requests, Lose(s) PROVE TypeOK'
  BY <1>10, FreedType DEF Lose, TypeOK
<1>11. CASE Restart
  BY <1>11 DEF Restart, TypeOK
<1>12. CASE UNCHANGED vars
  BY <1>12 DEF vars, TypeOK, At
<1> QED BY <1>1, <1>2, <1>3, <1>4, <1>5, <1>6, <1>7, <1>8, <1>9, <1>10, <1>11,
            <1>12 DEF Next, Serve, Act

\* Every variable of an account keeps its type.
THEOREM TypeCorrect == Spec => []TypeOK
<1>1. Init => TypeOK
  BY InitTypeOK
<1>2. TypeOK /\ [Next]_vars => TypeOK'
  BY NextTypeOK
<1> QED BY <1>1, <1>2, PTL DEF Spec


-----------------------------------------------------------------------------
(* Minted accounts and requests.                                             *)

\* The initial state has no account and serves no request.
LEMMA InitMinted == Init => Minted
  BY DEF Init, Minted, RowsMinted, RequestsMinted

\* A slot may take a fitting request while no account comes or changes hands.
LEMMA BecomesMinted ==
    ASSUME TypeOK, RequestsMinted, NEW s \in Requests, NEW r, Becomes(s, r),
           rows' \subseteq rows, app' = app, r # Free => RequestMinted(r)'
    PROVE  RequestsMinted'
<1> SUFFICES ASSUME NEW t \in Requests, served'[t] # Free
             PROVE  RequestMinted(served[t])'
  BY DEF RequestsMinted
<1>1. served'[t] = IF t = s THEN r ELSE served[t]
  BY DEF Becomes, TypeOK
<1>2. CASE t = s
  BY <1>1, <1>2
<1>3. CASE t # s
  <2>1. served[t] # Free /\ RequestMinted(served[t])
    BY <1>1, <1>3 DEF RequestsMinted
  <2> QED BY <1>1, <1>3, <2>1 DEF RequestMinted, OwnErase, Own
<1> QED BY <1>2, <1>3

\* A request moved on, or answered, is the same request but for that.
LEMMA MovedRequest ==
    ASSUME TypeOK, NEW s \in Requests, NEW from \in Steps, At(s, from)
    PROVE  /\ \A step \in Steps :
                 LET r == [served[s] EXCEPT !.step = step]
                 IN  /\ r.step = step /\ r.id = served[s].id
                     /\ r.op = served[s].op /\ r.token = served[s].token
           /\ \A code \in Codes :
                 LET r == [served[s] EXCEPT !.step = "answered", !.code = code]
                 IN  /\ r.step = "answered" /\ r.code = code
                     /\ r.id = served[s].id /\ r.op = served[s].op
                     /\ r.token = served[s].token
<1>1. served[s] \in Request
  BY DEF At, TypeOK
<1> QED BY <1>1 DEF Request

\* An answer keeps requests fitting: one that may end a job needs the account
\* to be gone.
LEMMA ReplyMinted ==
    ASSUME TypeOK, RequestsMinted, NEW s \in Requests, NEW from \in Steps,
           At(s, from), NEW code \in Codes, Reply(s, code),
           rows' \subseteq rows, app' = app,
           served[s].op = "erase" /\ Finished(code) => served[s].id \notin rows'
    PROVE  RequestsMinted'
<1>0. PICK r : r = [served[s] EXCEPT !.step = "answered", !.code = code]
  OBVIOUS
<1>1. /\ r.step = "answered" /\ r.code = code /\ r.id = served[s].id
      /\ r.op = served[s].op /\ r.token = served[s].token
  BY <1>0, MovedRequest
<1>2. Becomes(s, r)
  BY <1>0 DEF Reply
<1>3. RequestMinted(served[s])
  BY DEF At, RequestsMinted
<1>4. RequestMinted(r)'
  BY <1>1, <1>3 DEF RequestMinted, OwnErase, Own
<1> QED BY <1>2, <1>4, BecomesMinted

\* So does a step on: only an own erasure may come through to the delete.
LEMMA ContinueMinted ==
    ASSUME TypeOK, RequestsMinted, NEW s \in Requests, NEW from \in Steps,
           At(s, from), NEW step \in Steps \ {"answered"}, Continue(s, step),
           UNCHANGED <<rows, app>>,
           served[s].op = "erase" /\ step = "act" => Own(served[s])
    PROVE  RequestsMinted'
<1>0. PICK r : r = [served[s] EXCEPT !.step = step]
  OBVIOUS
<1>1. /\ r.step = step /\ r.id = served[s].id
      /\ r.op = served[s].op /\ r.token = served[s].token
  BY <1>0, MovedRequest
<1>2. Becomes(s, r)
  BY <1>0 DEF Continue
<1>3. RequestMinted(served[s])
  BY DEF At, RequestsMinted
<1>4. RequestMinted(r)'
  BY <1>1, <1>3 DEF RequestMinted, OwnErase, Own
<1> QED BY <1>2, <1>4, BecomesMinted

\* Every action keeps accounts and requests minted.
LEMMA NextMinted == TypeOK /\ Minted /\ [Next]_vars => Minted'
<1> SUFFICES ASSUME TypeOK, RowsMinted, RequestsMinted, [Next]_vars
             PROVE  RowsMinted' /\ RequestsMinted'
  BY DEF Minted
<1> USE DEF Codes, Steps
<1>1. ASSUME NEW p \in Players, Register(p)
      PROVE  RowsMinted' /\ RequestsMinted'
  <2>1. RowsMinted'
    BY <1>1 DEF Register, RowsMinted, TypeOK
  <2>2. RequestsMinted'
    BY <1>1 DEF Register, RequestsMinted, RequestMinted, TypeOK, OwnErase, Own,
                Request
  <2> QED BY <2>1, <2>2
<1>2. ASSUME NEW p \in Players, StartErase(p)
      PROVE  RowsMinted' /\ RequestsMinted'
  <2>1. RowsMinted'
    BY <1>2 DEF StartErase, RowsMinted, TypeOK
  <2>2. RequestsMinted'
    BY <1>2 DEF StartErase, RequestsMinted, RequestMinted, TypeOK, OwnErase, Own,
                Request
  <2> QED BY <2>1, <2>2
<1>3. ASSUME NEW s \in Requests, NEW op \in Ops, NEW id \in Players,
             NEW token \in Players \cup {Nobody}, Send(s, op, id, token)
      PROVE  RowsMinted' /\ RequestsMinted'
  <2> DEFINE r == [op |-> op, id |-> id, token |-> token,
                   step |-> Entry(op), code |-> 0]
  <2>1. RequestMinted(r)'
    BY <1>3 DEF Send, RequestMinted, Entry, OwnErase, Own
  <2>2. Becomes(s, r) /\ UNCHANGED <<rows, data, app>>
    BY <1>3 DEF Send
  <2> HIDE DEF r
  <2> QED BY <2>1, <2>2, BecomesMinted DEF RowsMinted
<1>4. ASSUME NEW s \in Requests, Exists(s)
      PROVE  RowsMinted' /\ RequestsMinted'
  <2>1. At(s, "exists") /\ UNCHANGED <<rows, data, app>>
    BY <1>4 DEF Exists
  <2>2. CASE served[s].id \notin rows
    <3>1. Reply(s, 404)
      BY <1>4, <2>2 DEF Exists
    <3> QED BY <2>1, <2>2, <3>1, ReplyMinted DEF RowsMinted
  <2>3. CASE served[s].id \in rows
    <3>1. PICK step \in {"act", "bearer"} :
             Continue(s, step) /\ (step = "act" => served[s].op = "profile")
      BY <1>4, <2>3 DEF Exists
    <3> QED BY <2>1, <3>1, ContinueMinted DEF RowsMinted
  <2> QED BY <2>2, <2>3
<1>5. ASSUME NEW s \in Requests, Bearer(s)
      PROVE  RowsMinted' /\ RequestsMinted'
  <2>1. At(s, "bearer") /\ UNCHANGED <<rows, data, app>>
    BY <1>5 DEF Bearer
  <2>2. ASSUME NEW code \in {401, 403}, Reply(s, code) PROVE RequestsMinted'
    BY <2>1, <2>2, ReplyMinted DEF Finished
  <2>3. CASE Continue(s, "act") /\ Allowed(served[s])
    <3>1. served[s].op = "erase" => Own(served[s])
      BY <2>3 DEF Allowed
    <3> QED BY <2>1, <2>3, <3>1, ContinueMinted DEF RowsMinted
  <2> QED BY <1>5, <2>1, <2>2, <2>3 DEF Bearer, Unauthorized, RowsMinted
<1>6. ASSUME NEW s \in Requests, Update(s) \/ Profile(s)
      PROVE  RowsMinted' /\ RequestsMinted'
  <2>1. /\ At(s, "act") /\ UNCHANGED <<rows, data, app>>
        /\ served[s].op # "erase"
        /\ \E code \in Codes : Reply(s, code)
    BY <1>6 DEF Update, Profile
  <2> QED BY <2>1, ReplyMinted DEF RowsMinted
<1>7. ASSUME NEW s \in Requests, Erase(s)
      PROVE  RowsMinted' /\ RequestsMinted'
  <2>1. /\ At(s, "act") /\ UNCHANGED app /\ served[s].op = "erase"
        /\ rows' = rows \ {served[s].token}
        /\ data' = data \ {served[s].token}
        /\ \E code \in Codes : Reply(s, code)
    BY <1>7 DEF Erase, Cascade
  <2>2. served[s].id = served[s].token
    BY <2>1 DEF At, RequestsMinted, RequestMinted, Own
  <2>3. RequestsMinted'
    BY <2>1, <2>2, ReplyMinted
  <2>4. RowsMinted'
    BY <2>1 DEF RowsMinted
  <2> QED BY <2>3, <2>4
<1>8. ASSUME NEW s \in Requests, Submit(s)
      PROVE  RowsMinted' /\ RequestsMinted'
  <2>1. /\ At(s, "act") /\ UNCHANGED <<rows, app>> /\ served[s].op # "erase"
        /\ data' \subseteq rows
        /\ \E code \in Codes : Reply(s, code)
    BY <1>8 DEF Submit, RowsMinted
  <2> QED BY <2>1, ReplyMinted DEF RowsMinted
<1>9. ASSUME NEW s \in Requests, Fail(s)
      PROVE  RowsMinted' /\ RequestsMinted'
  <2>1. /\ UNCHANGED <<rows, data, app>> /\ Reply(s, 500)
        /\ \E from \in Steps : At(s, from)
    BY <1>9 DEF Fail
  <2> QED BY <2>1, ReplyMinted DEF RowsMinted, Finished
<1>10. ASSUME NEW s \in Requests, Deliver(s)
       PROVE  RowsMinted' /\ RequestsMinted'
  <2>1. At(s, "answered") /\ Becomes(s, Free) /\ UNCHANGED <<rows, data>>
    BY <1>10 DEF Deliver
  <2>2. CASE OwnErase(served[s]) /\ Finished(served[s].code)
    <3> DEFINE p == served[s].id
    <3>1. p \in Players /\ p \notin rows
      BY <2>1, <2>2 DEF At, RequestsMinted, RequestMinted, OwnErase, TypeOK,
                        Request
    <3>2. app' = [app EXCEPT ![p] = "forgotten"] /\ app \in [Players -> AppStates]
      BY <1>10, <2>2 DEF Deliver, TypeOK
    <3>3. \A q \in Players : app'[q] = IF q = p THEN "forgotten" ELSE app[q]
      BY <3>1, <3>2
    <3>4. RowsMinted'
      BY <2>1, <3>1, <3>3 DEF RowsMinted, TypeOK
    <3>5. ASSUME NEW t \in Requests, served'[t] # Free
          PROVE  RequestMinted(served[t])'
      <4>1. served'[t] = served[t] /\ served[t] # Free
        BY <2>1, <3>5 DEF Becomes, TypeOK
      <4>2. RequestMinted(served[t]) /\ served[t].id \in Players
        BY <4>1 DEF RequestsMinted, TypeOK, Request
      <4> HIDE DEF p
      <4> QED BY <2>1, <3>3, <4>1, <4>2 DEF RequestMinted, OwnErase, Own
    <3> QED BY <3>4, <3>5 DEF RequestsMinted
  <2>3. CASE ~(OwnErase(served[s]) /\ Finished(served[s].code))
    <3>1. UNCHANGED app
      BY <1>10, <2>3 DEF Deliver
    <3> QED BY <2>1, <3>1, BecomesMinted DEF RowsMinted
  <2> QED BY <2>2, <2>3
<1>11. ASSUME NEW s \in Requests, Lose(s)
       PROVE  RowsMinted' /\ RequestsMinted'
  BY <1>11, BecomesMinted DEF Lose, RowsMinted
<1>12. CASE Restart
  BY <1>12 DEF Restart, RowsMinted, RequestsMinted
<1>13. CASE UNCHANGED vars
  BY <1>13 DEF vars, RowsMinted, RequestsMinted, RequestMinted, OwnErase, Own
<1> QED BY <1>1, <1>2, <1>3, <1>4, <1>5, <1>6, <1>7, <1>8, <1>9, <1>10, <1>11,
            <1>12, <1>13 DEF Next, Serve, Act

-----------------------------------------------------------------------------
(* The theorems.                                                             *)

\* Accounts, and requests about them, are always of minted ids, and an erasure
\* that may end a job is of an account that is gone.
THEOREM MintedInvariant == Spec => []Minted
<1>1. Init => TypeOK /\ Minted
  BY InitTypeOK, InitMinted
<1>2. TypeOK /\ Minted /\ [Next]_vars => TypeOK' /\ Minted'
  BY NextTypeOK, NextMinted
<1> QED BY <1>1, <1>2, PTL DEF Spec

\* Nothing is left of an account the app has forgotten.
THEOREM ForgottenIsErasedInvariant == Spec => []ForgottenIsErased
<1>1. TypeOK /\ Minted => ForgottenIsErased
  BY DEF TypeOK, Minted, RowsMinted, ForgottenIsErased
<1> QED BY <1>1, TypeCorrect, MintedInvariant, PTL

\* An erasure hears 204 or 404 only of an account that is gone.
THEOREM GoneMeansGoneInvariant == Spec => []GoneMeansGone
<1>1. TypeOK /\ Minted => GoneMeansGone
  BY DEF TypeOK, At, Minted, RowsMinted, RequestsMinted, RequestMinted,
         GoneMeansGone, Finished
<1> QED BY <1>1, TypeCorrect, MintedInvariant, PTL

\* An account disappears only in the delete of its own player's erase job.
THEOREM OnlyOwnerErasesHolds == Spec => OnlyOwnerErases
<1> DEFINE Owned == \A p \in rows \ rows' :
                       /\ app[p] = "erasing"
                       /\ \E s \in Requests : /\ At(s, "act")
                                              /\ OwnErase(served[s])
                                              /\ served[s].id = p
<1>1. TypeOK /\ Minted /\ [Next]_vars => [Owned]_vars
  <2> SUFFICES ASSUME TypeOK, Minted, Next, NEW p \in rows, p \notin rows'
               PROVE  /\ app[p] = "erasing"
                      /\ \E s \in Requests : /\ At(s, "act")
                                             /\ OwnErase(served[s])
                                             /\ served[s].id = p
    OBVIOUS
  <2>1. PICK s \in Requests : Erase(s)
    BY DEF Next, Serve, Act, Register, StartErase, Send, Exists, Bearer, Update,
           Submit, Profile, Fail, Deliver, Lose, Restart
  <2>2. /\ At(s, "act") /\ served[s].op = "erase" /\ served[s].token = p
    BY <2>1 DEF Erase
  <2>3. RequestMinted(served[s]) /\ Own(served[s])
    BY <2>2 DEF Minted, RequestsMinted, RequestMinted, At
  <2>4. OwnErase(served[s]) /\ served[s].id = p
    BY <2>2, <2>3 DEF OwnErase, Own
  <2>5. app[p] = "erasing"
    BY <2>3, <2>4 DEF RequestMinted, Minted, RowsMinted
  <2> QED BY <2>2, <2>4, <2>5
<1> QED BY <1>1, TypeCorrect, MintedInvariant, PTL DEF Spec, OnlyOwnerErases
=============================================================================
