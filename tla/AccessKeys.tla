----------------------------- MODULE AccessKeys -----------------------------
(***************************************************************************)
(* admin.AccessVerifier: the cache of the identity provider's signing keys *)
(* in front of the reports page.  Keys are fetched over the network under  *)
(* the verifier's lock, are fresh for MaxAge, and are asked for at most    *)
(* once per RetryGap; a failed fetch keeps what there is.                  *)
(*                                                                         *)
(* A token is its key id and the interval it is valid in.  Its shape, its  *)
(* signature, issuer and audience are right, and it has an expiry: one     *)
(* that is not so is refused without touching any state.  Minutes count    *)
(* from the start of the process, so that none of them means "absent".     *)
(***************************************************************************)
EXTENDS Integers, FiniteSets

CONSTANTS
    Kids,          \* ids of signing keys, each published and withdrawn once
    Visitors,      \* page requests at once
    Tokens,        \* validity of tokens: pairs <<nbf, exp>>
    MaxAge,        \* keyMaxAge, in minutes (60)
    RetryGap,      \* keyRetryMinGap (1)
    Skew,          \* clockSkew (1)
    FetchTime,     \* minutes a fetch may straddle (the client gives up after 5 s)
    MaxMinute      \* bound: last minute of the clock

ASSUME AgesAssumption == /\ MaxAge \in Nat /\ RetryGap \in Nat \ {0} /\ Skew \in Nat
                         /\ FetchTime \in Nat /\ MaxMinute \in Nat
                         /\ RetryGap <= MaxAge
ASSUME TokensAssumption == Tokens \subseteq Nat \X Nat
ASSUME VisitorsAssumption == "nobody" \notin Visitors

VARIABLES
    minute,       \* the clock
    published,    \* when the provider published and withdrew each key
    cache,        \* v.keys, the ids held
    fetchedAt,    \* v.fetchedAt
    fetch,        \* the fetch under way, under the lock, or NoFetch
    requests,     \* what each request is doing
    failed        \* the last fetch failed (history variable)

keysVars == <<minute, published, cache, fetchedAt, fetch, requests, failed>>

-----------------------------------------------------------------------------
Never  == -1                \* the zero time.Time
NotYet == MaxMinute + 1     \* a key not published, or not withdrawn, so far

\* The key ids the provider publishes now.
Published == {k \in Kids : published[k].from <= minute /\ published[k].to = NotYet}

NoFetch == [by |-> "nobody"]
Quiet   == [doing |-> "idle"]

\* asking, waiting for the lock; found, with the key in hand; answered.  at is
\* the clock read under the lock, judged the one the claims are held against.
RequestRow ==
    [doing : {"asking"}, kid : Kids, token : Tokens]
    \cup [doing : {"found", "unknown"}, kid : Kids, token : Tokens,
          at : Nat, failed : BOOLEAN]
    \cup [doing : {"accepted", "expired"}, kid : Kids, token : Tokens,
          at : Nat, failed : BOOLEAN, judged : Nat]
    \cup {Quiet}

Held(k, ids) == IF k \in ids THEN "found" ELSE "unknown"

\* The keys may be used without asking; and asking again would be too soon.
Fresh(now) == now - fetchedAt < MaxAge

TooSoon_WhileFresh(now) == fetchedAt # Never /\ Fresh(now)
TooSoon(now) == fetchedAt # Never /\ now - fetchedAt < RetryGap

\* now, the claims' clock, is read again once the key is in hand.
InTime(r, now) == r.token[1] <= now + Skew /\ now <= r.token[2] + Skew

-----------------------------------------------------------------------------
(* Actions.                                                                  *)

KeysInit ==
    /\ minute = 0
    /\ published \in [Kids -> {[from |-> 0, to |-> NotYet],
                               [from |-> NotYet, to |-> NotYet]}]
    /\ cache = {}
    /\ fetchedAt = Never
    /\ fetch = NoFetch
    /\ requests = [r \in Visitors |-> Quiet]
    /\ failed = FALSE

\* A request for the page with a well-formed token.
Present(r, k, t) ==
    /\ requests[r] = Quiet
    /\ requests' = [requests EXCEPT ![r] =
                       [doing |-> "asking", kid |-> k, token |-> t]]
    /\ UNCHANGED <<minute, published, cache, fetchedAt, fetch, failed>>

Looked(r, outcome, at, badly) ==
    requests' = [requests EXCEPT ![r] =
                    [doing |-> outcome, kid |-> @.kid, token |-> @.token,
                     at |-> at, failed |-> badly]]

\* key(): the lock is free and the cache answers, or it is too soon to ask.
Lookup(r) ==
    /\ requests[r].doing = "asking"
    /\ fetch = NoFetch
    /\ \/ requests[r].kid \in cache /\ Fresh(minute)
       \/ TooSoon(minute)
    /\ Looked(r, Held(requests[r].kid, cache), minute, failed)
    /\ UNCHANGED <<minute, published, cache, fetchedAt, fetch, failed>>

\* key(): the fetch begins; the lock is held until it ends.
StartFetch(r) ==
    /\ requests[r].doing = "asking"
    /\ fetch = NoFetch
    /\ ~(requests[r].kid \in cache /\ Fresh(minute))
    /\ ~TooSoon(minute)
    /\ fetch' = [by |-> r, at |-> minute, then |-> Published]
    /\ UNCHANGED <<minute, published, cache, fetchedAt, requests, failed>>

\* The provider answered with the keys of when it was asked or of just now.
FetchOK(r) ==
    /\ fetch.by = r
    /\ \E ids \in {fetch.then, Published} \ {{}} :
          /\ cache' = ids
          /\ Looked(r, Held(requests[r].kid, ids), fetch.at, FALSE)
    /\ fetchedAt' = fetch.at
    /\ failed' = FALSE
    /\ fetch' = NoFetch
    /\ UNCHANGED <<minute, published>>

\* A timeout, an error, no usable key in the answer, or a caller who hung up:
\* the old keys stay, and the attempt is dated all the same.
FetchFailed(r) ==
    /\ fetch.by = r
    /\ Looked(r, Held(requests[r].kid, cache), fetch.at, TRUE)
    /\ fetchedAt' = fetch.at
    /\ failed' = TRUE
    /\ fetch' = NoFetch
    /\ UNCHANGED <<minute, published, cache>>

\* Signature and claims.
Judge(r) ==
    /\ requests[r].doing = "found"
    /\ requests' = [requests EXCEPT ![r] =
           [doing |-> IF InTime(@, minute) THEN "accepted" ELSE "expired",
            kid |-> @.kid, token |-> @.token, at |-> @.at, failed |-> @.failed,
            judged |-> minute]]
    /\ UNCHANGED <<minute, published, cache, fetchedAt, fetch, failed>>

\* The answer, a page or 404, is on its way.
Done(r) ==
    /\ requests[r].doing \in {"unknown", "accepted", "expired"}
    /\ requests' = [requests EXCEPT ![r] = Quiet]
    /\ UNCHANGED <<minute, published, cache, fetchedAt, fetch, failed>>

\* The provider publishes a new key, or withdraws one.
Publish(k) ==
    /\ published[k].from = NotYet
    /\ published' = [published EXCEPT ![k].from = minute]
    /\ UNCHANGED <<minute, cache, fetchedAt, fetch, requests, failed>>

Withdraw(k) ==
    /\ k \in Published
    /\ published' = [published EXCEPT ![k].to = minute]
    /\ UNCHANGED <<minute, cache, fetchedAt, fetch, requests, failed>>

\* A restart forgets keys, dates and requests.
ForgetKeys ==
    /\ cache' = {} /\ fetchedAt' = Never /\ fetch' = NoFetch
    /\ requests' = [r \in Visitors |-> Quiet]
    /\ failed' = FALSE
    /\ UNCHANGED <<minute, published>>

\* A minute passes; a fetch does not outlast its client's patience.
Minute ==
    /\ minute < MaxMinute
    /\ fetch # NoFetch => minute < fetch.at + FetchTime
    /\ minute' = minute + 1
    /\ UNCHANGED <<published, cache, fetchedAt, fetch, requests, failed>>

KeysNext ==
    \/ \E r \in Visitors :
          \/ \E k \in Kids, t \in Tokens : Present(r, k, t)
          \/ Lookup(r) \/ StartFetch(r) \/ FetchOK(r) \/ FetchFailed(r)
          \/ Judge(r) \/ Done(r)
    \/ \E k \in Kids : Publish(k) \/ Withdraw(k)
    \/ ForgetKeys
    \/ Minute

KeysSpec == KeysInit /\ [][KeysNext]_keysVars

-----------------------------------------------------------------------------
(* Properties.                                                               *)

\* Every variable keeps its shape; the cache is never emptied by a fetch.
KeysTypeOK ==
    /\ minute \in Nat
    /\ published \in [Kids -> [from : Nat, to : Nat]]
    /\ cache \subseteq Kids
    /\ fetchedAt \in Nat \cup {Never}
    /\ fetch \in [by : Visitors, at : Nat, then : SUBSET Kids] \cup {NoFetch}
    /\ requests \in [Visitors -> RequestRow]
    /\ failed \in BOOLEAN

\* A withdrawn key stops opening the page within MaxAge, unless the last fetch
\* failed; and a token is judged by the clock of the moment it is accepted,
\* however long the key took to come.
AcceptedIsCurrent ==
    \A r \in Visitors :
        LET q == requests[r] IN
        q.doing = "accepted" =>
            /\ q.failed \/ published[q.kid].to > q.at - MaxAge
            /\ q.token[1] - Skew <= q.judged /\ q.judged <= q.token[2] + Skew

\* A key published a RetryGap ago or earlier, and not withdrawn, is known to
\* the next request that shows it, unless the last fetch failed: a rotation
\* locks nobody out for longer.
RotationFollowed ==
    \A r \in Visitors :
        LET q == requests[r] IN
        q.doing = "unknown" /\ ~q.failed =>
            \/ published[q.kid].from > q.at - RetryGap
            \/ published[q.kid].to <= minute

\* The page opens to the provider's keys of the day and to no others, within
\* the ages the comments of key() give.
KeysFollowed == AcceptedIsCurrent /\ RotationFollowed
=============================================================================
