-------------------------- MODULE AdmissionProofs --------------------------
(***************************************************************************)
(* What the server lets in: callers, by the rate limiter; readers of the   *)
(* reports page, by the provider's keys; and bodies, by the server's own   *)
(* scoring.  For any number of callers, keys, tokens and visitors, any     *)
(* limit, window, stall and ages, and any samples and claims.              *)
(***************************************************************************)
EXTENDS RateLimiter, AccessKeys, Scoring, FiniteSetTheorems,
        WellFoundedInduction, TLAPS

-----------------------------------------------------------------------------
(***************************************************************************)
(* The rate limiter.                                                       *)
(***************************************************************************)

(***************************************************************************)
(* The inductive invariant.  Clocks that wait for the lock are at most     *)
(* Stall old; nothing is dated in the future; events are finitely many.    *)
(***************************************************************************)

Lagging(q) == q.doing = "asking" => q.now <= time /\ time <= q.now + Stall

\* Retry-After, as it was given, and the window that refused.
Advised(q) ==
    q.doing = "limited" => q.over <= q.until /\ q.until < q.over + Second + Stall

Clocks ==
    /\ sweptAt <= time
    /\ \A b \in buckets : b.start <= time
    /\ \A c \in Callers : Lagging(calls[c]) /\ Advised(calls[c])

LimiterInv == LimiterTypeOK /\ IsFiniteSet(granted) /\ Clocks /\ NoIdleHoard

(***************************************************************************)
(* How many events a span can hold.  The events of the last window length  *)
(* lie in the last three windows that their key opened.  Windows of a key  *)
(* start a window length apart, unless a sweep forgot one and a caller     *)
(* whose clock lagged opened the next early; sweeps being a window length  *)
(* apart too, over two windows no more than one stall is lost.  Hence what *)
(* is left of the oldest window is gone when a fourth opens, and whatever  *)
(* is left of the one after it lacks the event that opened it.             *)
(***************************************************************************)

Events(k) == {g \in granted : g.key = k}

\* Those of a window's events that cannot have opened it.
Later(X, x) == {g \in X : g.at > x + Stall}

\* X holds events of a window that started at x, of which it counted n.
Counted(X, x, n) ==
    /\ \A g \in X : g.at < x + WindowLen + Stall
    /\ Cardinality(X) <= n
    /\ Cardinality(Later(X, x)) < n

\* The window of key k that started at c, after one that started at b, is either
\* tracked in S with its count, or was swept away, the last sweep being at u.
Tracked(S, u, k, b, c, C) ==
    \E d \in S : /\ d.key = k /\ d.start = c /\ Counted(C, c, d.n)
                 /\ c >= b + WindowLen \/ u >= b + WindowLen
Forgotten(S, u, k, b, c, C) ==
    /\ \A d \in S : d.key # k
    /\ Counted(C, c, EventLimit)
    /\ u >= c + WindowLen
    /\ c >= b + WindowLen \/ u >= b + 2 * WindowLen
Standing(S, u, k, b, c, C) ==
    Tracked(S, u, k, b, c, C) \/ Forgotten(S, u, k, b, c, C)

\* The starts of three windows in a row.
Spaced(a, b, c) == /\ c >= b + WindowLen - Stall
                   /\ c >= a + 2 * WindowLen - Stall

\* What is left of the third newest window.
Remnant(A, a) == /\ \A g \in A : g.at < a + WindowLen + Stall
                 /\ Cardinality(A) < EventLimit
                 /\ Stall = 0 => A = {}

Windows(k, A, B, C, a, b, c) ==
    /\ Events(k) = A \cup B \cup C
    /\ Spaced(a, b, c) /\ c <= time
    /\ Remnant(A, a)
    /\ Counted(B, b, EventLimit)
    /\ Standing(buckets, sweptAt, k, b, c, C)

SpanInv ==
    /\ \A g \in granted : g.at <= time /\ g.at > time - WindowLen
    /\ \A k \in Keys : \E A, B, C \in SUBSET granted, a, b, c \in Int :
           Windows(k, A, B, C, a, b, c)

(***************************************************************************)
(* Operators.                                                              *)
(***************************************************************************)

\* Whole seconds, rounded up: no less than what is left, and less than a
\* second more.
LEMMA RetryAfterRounds ==
    ASSUME NEW wait \in Nat
    PROVE  /\ RetryAfter(wait) \in Nat
           /\ wait <= RetryAfter(wait)
           /\ RetryAfter(wait) < wait + Second
  <1> DEFINE a == wait + Second - 1
             q == a \div Second
  <1>1. a \in Nat /\ Second \in Nat \ {0}
    BY TimesAssumption
  <1>2. q \in Nat /\ Second * q <= a /\ a < Second * q + Second
    BY <1>1, SMTT(30)
  <1>3. RetryAfter(wait) = Second * q
    BY DEF RetryAfter
  <1>4. Second * q \in Nat
    BY <1>1, <1>2, SMTT(30)
  <1> HIDE DEF q
  <1> QED
    BY <1>1, <1>2, <1>3, <1>4

\* A sweep keeps the hoard small, even at a clock that lags the last one.
LEMMA SweepKeeps ==
    ASSUME LimiterInv, NEW now \in Nat, now <= time, time <= now + Stall
    PROVE  /\ Swept(now) \subseteq buckets
           /\ SweptAt(now) \in Int /\ SweptAt(now) <= time
           /\ SweptAt(now) - WindowLen < now /\ now < SweptAt(now) + WindowLen
           /\ \A b \in Swept(now) : /\ b.start > SweptAt(now) - WindowLen
                                    /\ b.start < SweptAt(now) + WindowLen
  <1>1. /\ WindowLen \in Nat /\ Stall \in Nat /\ Stall < WindowLen
        /\ sweptAt \in Int /\ sweptAt <= time /\ time \in Nat
        /\ \A b \in buckets : b.start \in Int /\ b.start <= time
    BY TimesAssumption, StallAssumption DEF LimiterInv, LimiterTypeOK, Clocks, BucketRow
  <1>2. CASE Due(now)
    BY <1>1, <1>2 DEF Swept, SweptAt, Over
  <1>3. CASE ~Due(now)
    BY <1>1, <1>3 DEF Swept, SweptAt, Due, LimiterInv, NoIdleHoard
  <1> QED
    BY <1>2, <1>3

\* An admitted event leaves one bucket of its key, counted within the limit.
LEMMA BumpedKeeps ==
    ASSUME LimiterInv, NEW k \in Keys, NEW now \in Nat, now <= time, time <= now + Stall,
           \A b \in Open(k, now) : b.n < EventLimit
    PROVE  /\ Bumped(k, now) \subseteq BucketRow
           /\ \A b \in Bumped(k, now) :
                  /\ b.start <= time
                  /\ b.start > SweptAt(now) - WindowLen
                  /\ b.start < SweptAt(now) + WindowLen
           /\ \A b, d \in Bumped(k, now) : b.key = d.key => b = d
  <1> DEFINE fresh == [key |-> k, start |-> now, n |-> 1]
             more  == {[b EXCEPT !.n = @ + 1] : b \in Open(k, now)}
             rest  == {b \in Swept(now) : b.key # k}
  <1>1. /\ EventLimit \in Nat \ {0} /\ time \in Nat
        /\ buckets \subseteq BucketRow
        /\ \A b, d \in buckets : b.key = d.key => b = d
        /\ \A b \in buckets : b.start <= time
    BY EventsAssumption DEF LimiterInv, LimiterTypeOK, Clocks, NoIdleHoard
  <1>2. /\ Open(k, now) \subseteq Swept(now) /\ Swept(now) \subseteq buckets
        /\ \A b \in Open(k, now) : b.key = k
    BY SweepKeeps DEF Open
  <1>3. fresh \in BucketRow /\ fresh.key = k /\ fresh.start = now
    BY <1>1 DEF BucketRow
  <1>4. \A d \in more : \E b \in Open(k, now) :
            /\ d \in BucketRow /\ d.key = k /\ d.start = b.start
            /\ d = [b EXCEPT !.n = @ + 1]
    <2> SUFFICES ASSUME NEW b \in Open(k, now)
                 PROVE  LET d == [b EXCEPT !.n = @ + 1] IN
                        d \in BucketRow /\ d.key = k /\ d.start = b.start
      OBVIOUS
    <2>1. b \in BucketRow /\ b.key = k /\ b.n < EventLimit
      BY <1>1, <1>2
    <2> QED
      BY <1>1, <2>1 DEF BucketRow
  <1>5. \A b, d \in more : b = d
    BY <1>1, <1>2, <1>4
  <1>6. Bumped(k, now) = rest \cup (IF Open(k, now) = {} THEN {fresh} ELSE more)
    BY DEF Bumped
  <1> HIDE DEF fresh, more
  <1>7. Bumped(k, now) \subseteq BucketRow
    BY <1>1, <1>2, <1>3, <1>4, <1>6
  <1>8. ASSUME NEW b \in Bumped(k, now)
        PROVE  /\ b.start <= time
               /\ b.start > SweptAt(now) - WindowLen
               /\ b.start < SweptAt(now) + WindowLen
    <2>1. CASE b \in Swept(now)
      BY <1>1, <1>2, <2>1, SweepKeeps
    <2>2. CASE b = fresh
      BY <1>3, <2>2, SweepKeeps
    <2>3. CASE b \in more
      BY <1>1, <1>2, <1>4, <2>3, SweepKeeps
    <2> QED
      BY <1>6, <2>1, <2>2, <2>3
  <1>9. \A b, d \in Bumped(k, now) : b.key = d.key => b = d
    <2>1. \A b, d \in rest : b.key = d.key => b = d
      BY <1>1, <1>2
    <2>2. \A b \in rest : b.key # k
      OBVIOUS
    <2> HIDE DEF rest
    <2> QED
      BY <1>3, <1>4, <1>5, <1>6, <2>1, <2>2
  <1> QED
    BY <1>7, <1>8, <1>9
(***************************************************************************)
(* The steps.                                                              *)
(***************************************************************************)

\* No caller and no bucket keep the limiter's invariant.
LEMMA LimiterInvInit == LimiterInit => LimiterInv
  <1> SUFFICES ASSUME LimiterInit PROVE LimiterInv
    OBVIOUS
  <1>1. WindowLen \in Nat /\ WindowLen > 0
    BY TimesAssumption, StallAssumption
  <1>2. Idle.doing = "idle"
    BY DEF Idle
  <1>3. LimiterTypeOK
    BY <1>1 DEF LimiterInit, LimiterTypeOK
  <1>4. Clocks /\ NoIdleHoard
    BY <1>1, <1>2 DEF LimiterInit, Clocks, Lagging, Advised, NoIdleHoard
  <1>5. IsFiniteSet(granted)
    BY FS_EmptySet DEF LimiterInit
  <1> QED
    BY <1>3, <1>4, <1>5 DEF LimiterInv

\* What a caller that waits for the lock carries.
LEMMA Carried ==
    ASSUME LimiterInv, NEW c \in Callers, calls[c].doing = "asking"
    PROVE  /\ calls[c].key \in Keys /\ calls[c].now \in Nat
           /\ calls[c].now <= time /\ time <= calls[c].now + Stall
  BY DEF LimiterInv, LimiterTypeOK, Clocks, Lagging, Asking, TurnedAway, Idle

\* While the clock stands, a caller's step leaves the others' calls as right as
\* they were.
LEMMA CallsKeep ==
    ASSUME LimiterInv, NEW c \in Callers, NEW q \in Asking \cup TurnedAway \cup {Idle},
           calls' = [calls EXCEPT ![c] = q], Lagging(q), Advised(q), time' = time
    PROVE  /\ calls' \in [Callers -> Asking \cup TurnedAway \cup {Idle}]
           /\ \A d \in Callers : Lagging(calls[d])' /\ Advised(calls[d])'
  BY DEF LimiterInv, LimiterTypeOK, Clocks, Lagging, Advised

\* A request reads the clock before it waits for the lock.
LEMMA ReadClockStep ==
    ASSUME NEW c \in Callers, NEW k \in Keys, LimiterInv, ReadClock(c, k)
    PROVE  LimiterInv'
  <1> DEFINE q == [doing |-> "asking", key |-> k, now |-> time]
  <1>1. /\ calls' = [calls EXCEPT ![c] = q]
        /\ UNCHANGED <<time, buckets, sweptAt, granted>>
    BY DEF ReadClock
  <1>2. q \in Asking /\ Lagging(q) /\ Advised(q)
    BY TimesAssumption DEF LimiterInv, LimiterTypeOK, Asking, Lagging, Advised
  <1> HIDE DEF q
  <1>3. /\ calls' \in [Callers -> Asking \cup TurnedAway \cup {Idle}]
        /\ \A d \in Callers : Lagging(calls[d])' /\ Advised(calls[d])'
    BY <1>1, <1>2, CallsKeep
  <1> QED
    BY <1>1, <1>3 DEF LimiterInv, LimiterTypeOK, Clocks, NoIdleHoard

\* allow under the limit: the bucket is opened or bumped.
LEMMA AdmitStep == ASSUME NEW c \in Callers, LimiterInv, Admit(c) PROVE LimiterInv'
  <1> DEFINE k   == calls[c].key
             now == calls[c].now
             sameTick == {g \in granted : g.key = k /\ g.at = time}
  <1>1. /\ calls[c].doing = "asking"
        /\ \A b \in Open(k, now) : b.n < EventLimit
        /\ buckets' = Bumped(k, now) /\ sweptAt' = SweptAt(now)
        /\ granted' = granted \cup
               {[key |-> k, at |-> time, nth |-> Cardinality(sameTick)]}
        /\ calls' = [calls EXCEPT ![c] = Idle] /\ time' = time
    BY DEF Admit
  <1>2. /\ k \in Keys /\ now \in Nat /\ now <= time /\ time <= now + Stall
    BY <1>1, Carried
  <1>3. Lagging(Idle) /\ Advised(Idle)
    BY DEF Lagging, Advised, Idle
  <1>4. /\ calls' \in [Callers -> Asking \cup TurnedAway \cup {Idle}]
        /\ \A d \in Callers : Lagging(calls[d])' /\ Advised(calls[d])'
    BY <1>1, <1>3, CallsKeep
  <1>5. granted' \subseteq [key : Keys, at : Nat, nth : Nat] /\ IsFiniteSet(granted')
    <2>1. sameTick \subseteq granted /\ IsFiniteSet(granted)
      BY DEF LimiterInv
    <2>2. Cardinality(sameTick) \in Nat
      BY <2>1, FS_Subset, FS_CardinalityType
    <2>3. time \in Nat /\ granted \subseteq [key : Keys, at : Nat, nth : Nat]
      BY DEF LimiterInv, LimiterTypeOK
    <2>4. granted' \subseteq [key : Keys, at : Nat, nth : Nat]
      BY <1>1, <1>2, <2>2, <2>3
    <2> QED
      BY <1>1, <2>1, <2>4, FS_AddElement
  <1> HIDE DEF k, now, sameTick
  <1>6. /\ buckets' \subseteq BucketRow
        /\ \A b \in buckets' : /\ b.start <= time'
                               /\ b.start > sweptAt' - WindowLen
                               /\ b.start < sweptAt' + WindowLen
        /\ \A b, d \in buckets' : b.key = d.key => b = d
    BY <1>1, <1>2, BumpedKeeps
  <1>7. sweptAt' \in Int /\ sweptAt' <= time'
    BY <1>1, <1>2, SweepKeeps
  <1> QED
    BY <1>1, <1>4, <1>5, <1>6, <1>7 DEF LimiterInv, LimiterTypeOK, Clocks, NoIdleHoard

\* What is left of the window is counted from the caller's clock, and waited
\* from now: at most a stall later.
LEMMA RefuseStep == ASSUME NEW c \in Callers, LimiterInv, Refuse(c) PROVE LimiterInv'
  <1> DEFINE now == calls[c].now
  <1>1. PICK b \in Open(calls[c].key, now) :
            calls' = [calls EXCEPT ![c] =
                         [doing |-> "limited",
                          until |-> time + RetryAfter(b.start + WindowLen - now),
                          over  |-> b.start + WindowLen]]
    BY DEF Refuse
  <1>2. /\ calls[c].doing = "asking"
        /\ buckets' = Swept(now) /\ sweptAt' = SweptAt(now)
        /\ UNCHANGED <<time, granted>>
    BY DEF Refuse
  <1>3. /\ now \in Nat /\ now <= time /\ time <= now + Stall /\ time \in Nat
        /\ WindowLen \in Nat /\ Stall \in Nat /\ Second \in Nat
    BY <1>2, Carried, TimesAssumption DEF LimiterInv, LimiterTypeOK
  <1>4. b \in BucketRow /\ ~Over(b, now)
    BY <1>3, SweepKeeps DEF Open, LimiterInv, LimiterTypeOK
  <1> DEFINE wait == b.start + WindowLen - now
             q == [doing |-> "limited", until |-> time + RetryAfter(wait),
                   over |-> b.start + WindowLen]
  <1>5. wait \in Nat /\ b.start + WindowLen = now + wait
    BY <1>3, <1>4 DEF BucketRow, Over
  <1>6. /\ RetryAfter(wait) \in Nat /\ wait <= RetryAfter(wait)
        /\ RetryAfter(wait) < wait + Second
    BY <1>5, RetryAfterRounds
  <1>7. q \in TurnedAway /\ Lagging(q) /\ Advised(q)
    BY <1>3, <1>5, <1>6 DEF TurnedAway, Lagging, Advised
  <1>8. calls' = [calls EXCEPT ![c] = q]
    BY <1>1
  <1> HIDE DEF now, q
  <1>9. /\ calls' \in [Callers -> Asking \cup TurnedAway \cup {Idle}]
        /\ \A d \in Callers : Lagging(calls[d])' /\ Advised(calls[d])'
    BY <1>2, <1>7, <1>8, CallsKeep
  <1>10. /\ buckets' \subseteq buckets /\ sweptAt' \in Int /\ sweptAt' <= time
         /\ \A d \in buckets' : /\ d.start > sweptAt' - WindowLen
                                /\ d.start < sweptAt' + WindowLen
    BY <1>2, <1>3, SweepKeeps
  <1> QED
    BY <1>2, <1>9, <1>10 DEF LimiterInv, LimiterTypeOK, Clocks, NoIdleHoard

\* A caller told to wait asks again.
LEMMA ComeBackStep == ASSUME NEW c \in Callers, LimiterInv, ComeBack(c) PROVE LimiterInv'
  <1>1. /\ calls' = [calls EXCEPT ![c] = Idle]
        /\ UNCHANGED <<time, buckets, sweptAt, granted>>
    BY DEF ComeBack
  <1>2. Lagging(Idle) /\ Advised(Idle)
    BY DEF Lagging, Advised, Idle
  <1>3. /\ calls' \in [Callers -> Asking \cup TurnedAway \cup {Idle}]
        /\ \A d \in Callers : Lagging(calls[d])' /\ Advised(calls[d])'
    BY <1>1, <1>2, CallsKeep
  <1> QED
    BY <1>1, <1>3 DEF LimiterInv, LimiterTypeOK, Clocks, NoIdleHoard

\* A restart forgets every bucket and every caller.
LEMMA ForgetLimiterStep == LimiterInv /\ Forget => LimiterInv'
  <1> SUFFICES ASSUME LimiterInv, Forget PROVE LimiterInv'
    OBVIOUS
  <1>1. WindowLen \in Nat /\ WindowLen > 0
    BY TimesAssumption, StallAssumption
  <1>2. Idle.doing = "idle"
    BY DEF Idle
  <1>3. LimiterTypeOK'
    BY <1>1 DEF Forget, LimiterTypeOK
  <1>4. Clocks' /\ NoIdleHoard'
    BY <1>1, <1>2 DEF Forget, Clocks, Lagging, Advised, NoIdleHoard
  <1>5. IsFiniteSet(granted)'
    BY FS_EmptySet DEF Forget
  <1> QED
    BY <1>3, <1>4, <1>5 DEF LimiterInv

\* Time passes, no further than the stall of a clock already read.
LEMMA PassStep == LimiterInv /\ Pass => LimiterInv'
  <1> SUFFICES ASSUME LimiterInv, Pass PROVE LimiterInv'
    OBVIOUS
  <1>1. /\ time' = time + 1 /\ granted' \subseteq granted
        /\ UNCHANGED <<buckets, sweptAt, calls>>
        /\ \A c \in Callers : calls[c].doing = "asking" => time < calls[c].now + Stall
    BY DEF Pass
  <1>2. IsFiniteSet(granted')
    BY <1>1, FS_Subset DEF LimiterInv
  <1>3. \A c \in Callers : Lagging(calls[c])' /\ Advised(calls[c])'
    <2> SUFFICES ASSUME NEW c \in Callers PROVE Lagging(calls[c])' /\ Advised(calls[c])'
      OBVIOUS
    <2>1. calls[c].doing = "asking" => calls[c].now \in Nat
      BY Carried
    <2> QED
      BY <1>1, <2>1, TimesAssumption DEF LimiterInv, LimiterTypeOK, Clocks, Lagging, Advised
  <1>4. \A b \in buckets : b.start \in Int
    BY DEF LimiterInv, LimiterTypeOK, BucketRow
  <1> QED
    BY <1>1, <1>2, <1>3, <1>4 DEF LimiterInv, LimiterTypeOK, Clocks, NoIdleHoard

\* So every step keeps the invariant.
LEMMA LimiterInvStep == LimiterInv /\ [LimiterNext]_limiterVars => LimiterInv'
  <1> SUFFICES ASSUME LimiterInv, [LimiterNext]_limiterVars PROVE LimiterInv'
    OBVIOUS
  <1>1. CASE LimiterNext
    BY <1>1, ReadClockStep, AdmitStep, RefuseStep, ComeBackStep, ForgetLimiterStep, PassStep
       DEF LimiterNext
  <1>2. CASE UNCHANGED limiterVars
    BY <1>2 DEF limiterVars, LimiterInv, LimiterTypeOK, Clocks, Lagging, Advised, NoIdleHoard
  <1> QED
    BY <1>1, <1>2

\* And it holds in every behaviour.
LEMMA LimiterInvHolds == LimiterSpec => []LimiterInv
  BY LimiterInvInit, LimiterInvStep, PTL DEF LimiterSpec

(***************************************************************************)
(* Spans: the lemmas about windows.                                        *)
(***************************************************************************)

\* Fewer of a window's events are no more than it counted, and a lower count of
\* a subset stays below a higher one.
LEMMA FewerCounted ==
    ASSUME NEW X, IsFiniteSet(X), \A g \in X : g.at \in Int,
           NEW Y \in SUBSET X, NEW x \in Int, NEW n \in Int, NEW m \in Int, n <= m,
           Counted(X, x, n)
    PROVE  Counted(Y, x, m)
  <1>1. Later(Y, x) \subseteq Later(X, x) /\ Later(X, x) \subseteq X
    BY DEF Later
  <1>2. IsFiniteSet(Later(X, x)) /\ IsFiniteSet(Y)
    BY <1>1, FS_Subset
  <1>3. /\ Cardinality(Y) <= Cardinality(X)
        /\ Cardinality(Later(Y, x)) <= Cardinality(Later(X, x))
    BY <1>1, <1>2, FS_Subset
  <1>4. /\ Cardinality(X) \in Int /\ Cardinality(Y) \in Int
        /\ Cardinality(Later(X, x)) \in Int /\ Cardinality(Later(Y, x)) \in Int
    <2>1. IsFiniteSet(Later(Y, x))
      BY <1>1, <1>2, FS_Subset
    <2> QED
      BY <1>2, <2>1, FS_CardinalityType
  <1> QED
    BY <1>3, <1>4 DEF Counted

\* One more event, admitted before the window is over.
LEMMA OneMoreCounted ==
    ASSUME NEW X, IsFiniteSet(X), \A g \in X : g.at \in Int,
           NEW x \in Int, NEW n \in Int, Counted(X, x, n),
           NEW e, e.at \in Int, e.at < x + WindowLen + Stall
    PROVE  Counted(X \cup {e}, x, n + 1)
  <1>1. Later(X \cup {e}, x) \subseteq Later(X, x) \cup {e} /\ Later(X, x) \subseteq X
    BY DEF Later
  <1>2. IsFiniteSet(Later(X, x))
    BY <1>1, FS_Subset
  <1>3. /\ IsFiniteSet(X \cup {e}) /\ Cardinality(X \cup {e}) <= Cardinality(X) + 1
        /\ IsFiniteSet(Later(X, x) \cup {e})
        /\ Cardinality(Later(X, x) \cup {e}) <= Cardinality(Later(X, x)) + 1
    <2>1. \A Y : IsFiniteSet(Y) =>
              IsFiniteSet(Y \cup {e}) /\ Cardinality(Y \cup {e}) <= Cardinality(Y) + 1
      <3> SUFFICES ASSUME NEW Y, IsFiniteSet(Y)
                   PROVE  /\ IsFiniteSet(Y \cup {e})
                          /\ Cardinality(Y \cup {e}) <= Cardinality(Y) + 1
        OBVIOUS
      <3>1. Cardinality(Y) \in Nat
        BY FS_CardinalityType
      <3> QED
        <4>1. IsFiniteSet(Y \cup {e})
          BY FS_AddElement
        <4>2. CASE e \in Y
          <5>1. Y \cup {e} = Y
            BY <4>2
          <5>2. Cardinality(Y \cup {e}) = Cardinality(Y)
            BY <5>1, Zenon
          <5> QED
            BY <3>1, <4>1, <5>2
        <4>3. CASE e \notin Y
          <5>1. Cardinality(Y \cup {e}) = Cardinality(Y) + 1
            BY <4>3, FS_AddElement
          <5> QED
            BY <3>1, <4>1, <5>1
        <4> QED
          BY <4>2, <4>3
    <2> QED
      BY <1>2, <2>1
  <1>4. /\ IsFiniteSet(Later(X \cup {e}, x))
        /\ Cardinality(Later(X \cup {e}, x)) <= Cardinality(Later(X, x) \cup {e})
    BY <1>1, <1>3, FS_Subset
  <1>5. /\ Cardinality(X) \in Int /\ Cardinality(X \cup {e}) \in Int
        /\ Cardinality(Later(X, x)) \in Int /\ Cardinality(Later(X, x) \cup {e}) \in Int
        /\ Cardinality(Later(X \cup {e}, x)) \in Int
    BY <1>2, <1>3, <1>4, FS_CardinalityType
  <1> QED
    BY <1>3, <1>4, <1>5 DEF Counted

\* The event that opens a window is one event, and none but it.
LEMMA OpeningCounted ==
    ASSUME NEW x \in Int, NEW e, e.at \in Int, e.at <= x + Stall
    PROVE  Counted({e}, x, 1)
  <1>1. Later({e}, x) = {}
    BY TimesAssumption DEF Later
  <1>2. Cardinality({e}) = 1 /\ Cardinality(Later({e}, x)) = 0
    BY <1>1, FS_Singleton, FS_EmptySet
  <1> QED
    BY <1>2, TimesAssumption, StallAssumption DEF Counted

\* A sweep leaves every key standing.
LEMMA SweepStands ==
    ASSUME LimiterInv, NEW now \in Nat, NEW k \in Keys, NEW b \in Int, NEW c \in Int,
           NEW C \in SUBSET granted, Standing(buckets, sweptAt, k, b, c, C)
    PROVE  Standing(Swept(now), SweptAt(now), k, b, c, C)
  <1>1. /\ WindowLen \in Nat /\ sweptAt \in Int /\ SweptAt(now) \in Int
        /\ sweptAt <= SweptAt(now)
        /\ SweptAt(now) # sweptAt => Due(now)
        /\ Due(now) => SweptAt(now) = now /\ now >= sweptAt + WindowLen
    BY TimesAssumption DEF LimiterInv, LimiterTypeOK, SweptAt, Due
  <1>2. Swept(now) \subseteq buckets
    BY DEF Swept
  <1>3. CASE Forgotten(buckets, sweptAt, k, b, c, C)
    BY <1>1, <1>2, <1>3 DEF Standing, Forgotten
  <1>4. CASE Tracked(buckets, sweptAt, k, b, c, C)
    <2>1. PICK d \in buckets :
              /\ d.key = k /\ d.start = c /\ Counted(C, c, d.n)
              /\ c >= b + WindowLen \/ sweptAt >= b + WindowLen
      BY <1>4 DEF Tracked
    <2>2. CASE d \in Swept(now)
      BY <1>1, <2>1, <2>2 DEF Standing, Tracked
    <2>3. CASE d \notin Swept(now)
      <3>1. Due(now) /\ now >= c + WindowLen
        BY <2>1, <2>3 DEF Swept, Over
      <3>2. \A f \in Swept(now) : f.key # k
        BY <1>2, <2>1, <2>3 DEF LimiterInv, NoIdleHoard
      <3>3. Counted(C, c, EventLimit)
        <4>1. d.n \in 1..EventLimit /\ EventLimit \in Nat
          BY EventsAssumption DEF LimiterInv, LimiterTypeOK, BucketRow
        <4>2. IsFiniteSet(C) /\ \A g \in C : g.at \in Int
          BY FS_Subset DEF LimiterInv, LimiterTypeOK
        <4> QED
          BY <2>1, <4>1, <4>2, FewerCounted
      <3> QED
        BY <1>1, <2>1, <3>1, <3>2, <3>3 DEF Standing, Forgotten
    <2> QED
      BY <2>2, <2>3
  <1> QED
    BY <1>3, <1>4 DEF Standing

\* Whether a key stands depends on its own bucket alone.
LEMMA OwnBucketOnly ==
    ASSUME NEW S, NEW T, NEW u, NEW k, NEW b, NEW c, NEW C,
           \A d : d.key = k => (d \in S <=> d \in T),
           Standing(S, u, k, b, c, C)
    PROVE  Standing(T, u, k, b, c, C)
  BY DEF Standing, Tracked, Forgotten

\* The events are dated in whole ticks, and finitely many.
LEMMA EventsDated ==
    ASSUME LimiterInv
    PROVE  \A X \in SUBSET granted : IsFiniteSet(X) /\ \A g \in X : g.at \in Int
  BY FS_Subset DEF LimiterInv, LimiterTypeOK

\* When a key opens a window, nothing is left of the third newest but what the
\* second newest becomes: fewer events than the limit, and none without stalls.
LEMMA OldestIsGone ==
    ASSUME LimiterInv, SpanInv, NEW A \in SUBSET granted, NEW B \in SUBSET granted,
           NEW a \in Int, NEW b \in Int, NEW c \in Int,
           Spaced(a, b, c), Remnant(A, a), Counted(B, b, EventLimit),
           time >= c + WindowLen
    PROVE  A = {} /\ Remnant(B, b)
  <1>1. /\ WindowLen \in Nat /\ Stall \in Nat /\ 2 * Stall < WindowLen /\ time \in Nat
        /\ EventLimit \in Nat
    BY TimesAssumption, StallAssumption, EventsAssumption DEF LimiterInv, LimiterTypeOK
  <1>2. \A g \in A \cup B : g.at \in Int /\ g.at > time - WindowLen
    BY EventsDated DEF SpanInv
  <1>3. A = {}
    BY <1>1, <1>2 DEF Spaced, Remnant
  <1>4. \A g \in B : g.at > b + Stall /\ g.at < b + WindowLen + Stall
    BY <1>1, <1>2 DEF Spaced, Counted
  <1>5. Later(B, b) = B
    BY <1>4 DEF Later
  <1>6. Stall = 0 => B = {}
    BY <1>1, <1>2, <1>4 DEF Spaced
  <1> QED
    BY <1>3, <1>4, <1>5, <1>6 DEF Remnant, Counted

(***************************************************************************)
(* Spans: the steps.                                                       *)
(***************************************************************************)

\* A limiter that has seen no event.
FreshStart == time = 0 /\ buckets = {} /\ sweptAt = -WindowLen /\ granted = {}

\* Nothing granted: every span is empty.
LEMMA SpanInit == FreshStart => SpanInv
  <1> SUFFICES ASSUME FreshStart PROVE SpanInv
    OBVIOUS
  <1>1. WindowLen \in Nat /\ Stall \in Nat /\ EventLimit \in Nat \ {0}
    BY TimesAssumption, EventsAssumption
  <1> DEFINE c == -(2 * WindowLen)
             b == -(3 * WindowLen)
             a == -(4 * WindowLen)
  <1>2. \A x : Later({}, x) = {}
    BY DEF Later
  <1>3. Cardinality({}) = 0
    BY FS_EmptySet
  <1>4. \A x : Counted({}, x, EventLimit) /\ Remnant({}, x)
    BY <1>1, <1>2, <1>3 DEF Counted, Remnant
  <1>5. a \in Int /\ b \in Int /\ c \in Int /\ Spaced(a, b, c) /\ c <= 0
    BY <1>1 DEF Spaced
  <1>6. -WindowLen >= c + WindowLen /\ c >= b + WindowLen
    BY <1>1
  <1> HIDE DEF a, b, c
  <1>7. \A k : Forgotten({}, -WindowLen, k, b, c, {})
    BY <1>4, <1>6 DEF Forgotten
  <1>8. ASSUME NEW k \in Keys PROVE Windows(k, {}, {}, {}, a, b, c)
    <2>1. Events(k) = {}
      BY DEF Events, FreshStart
    <2>2. Standing({}, -WindowLen, k, b, c, {})
      BY <1>7 DEF Standing
    <2> QED
      BY <1>4, <1>5, <2>1, <2>2 DEF Windows, FreshStart
  <1> QED
    BY <1>5, <1>8 DEF SpanInv, FreshStart

\* A step in which no event is admitted and no time passes.
LEMMA SpanKeeps ==
    ASSUME SpanInv, UNCHANGED <<time, granted>>,
           \A k \in Keys, b, c \in Int, C \in SUBSET granted :
               Standing(buckets, sweptAt, k, b, c, C)
                   => Standing(buckets', sweptAt', k, b, c, C)
    PROVE  SpanInv'
  <1>1. ASSUME NEW k \in Keys
        PROVE  \E A, B, C \in SUBSET granted, a, b, c \in Int :
                   Windows(k, A, B, C, a, b, c)'
    <2>1. PICK A \in SUBSET granted, B \in SUBSET granted, C \in SUBSET granted,
               a \in Int, b \in Int, c \in Int : Windows(k, A, B, C, a, b, c)
      BY DEF SpanInv
    <2>2. Events(k)' = Events(k)
      BY DEF Events
    <2>3. Windows(k, A, B, C, a, b, c)'
      BY <2>1, <2>2 DEF Windows
    <2> QED
      BY <2>3
  <1> QED
    BY <1>1 DEF SpanInv

\* Time passing moves no bucket and drops events that are too old.
LEMMA SpanPass == ASSUME LimiterInv, SpanInv, Pass PROVE SpanInv'
  <1>1. /\ time' = time + 1
        /\ granted' = {g \in granted : g.at > time + 1 - WindowLen}
        /\ UNCHANGED <<buckets, sweptAt>>
    BY DEF Pass
  <1>2. /\ time \in Nat /\ EventLimit \in Nat /\ buckets \subseteq BucketRow
        /\ \A g \in granted : g.at \in Int
    BY EventsAssumption, EventsDated DEF LimiterInv, LimiterTypeOK
  <1>3. \A g \in granted' : g.at <= time' /\ g.at > time' - WindowLen
    BY <1>1, <1>2, TimesAssumption DEF SpanInv
  <1>4. ASSUME NEW k \in Keys
        PROVE  \E A, B, C \in SUBSET granted', a, b, c \in Int :
                   Windows(k, A, B, C, a, b, c)'
    <2>1. PICK A \in SUBSET granted, B \in SUBSET granted, C \in SUBSET granted,
               a \in Int, b \in Int, c \in Int : Windows(k, A, B, C, a, b, c)
      BY DEF SpanInv
    <2>2. PICK X \in SUBSET granted', Y \in SUBSET granted', Z \in SUBSET granted' :
              X = A \cap granted' /\ Y = B \cap granted' /\ Z = C \cap granted'
      OBVIOUS
    <2>3. Events(k)' = X \cup Y \cup Z
      BY <1>1, <2>1, <2>2 DEF Events, Windows
    <2>4. Remnant(X, a)
      <3>1. X \subseteq A /\ IsFiniteSet(A) /\ IsFiniteSet(X)
        BY <2>2, EventsDated, FS_Subset
      <3>2. /\ Cardinality(X) <= Cardinality(A)
            /\ Cardinality(A) \in Int /\ Cardinality(X) \in Int
        BY <3>1, FS_Subset, FS_CardinalityType
      <3>3. Remnant(A, a)
        BY <2>1 DEF Windows
      <3> QED
        BY <1>2, <3>1, <3>2, <3>3 DEF Remnant
    <2>5. Counted(Y, b, EventLimit)
      <3>1. IsFiniteSet(B) /\ (\A g \in B : g.at \in Int) /\ Y \in SUBSET B
        BY <2>2, EventsDated
      <3>2. Counted(B, b, EventLimit) /\ EventLimit <= EventLimit
        BY <1>2, <2>1 DEF Windows
      <3> QED
        BY <1>2, <3>1, <3>2, FewerCounted
    <2>6. Standing(buckets, sweptAt, k, b, c, Z)
      <3>1. Standing(buckets, sweptAt, k, b, c, C)
        BY <2>1 DEF Windows
      <3>2. \A d \in buckets : d.n \in Int
        BY <1>2 DEF BucketRow
      <3>3. IsFiniteSet(C) /\ (\A g \in C : g.at \in Int) /\ Z \in SUBSET C
        BY <2>2, EventsDated
      <3>4. ASSUME NEW n \in Int, Counted(C, c, n) PROVE Counted(Z, c, n)
        <4>1. n <= n
          OBVIOUS
        <4> QED
          BY <3>3, <3>4, <4>1, FewerCounted
      <3> QED
        BY <1>2, <3>1, <3>2, <3>4 DEF Standing, Tracked, Forgotten
    <2>7. Spaced(a, b, c) /\ c <= time'
      BY <1>1, <1>2, <2>1 DEF Windows
    <2>8. Windows(k, X, Y, Z, a, b, c)'
      BY <1>1, <2>3, <2>4, <2>5, <2>6, <2>7 DEF Windows
    <2> QED
      BY <2>8
  <1> QED
    BY <1>3, <1>4 DEF SpanInv

\* What is left of the events of the key that was admitted, after the sweep that
\* the admitted call made first.
LEMMA SpanAdmitted ==
    ASSUME LimiterInv, SpanInv, NEW k \in Keys, NEW now \in Nat, now <= time,
           time <= now + Stall, NEW e, e.at = time,
           NEW A \in SUBSET granted, NEW B \in SUBSET granted,
           NEW C \in SUBSET granted, NEW a \in Int, NEW b \in Int, NEW c \in Int,
           Windows(k, A, B, C, a, b, c)
    PROVE  \/ /\ Standing(Bumped(k, now), SweptAt(now), k, b, c, C \cup {e})
           \/ /\ A = {} /\ Remnant(B, b) /\ Counted(C, c, EventLimit)
              /\ Spaced(b, c, now)
              /\ Standing(Bumped(k, now), SweptAt(now), k, c, now, {e})
  <1> DEFINE fresh == [key |-> k, start |-> now, n |-> 1]
  <1>1. /\ WindowLen \in Nat /\ Stall \in Nat /\ 2 * Stall < WindowLen /\ time \in Nat
        /\ EventLimit \in Nat
        /\ SweptAt(now) \in Int /\ SweptAt(now) <= time
    BY TimesAssumption, StallAssumption, EventsAssumption, SweepKeeps
       DEF LimiterInv, LimiterTypeOK
  <1>2. Standing(Swept(now), SweptAt(now), k, b, c, C)
    BY SweepStands DEF Windows
  <1>3. /\ Spaced(a, b, c) /\ Remnant(A, a) /\ Counted(B, b, EventLimit)
        /\ c <= time
    BY DEF Windows
  <1>4. IsFiniteSet(C) /\ \A g \in C : g.at \in Int
    BY EventsDated
  <1>5. \A d \in Swept(now) : d \in BucketRow
    BY SweepKeeps DEF LimiterInv, LimiterTypeOK
  <1>6. CASE \E d \in Swept(now) :
                 /\ d.key = k /\ d.start = c /\ Counted(C, c, d.n) /\ ~Over(d, now)
                 /\ c >= b + WindowLen \/ SweptAt(now) >= b + WindowLen
    <2>1. PICK d \in Swept(now) :
                 /\ d.key = k /\ d.start = c /\ Counted(C, c, d.n) /\ ~Over(d, now)
                 /\ c >= b + WindowLen \/ SweptAt(now) >= b + WindowLen
      BY <1>6
    <2>2. now < c + WindowLen /\ d.n \in Int /\ e.at < c + WindowLen + Stall
      BY <1>1, <1>5, <2>1 DEF Over, BucketRow
    <2>3. Counted(C \cup {e}, c, d.n + 1)
      BY <1>1, <1>4, <2>1, <2>2, OneMoreCounted
    <2> DEFINE more == [d EXCEPT !.n = @ + 1]
    <2>4. more \in Bumped(k, now)
      BY <2>1 DEF Bumped, Open
    <2>5. more.key = k /\ more.start = c /\ more.n = d.n + 1
      BY <1>5, <2>1 DEF BucketRow
    <2> HIDE DEF more
    <2> QED
      BY <2>1, <2>3, <2>4, <2>5 DEF Standing, Tracked
  <1>7. CASE ~\E d \in Swept(now) :
                 /\ d.key = k /\ d.start = c /\ Counted(C, c, d.n) /\ ~Over(d, now)
                 /\ c >= b + WindowLen \/ SweptAt(now) >= b + WindowLen
    <2>1. Open(k, now) = {}
      <3>1. CASE Forgotten(Swept(now), SweptAt(now), k, b, c, C)
        BY <3>1 DEF Forgotten, Open
      <3>2. CASE Tracked(Swept(now), SweptAt(now), k, b, c, C)
        <4>1. PICK d \in Swept(now) :
                  /\ d.key = k /\ d.start = c /\ Counted(C, c, d.n)
                  /\ c >= b + WindowLen \/ SweptAt(now) >= b + WindowLen
          BY <3>2 DEF Tracked
        <4>2. Over(d, now)
          BY <1>7, <4>1
        <4>3. \A f \in Swept(now) : f.key = k => f = d
          BY <4>1, SweepKeeps DEF LimiterInv, NoIdleHoard
        <4> QED
          BY <4>2, <4>3 DEF Open
      <3> QED
        BY <1>2, <3>1, <3>2 DEF Standing
    <2>2. fresh \in Bumped(k, now)
      BY <2>1 DEF Bumped
    <2>3. /\ time >= c + WindowLen
          /\ \/ now >= c + WindowLen
             \/ SweptAt(now) >= c + WindowLen /\ now >= c + WindowLen - Stall
          /\ now >= b + 2 * WindowLen - Stall
          /\ Counted(C, c, EventLimit)
      <3>1. CASE Forgotten(Swept(now), SweptAt(now), k, b, c, C)
        BY <1>1, <3>1 DEF Forgotten
      <3>2. CASE Tracked(Swept(now), SweptAt(now), k, b, c, C)
        <4>1. PICK d \in Swept(now) :
                  /\ d.key = k /\ d.start = c /\ Counted(C, c, d.n)
                  /\ c >= b + WindowLen \/ SweptAt(now) >= b + WindowLen
          BY <3>2 DEF Tracked
        <4>2. now >= c + WindowLen
          BY <1>7, <4>1 DEF Over
        <4>3. d.n \in Int /\ d.n <= EventLimit
          BY <1>1, <1>5 DEF BucketRow
        <4>4. C \in SUBSET C
          OBVIOUS
        <4>5. Counted(C, c, EventLimit)
          BY <1>1, <1>4, <4>1, <4>3, <4>4, FewerCounted
        <4> QED
          BY <1>1, <1>3, <4>2, <4>5 DEF Spaced
      <3> QED
        BY <1>2, <3>1, <3>2 DEF Standing
    <2>4. A = {} /\ Remnant(B, b)
      BY <1>3, <2>3, OldestIsGone
    <2>5. Spaced(b, c, now)
      BY <1>1, <2>3 DEF Spaced
    <2>6. Counted({e}, now, 1)
      BY <1>1, OpeningCounted
    <2>7. now >= c + WindowLen \/ SweptAt(now) >= c + WindowLen
      BY <2>3
    <2>8. fresh.key = k /\ fresh.start = now /\ fresh.n = 1
      OBVIOUS
    <2> HIDE DEF fresh
    <2>9. Standing(Bumped(k, now), SweptAt(now), k, c, now, {e})
      BY <2>2, <2>6, <2>7, <2>8 DEF Standing, Tracked
    <2> QED
      BY <2>3, <2>4, <2>5, <2>9
  <1> QED
    BY <1>6, <1>7

\* A grant adds one event, in the newest window of its key alone.
LEMMA SpanAdmit == ASSUME NEW c \in Callers, LimiterInv, SpanInv, Admit(c) PROVE SpanInv'
  <1>1. PICK k, now, e :
            /\ k \in Keys /\ now \in Nat
            /\ now <= time /\ time <= now + Stall
            /\ e.key = k /\ e.at = time
            /\ buckets' = Bumped(k, now) /\ sweptAt' = SweptAt(now)
            /\ granted' = granted \cup {e} /\ time' = time
    <2> DEFINE k   == calls[c].key
               now == calls[c].now
               e   == [key |-> k, at |-> time,
                       nth |-> Cardinality({g \in granted : g.key = k /\ g.at = time})]
    <2>1. /\ calls[c].doing = "asking"
          /\ buckets' = Bumped(k, now) /\ sweptAt' = SweptAt(now)
          /\ granted' = granted \cup {e} /\ time' = time
      BY DEF Admit
    <2>2. /\ k \in Keys /\ now \in Nat /\ now <= time /\ time <= now + Stall
      BY <2>1, Carried
    <2>3. e.key = k /\ e.at = time
      OBVIOUS
    <2> HIDE DEF k, now, e
    <2> QED
      BY <2>1, <2>2, <2>3
  <1>4. WindowLen \in Nat /\ WindowLen > 0 /\ time \in Nat
    BY TimesAssumption, StallAssumption DEF LimiterInv, LimiterTypeOK
  <1>5. \A g \in granted' : g.at <= time' /\ g.at > time' - WindowLen
    BY <1>1, <1>4 DEF SpanInv
  <1>6. ASSUME NEW h \in Keys
        PROVE  \E A, B, C \in SUBSET granted', x, y, z \in Int :
                   Windows(h, A, B, C, x, y, z)'
    <2>1. PICK A \in SUBSET granted, B \in SUBSET granted, C \in SUBSET granted,
               x \in Int, y \in Int, z \in Int : Windows(h, A, B, C, x, y, z)
      BY DEF SpanInv
    <2>2. CASE h # k
      <3>1. Events(h)' = Events(h)
        BY <1>1, <2>2 DEF Events
      <3>2. Standing(Swept(now), SweptAt(now), h, y, z, C)
        BY <1>1, <2>1, SweepStands DEF Windows
      <3>3. \A d : d.key = h => (d \in Swept(now) <=> d \in Bumped(k, now))
        <4>1. \A b \in Open(k, now) : [b EXCEPT !.n = @ + 1].key = k
          BY <1>1, SweepKeeps DEF Open, LimiterInv, LimiterTypeOK, BucketRow
        <4>2. [key |-> k, start |-> now, n |-> 1].key = k
          OBVIOUS
        <4>3. \A d \in Bumped(k, now) : d.key # k => d \in Swept(now)
          BY <4>1, <4>2 DEF Bumped
        <4>4. \A d \in Swept(now) : d.key # k => d \in Bumped(k, now)
          BY DEF Bumped
        <4> QED
          BY <2>2, <4>3, <4>4
      <3>4. Standing(Bumped(k, now), SweptAt(now), h, y, z, C)
        BY <3>2, <3>3, OwnBucketOnly
      <3>5. Windows(h, A, B, C, x, y, z)'
        BY <1>1, <2>1, <3>1, <3>4 DEF Windows
      <3> QED
        BY <1>1, <3>5
    <2>3. CASE h = k
      <3>1. Events(h)' = Events(h) \cup {e}
        BY <1>1, <2>3 DEF Events
      <3>2. Windows(k, A, B, C, x, y, z)
        BY <2>1, <2>3
      <3>3. \/ Standing(Bumped(k, now), SweptAt(now), k, y, z, C \cup {e})
            \/ /\ A = {} /\ Remnant(B, y) /\ Counted(C, z, EventLimit)
               /\ Spaced(y, z, now)
               /\ Standing(Bumped(k, now), SweptAt(now), k, z, now, {e})
        BY <1>1, <3>2, SpanAdmitted
      <3>4. CASE Standing(Bumped(k, now), SweptAt(now), k, y, z, C \cup {e})
        <4>1. Windows(h, A, B, C \cup {e}, x, y, z)'
          BY <1>1, <2>1, <2>3, <3>1, <3>4 DEF Windows
        <4> QED
          BY <1>1, <4>1
      <3>5. CASE /\ A = {} /\ Remnant(B, y) /\ Counted(C, z, EventLimit)
                 /\ Spaced(y, z, now)
                 /\ Standing(Bumped(k, now), SweptAt(now), k, z, now, {e})
        <4>1. Windows(h, B, C, {e}, y, z, now)'
          BY <1>1, <2>1, <2>3, <3>1, <3>5 DEF Windows
        <4>2. now \in Int /\ B \in SUBSET granted' /\ C \in SUBSET granted'
              /\ {e} \in SUBSET granted'
          BY <1>1
        <4> QED
          BY <4>1, <4>2
      <3> QED
        BY <3>3, <3>4, <3>5
    <2> QED
      BY <2>2, <2>3
  <1> QED
    BY <1>5, <1>6 DEF SpanInv

\* A refusal sweeps, and what it sweeps is spoken for by the dates.
LEMMA SpanRefuse == ASSUME NEW c \in Callers, LimiterInv, SpanInv, Refuse(c) PROVE SpanInv'
  <1>1. /\ calls[c].doing = "asking"
        /\ buckets' = Swept(calls[c].now) /\ sweptAt' = SweptAt(calls[c].now)
        /\ UNCHANGED <<time, granted>>
    BY DEF Refuse
  <1>2. calls[c].now \in Nat
    BY <1>1, Carried
  <1>3. \A k \in Keys, b, z \in Int, C \in SUBSET granted :
            Standing(buckets, sweptAt, k, b, z, C)
                => Standing(buckets', sweptAt', k, b, z, C)
    BY <1>1, <1>2, SweepStands
  <1> QED
    BY <1>1, <1>3, SpanKeeps

\* So every step keeps the windows of every key.
LEMMA SpanStep == LimiterInv /\ SpanInv /\ [LimiterNext]_limiterVars => SpanInv'
  <1> SUFFICES ASSUME LimiterInv, SpanInv, [LimiterNext]_limiterVars PROVE SpanInv'
    OBVIOUS
  <1>1. CASE UNCHANGED <<time, buckets, sweptAt, granted>>
    <2>1. /\ UNCHANGED <<time, granted>>
          /\ \A k \in Keys, b, c \in Int, C \in SUBSET granted :
                 Standing(buckets, sweptAt, k, b, c, C)
                     => Standing(buckets', sweptAt', k, b, c, C)
      BY <1>1
    <2> QED
      BY <2>1, SpanKeeps
  <1>2. CASE Forget
    <2>1. FreshStart'
      BY <1>2 DEF Forget, FreshStart
    <2>2. FreshStart' => SpanInv'
      BY SpanInit, PTL
    <2> QED
      BY <2>1, <2>2
  <1>3. CASE Pass
    BY <1>3, SpanPass
  <1>4. ASSUME NEW c \in Callers, NEW k \in Keys, ReadClock(c, k) PROVE SpanInv'
    BY <1>1, <1>4 DEF ReadClock
  <1>5. ASSUME NEW c \in Callers, ComeBack(c) PROVE SpanInv'
    BY <1>1, <1>5 DEF ComeBack
  <1> QED
    BY <1>1, <1>2, <1>3, <1>4, <1>5, SpanAdmit, SpanRefuse DEF LimiterNext, limiterVars

\* And they hold in every behaviour.
LEMMA SpanHolds == LimiterSpec => []SpanInv
  <1>1. LimiterInit => SpanInv
    BY SpanInit DEF LimiterInit, FreshStart
  <1> QED
    BY <1>1, LimiterInvHolds, SpanStep, PTL DEF LimiterSpec

(***************************************************************************)
(* The theorems.                                                           *)
(***************************************************************************)

\* Every variable of the limiter keeps its shape, and no window counts beyond
\* the limit.
THEOREM LimiterTypeCorrect == LimiterSpec => []LimiterTypeOK
  <1>1. LimiterInv => LimiterTypeOK
    BY DEF LimiterInv
  <1> QED
    BY <1>1, LimiterInvHolds, PTL

\* However long a caller waited for the lock, the Retry-After it was told is
\* enough for the window that refused it, and no more than a second too long
\* beyond its wait.
THEOREM AdviceHoldsAlways == LimiterSpec => []AdviceHolds
  <1>1. LimiterInv => AdviceHolds
    BY DEF LimiterInv, Clocks, Advised, AdviceHolds
  <1> QED
    BY <1>1, LimiterInvHolds, PTL

\* The sweep keeps the map small: every tracked key opened its window within a
\* window length of the last sweep, and is tracked once.
THEOREM NoIdleHoardHolds == LimiterSpec => []NoIdleHoard
  <1>1. LimiterInv => NoIdleHoard
    BY DEF LimiterInv
  <1> QED
    BY <1>1, LimiterInvHolds, PTL

\* However callers stall between reading the clock and taking the lock, and
\* whatever the sweep forgets in between, no span of a window length holds more
\* than two windows' events and, with stalls, all but one of a third's.
THEOREM SpanBoundHolds == LimiterSpec => []SpanBound
  <1>1. ASSUME LimiterInv, SpanInv PROVE SpanBound
    <2> SUFFICES ASSUME NEW k \in Keys
                 PROVE  Cardinality(Events(k))
                            <= IF Stall = 0 THEN 2 * EventLimit ELSE 3 * EventLimit - 1
      BY DEF SpanBound, Events
    <2>1. PICK A \in SUBSET granted, B \in SUBSET granted, C \in SUBSET granted,
               a \in Int, b \in Int, c \in Int : Windows(k, A, B, C, a, b, c)
      BY <1>1 DEF SpanInv
    <2>2. IsFiniteSet(A) /\ IsFiniteSet(B) /\ IsFiniteSet(C)
      BY <1>1, EventsDated
    <2>3. /\ IsFiniteSet(A \cup B)
          /\ Cardinality(A \cup B) <= Cardinality(A) + Cardinality(B)
          /\ Cardinality(A \cup B \cup C) <= Cardinality(A \cup B) + Cardinality(C)
      <3>1. IsFiniteSet(A \cup B)
        BY <2>2, FS_Union
      <3>2. /\ Cardinality(A \cap B) \in Nat /\ Cardinality((A \cup B) \cap C) \in Nat
            /\ Cardinality(A) \in Nat /\ Cardinality(B) \in Nat /\ Cardinality(C) \in Nat
            /\ Cardinality(A \cup B) \in Nat
        BY <2>2, <3>1, FS_Intersection, FS_CardinalityType
      <3>3. /\ Cardinality(A \cup B)
                   = Cardinality(A) + Cardinality(B) - Cardinality(A \cap B)
            /\ Cardinality(A \cup B \cup C)
                   = Cardinality(A \cup B) + Cardinality(C) - Cardinality((A \cup B) \cap C)
        BY <2>2, <3>1, FS_Union
      <3> QED
        BY <3>1, <3>2, <3>3
    <2>4. Cardinality(C) <= EventLimit
      <3>1. \A d \in buckets : d.n \in Int /\ d.n <= EventLimit
        BY <1>1, EventsAssumption DEF LimiterInv, LimiterTypeOK, BucketRow
      <3>2. Cardinality(C) \in Int /\ EventLimit \in Int
        BY <2>2, FS_CardinalityType, EventsAssumption
      <3> QED
        BY <2>1, <3>1, <3>2 DEF Windows, Standing, Tracked, Forgotten, Counted
    <2>5. /\ Cardinality(B) <= EventLimit /\ Cardinality(A) < EventLimit
          /\ Stall = 0 => A = {}
      BY <2>1 DEF Windows, Remnant, Counted
    <2>6. Stall = 0 => Cardinality(A) = 0
      BY <2>5, FS_EmptySet
    <2>7. /\ Cardinality(A) \in Int /\ Cardinality(B) \in Int /\ Cardinality(C) \in Int
          /\ Cardinality(A \cup B) \in Int /\ Cardinality(A \cup B \cup C) \in Int
          /\ EventLimit \in Int
      <3>1. IsFiniteSet(A \cup B \cup C)
        BY <2>2, <2>3, FS_Union
      <3> QED
        BY <2>2, <2>3, <3>1, FS_CardinalityType, EventsAssumption
    <2>8. Events(k) = A \cup B \cup C
      BY <2>1 DEF Windows
    <2> QED
      BY <2>3, <2>4, <2>5, <2>6, <2>7, <2>8
  <1> QED
    BY <1>1, LimiterInvHolds, SpanHolds, PTL

-----------------------------------------------------------------------------
(***************************************************************************)
(* The access keys.                                                        *)
(***************************************************************************)

(***************************************************************************)
(* The inductive invariant: dates lie in the past, and after a fetch that  *)
(* succeeded the cache is right about every key as of its date.            *)
(***************************************************************************)

\* A key is published and withdrawn in the past, if at all.
Dates ==
    /\ minute <= MaxMinute
    /\ \A k \in Kids :
          /\ published[k].from = NotYet \/ published[k].from <= minute
          /\ published[k].to = NotYet \/ published[k].to <= minute

\* What ids says of the provider was true at some instant since at.
RightSince(ids, at) ==
    /\ \A k \in ids : published[k].to >= at
    /\ \A k \in Kids \ ids : published[k].from >= at \/ published[k].to <= minute

CacheRight ==
    /\ fetchedAt <= minute
    /\ fetchedAt = Never => cache = {} /\ ~failed
    /\ ~failed /\ fetchedAt # Never => RightSince(cache, fetchedAt)

FetchRight ==
    fetch # NoFetch =>
        /\ fetch.at <= minute
        /\ RightSince(fetch.then, fetch.at)
        /\ requests[fetch.by].doing = "asking"

\* A key in hand was, and a key not found was not, the provider's in time.
HandRight(q) ==
    /\ q.doing \in {"found", "unknown", "accepted", "expired"} => q.at <= minute
    /\ q.doing \in {"found", "accepted", "expired"} =>
          q.failed \/ published[q.kid].to > q.at - MaxAge
    /\ q.doing = "unknown" /\ ~q.failed =>
          \/ published[q.kid].from > q.at - RetryGap
          \/ published[q.kid].to <= minute
    /\ q.doing = "accepted" =>
          q.token[1] - Skew <= q.judged /\ q.judged <= q.token[2] + Skew

KeysInv ==
    /\ KeysTypeOK /\ Dates /\ CacheRight /\ FetchRight
    /\ \A r \in Visitors : HandRight(requests[r])

\* A cache never fetched is right about nothing and claims nothing.
LEMMA KeysInvInit == KeysInit => KeysInv
  <1> SUFFICES ASSUME KeysInit PROVE KeysInv
    OBVIOUS
  <1> USE AgesAssumption DEF KeysInit, Never, NotYet
  <1>0. /\ published \in [Kids -> [from : Nat, to : Nat]]
        /\ minute \in Nat /\ fetchedAt \in Nat \cup {Never}
    OBVIOUS
  <1>1. KeysTypeOK
    <2>1. Quiet \in RequestRow
      BY DEF RequestRow
    <2>2. requests \in [Visitors -> RequestRow]
      BY <2>1
    <2> QED
      BY <1>0, <2>2 DEF KeysTypeOK
  <1>2. Dates /\ CacheRight /\ FetchRight
    BY DEF Dates, CacheRight, FetchRight, NoFetch
  <1>3. \A r \in Visitors : HandRight(requests[r])
    BY DEF HandRight, Quiet
  <1> QED
    BY <1>1, <1>2, <1>3 DEF KeysInv

(***************************************************************************)
(* Steps that leave the provider and the clock alone keep what is right    *)
(* about every request but the one that moves.                             *)
(***************************************************************************)

\* What one visitor's request becomes leaves every other as right as it was.
LEMMA OthersKeep ==
    ASSUME KeysInv, NEW r \in Visitors, NEW q \in RequestRow,
           UNCHANGED <<minute, published>>,
           requests' = [requests EXCEPT ![r] = q],
           HandRight(q)
    PROVE  /\ requests' \in [Visitors -> RequestRow]
           /\ \A s \in Visitors : HandRight(requests[s])'
  BY DEF KeysInv, KeysTypeOK, HandRight

\* The row that Looked leaves.
LEMMA LookedRow ==
    ASSUME KeysInv, NEW r \in Visitors, requests[r].doing = "asking",
           NEW ids \in SUBSET Kids, NEW at \in Nat, NEW badly \in BOOLEAN,
           Looked(r, Held(requests[r].kid, ids), at, badly), at <= minute,
           requests[r].kid \in ids /\ ~badly
               => published[requests[r].kid].to > at - MaxAge,
           requests[r].kid \notin ids /\ ~badly
               => \/ published[requests[r].kid].from > at - RetryGap
                  \/ published[requests[r].kid].to <= minute,
           UNCHANGED <<minute, published>>
    PROVE  /\ requests' \in [Visitors -> RequestRow]
           /\ \A s \in Visitors : HandRight(requests[s])'
           /\ \A s \in Visitors \ {r} : requests'[s] = requests[s]
  <1> DEFINE q == [doing |-> Held(requests[r].kid, ids), kid |-> requests[r].kid,
                   token |-> requests[r].token, at |-> at, failed |-> badly]
  <1>1. requests[r] \in [doing : {"asking"}, kid : Kids, token : Tokens]
    BY DEF KeysInv, KeysTypeOK, RequestRow, Quiet
  <1>2. q \in RequestRow
    BY <1>1 DEF RequestRow, Held
  <1>3. requests' = [requests EXCEPT ![r] = q]
    BY DEF Looked, KeysInv, KeysTypeOK
  <1>4. HandRight(q)
    BY DEF HandRight, Held
  <1> HIDE DEF q
  <1>5. \A s \in Visitors \ {r} : requests'[s] = requests[s]
    BY <1>3 DEF KeysInv, KeysTypeOK
  <1> QED
    BY <1>2, <1>3, <1>4, <1>5, OthersKeep

(***************************************************************************)
(* The steps.                                                              *)
(***************************************************************************)

\* A visitor presents a token.
LEMMA PresentStep ==
    ASSUME NEW r \in Visitors, NEW k \in Kids, NEW t \in Tokens, KeysInv, Present(r, k, t)
    PROVE  KeysInv'
  <1> DEFINE q == [doing |-> "asking", kid |-> k, token |-> t]
  <1>1. q \in RequestRow /\ HandRight(q)
    BY DEF RequestRow, HandRight
  <1>2. requests' = [requests EXCEPT ![r] = q] /\ requests[r] = Quiet
    BY DEF Present
  <1>3. UNCHANGED <<minute, published, cache, fetchedAt, fetch, failed>>
    BY DEF Present
  <1> HIDE DEF q
  <1>4. /\ requests' \in [Visitors -> RequestRow]
        /\ \A s \in Visitors : HandRight(requests[s])'
    BY <1>1, <1>2, <1>3, OthersKeep
  <1>5. KeysTypeOK' /\ Dates' /\ CacheRight'
    BY <1>3, <1>4 DEF KeysInv, KeysTypeOK, Dates, CacheRight, RightSince
  <1>6. FetchRight'
    <2>1. fetch # NoFetch => fetch.by \in Visitors /\ fetch.by # r
      BY <1>2 DEF KeysInv, KeysTypeOK, FetchRight, Quiet
    <2>2. fetch # NoFetch => requests'[fetch.by] = requests[fetch.by]
      BY <1>2, <2>1 DEF KeysInv, KeysTypeOK
    <2> QED
      BY <1>3, <2>2 DEF KeysInv, FetchRight, RightSince
  <1> QED
    BY <1>4, <1>5, <1>6 DEF KeysInv

\* A key in a fresh cache, or one asked for too early, is right by its date.
LEMMA LookupStep == ASSUME NEW r \in Visitors, KeysInv, Lookup(r) PROVE KeysInv'
  <1>1. /\ requests[r].doing = "asking" /\ fetch = NoFetch
        /\ Looked(r, Held(requests[r].kid, cache), minute, failed)
        /\ UNCHANGED <<minute, published, cache, fetchedAt, fetch, failed>>
    BY DEF Lookup
  <1>2. /\ cache \in SUBSET Kids /\ minute \in Nat /\ failed \in BOOLEAN
        /\ fetchedAt \in Int /\ published \in [Kids -> [from : Nat, to : Nat]]
        /\ requests[r].kid \in Kids
    BY <1>1 DEF KeysInv, KeysTypeOK, Never, RequestRow, Quiet
  <1>3. requests[r].kid \in cache /\ ~failed
            => published[requests[r].kid].to > minute - MaxAge
    <2> SUFFICES ASSUME requests[r].kid \in cache, ~failed
                 PROVE  published[requests[r].kid].to > minute - MaxAge
      OBVIOUS
    <2>1. fetchedAt # Never /\ RightSince(cache, fetchedAt)
      BY DEF KeysInv, CacheRight
    <2>2. minute - fetchedAt < MaxAge
      BY <1>2, AgesAssumption DEF Lookup, Fresh, TooSoon
    <2> QED
      BY <1>2, <2>1, <2>2, AgesAssumption DEF RightSince
  <1>4. requests[r].kid \notin cache /\ ~failed
            => \/ published[requests[r].kid].from > minute - RetryGap
               \/ published[requests[r].kid].to <= minute
    BY <1>2, AgesAssumption DEF Lookup, TooSoon, KeysInv, CacheRight, RightSince
  <1>5. /\ requests' \in [Visitors -> RequestRow]
        /\ \A s \in Visitors : HandRight(requests[s])'
    BY <1>1, <1>2, <1>3, <1>4, LookedRow
  <1> QED
    BY <1>1, <1>5 DEF KeysInv, KeysTypeOK, Dates, CacheRight, FetchRight, RightSince

\* A fetch is started under the mutex.
LEMMA StartFetchStep == ASSUME NEW r \in Visitors, KeysInv, StartFetch(r) PROVE KeysInv'
  <1>1. /\ fetch' = [by |-> r, at |-> minute, then |-> Published]
        /\ requests[r].doing = "asking"
        /\ UNCHANGED <<minute, published, cache, fetchedAt, requests, failed>>
    BY DEF StartFetch
  <1>2. KeysTypeOK' /\ Dates' /\ CacheRight' /\ \A s \in Visitors : HandRight(requests[s])'
    BY <1>1 DEF KeysInv, KeysTypeOK, Published, Dates, CacheRight, RightSince, HandRight
  <1>3. RightSince(Published, minute)
    BY AgesAssumption DEF KeysInv, KeysTypeOK, Dates, RightSince, Published, NotYet
  <1>4. FetchRight'
    BY <1>1, <1>3 DEF KeysInv, KeysTypeOK, FetchRight, RightSince, Published
  <1> QED
    BY <1>2, <1>4 DEF KeysInv

\* Either answer is right as of the start of the fetch, which dates the cache.
LEMMA FetchOKStep == ASSUME NEW r \in Visitors, KeysInv, FetchOK(r) PROVE KeysInv'
  <1>1. PICK ids \in {fetch.then, Published} \ {{}} :
            /\ cache' = ids
            /\ Looked(r, Held(requests[r].kid, ids), fetch.at, FALSE)
    BY DEF FetchOK
  <1>2. /\ fetchedAt' = fetch.at /\ failed' = FALSE /\ fetch' = NoFetch
        /\ fetch.by = r /\ UNCHANGED <<minute, published>>
    BY DEF FetchOK
  <1>3. fetch # NoFetch
    BY <1>2, VisitorsAssumption DEF NoFetch
  <1>4. /\ fetch.at \in Nat /\ fetch.at <= minute /\ ids \in SUBSET Kids
        /\ requests[r].doing = "asking" /\ requests[r].kid \in Kids /\ minute \in Nat
        /\ published \in [Kids -> [from : Nat, to : Nat]]
    BY <1>2, <1>3 DEF KeysInv, KeysTypeOK, FetchRight, RequestRow, Quiet, Published
  <1>5. RightSince(ids, fetch.at)
    <2>1. RightSince(Published, fetch.at)
      BY <1>4, AgesAssumption DEF KeysInv, Dates, RightSince, Published, NotYet
    <2> QED
      BY <1>3, <2>1 DEF KeysInv, FetchRight
  <1>6. /\ requests' \in [Visitors -> RequestRow]
        /\ \A s \in Visitors : HandRight(requests[s])'
    <2>1. requests[r].kid \in ids => published[requests[r].kid].to > fetch.at - MaxAge
      BY <1>4, <1>5, AgesAssumption DEF RightSince
    <2>2. requests[r].kid \notin ids
              => \/ published[requests[r].kid].from > fetch.at - RetryGap
                 \/ published[requests[r].kid].to <= minute
      BY <1>4, <1>5, AgesAssumption DEF RightSince
    <2> QED
      BY <1>1, <1>2, <1>4, <2>1, <2>2, LookedRow
  <1>7. KeysTypeOK' /\ Dates' /\ FetchRight'
    BY <1>1, <1>2, <1>4, <1>6 DEF KeysInv, KeysTypeOK, Dates, FetchRight
  <1>8. CacheRight'
    BY <1>1, <1>2, <1>4, <1>5 DEF CacheRight, RightSince, Never
  <1> QED
    BY <1>6, <1>7, <1>8 DEF KeysInv
\* The old keys stay under a new date, and everyone knows that it failed.
LEMMA FetchFailedStep == ASSUME NEW r \in Visitors, KeysInv, FetchFailed(r) PROVE KeysInv'
  <1>1. /\ Looked(r, Held(requests[r].kid, cache), fetch.at, TRUE)
        /\ fetchedAt' = fetch.at /\ failed' = TRUE /\ fetch' = NoFetch
        /\ fetch.by = r /\ UNCHANGED <<minute, published, cache>>
    BY DEF FetchFailed
  <1>2. fetch # NoFetch
    BY <1>1, VisitorsAssumption DEF NoFetch
  <1>3. /\ fetch.at \in Nat /\ fetch.at <= minute /\ cache \in SUBSET Kids
        /\ requests[r].doing = "asking"
    BY <1>1, <1>2 DEF KeysInv, KeysTypeOK, FetchRight
  <1>4. /\ requests' \in [Visitors -> RequestRow]
        /\ \A s \in Visitors : HandRight(requests[s])'
    BY <1>1, <1>3, LookedRow
  <1>5. KeysTypeOK' /\ Dates' /\ CacheRight' /\ FetchRight'
    BY <1>1, <1>3, <1>4 DEF KeysInv, KeysTypeOK, Dates, CacheRight, FetchRight, Never
  <1> QED
    BY <1>4, <1>5 DEF KeysInv

\* A request whose key is in hand is answered: nobody fetches for it.
LEMMA JudgeStep == ASSUME NEW r \in Visitors, KeysInv, Judge(r) PROVE KeysInv'
  <1> DEFINE p == requests[r]
             q == [doing |-> IF InTime(p, minute) THEN "accepted" ELSE "expired",
                   kid |-> p.kid, token |-> p.token, at |-> p.at, failed |-> p.failed,
                   judged |-> minute]
  <1>1. /\ p.doing = "found" /\ requests' = [requests EXCEPT ![r] = q]
        /\ UNCHANGED <<minute, published, cache, fetchedAt, fetch, failed>>
    BY DEF Judge, KeysInv, KeysTypeOK
  <1>2. /\ p \in [doing : {"found", "unknown"}, kid : Kids, token : Tokens,
                  at : Nat, failed : BOOLEAN]
        /\ minute \in Nat /\ HandRight(p)
    BY <1>1 DEF KeysInv, KeysTypeOK, RequestRow, Quiet
  <1>3. q \in RequestRow
    BY <1>2 DEF RequestRow
  <1>4. HandRight(q)
    <2>1. p.token[1] \in Nat /\ p.token[2] \in Nat /\ Skew \in Nat
      BY <1>2, TokensAssumption, AgesAssumption
    <2>2. InTime(p, minute) =>
              p.token[1] - Skew <= minute /\ minute <= p.token[2] + Skew
      BY <1>2, <2>1 DEF InTime
    <2> QED
      BY <1>1, <1>2, <2>2 DEF HandRight
  <1> HIDE DEF q
  <1>5. /\ requests' \in [Visitors -> RequestRow]
        /\ \A s \in Visitors : HandRight(requests[s])'
    BY <1>1, <1>3, <1>4, OthersKeep
  <1>6. fetch # NoFetch => requests'[fetch.by] = requests[fetch.by]
    BY <1>1 DEF KeysInv, KeysTypeOK, FetchRight
  <1> QED
    BY <1>1, <1>5, <1>6 DEF KeysInv, KeysTypeOK, Dates, CacheRight, FetchRight, RightSince

\* A request ends.
LEMMA DoneStep == ASSUME NEW r \in Visitors, KeysInv, Done(r) PROVE KeysInv'
  <1>1. /\ requests[r].doing # "asking" /\ requests' = [requests EXCEPT ![r] = Quiet]
        /\ UNCHANGED <<minute, published, cache, fetchedAt, fetch, failed>>
    BY DEF Done
  <1>2. Quiet \in RequestRow /\ HandRight(Quiet)
    BY DEF RequestRow, HandRight, Quiet
  <1>3. /\ requests' \in [Visitors -> RequestRow]
        /\ \A s \in Visitors : HandRight(requests[s])'
    BY <1>1, <1>2, OthersKeep
  <1>4. fetch # NoFetch => requests'[fetch.by] = requests[fetch.by]
    BY <1>1 DEF KeysInv, KeysTypeOK, FetchRight
  <1> QED
    BY <1>1, <1>3, <1>4 DEF KeysInv, KeysTypeOK, Dates, CacheRight, FetchRight, RightSince

\* Rotation moves a key's dates to now, which is later than all that is relied on.
LEMMA RotationStep ==
    ASSUME NEW k \in Kids, KeysInv, Publish(k) \/ Withdraw(k)
    PROVE  KeysInv'
  <1>1. /\ published' \in [Kids -> [from : Nat, to : Nat]]
        /\ UNCHANGED <<minute, cache, fetchedAt, fetch, requests, failed>>
        /\ minute \in Nat
    BY DEF KeysInv, KeysTypeOK, Publish, Withdraw
  <1>2. \A h \in Kids :
            /\ \/ published'[h].from = published[h].from
               \/ published[h].from = NotYet /\ published'[h].from = minute
            /\ \/ published'[h].to = published[h].to
               \/ published[h].to = NotYet /\ published'[h].to = minute
    <2>1. published \in [Kids -> [from : Nat, to : Nat]]
      BY DEF KeysInv, KeysTypeOK
    <2>2. CASE Publish(k)
      <3>1. /\ published' = [published EXCEPT ![k] = [published[k] EXCEPT !.from = minute]]
            /\ published[k].from = NotYet
        BY <2>2 DEF Publish
      <3>2. published'[k].from = minute /\ published'[k].to = published[k].to
        BY <2>1, <3>1
      <3>3. \A h \in Kids \ {k} : published'[h] = published[h]
        BY <2>1, <3>1
      <3> QED
        BY <3>1, <3>2, <3>3
    <2>3. CASE Withdraw(k)
      <3>1. /\ published' = [published EXCEPT ![k] = [published[k] EXCEPT !.to = minute]]
            /\ published[k].to = NotYet
        BY <2>3 DEF Withdraw, Published
      <3>2. published'[k].to = minute /\ published'[k].from = published[k].from
        BY <2>1, <3>1
      <3>3. \A h \in Kids \ {k} : published'[h] = published[h]
        BY <2>1, <3>1
      <3> QED
        BY <3>1, <3>2, <3>3
    <2> QED
      BY <2>2, <2>3
  <1>3. KeysTypeOK' /\ Dates'
    BY <1>1, <1>2 DEF KeysInv, KeysTypeOK, Dates, NotYet
  <1>4. ASSUME NEW ids \in SUBSET Kids, NEW at \in Nat, at <= minute, RightSince(ids, at)
        PROVE  \A h \in Kids : /\ h \in ids => published'[h].to >= at
                               /\ h \notin ids => published'[h].from >= at
                                                  \/ published'[h].to <= minute
    BY <1>1, <1>2, <1>4, AgesAssumption DEF RightSince, KeysInv, KeysTypeOK, Dates, NotYet
  <1>5. CacheRight'
    <2>1. fetchedAt # Never => fetchedAt \in Nat /\ cache \in SUBSET Kids
      BY DEF KeysInv, KeysTypeOK
    <2> QED
      BY <1>1, <1>4, <2>1 DEF KeysInv, CacheRight, RightSince
  <1>6. FetchRight'
    <2>1. fetch # NoFetch => fetch.at \in Nat /\ fetch.then \in SUBSET Kids
      BY DEF KeysInv, KeysTypeOK
    <2> QED
      BY <1>1, <1>4, <2>1 DEF KeysInv, FetchRight, RightSince
  <1>7. ASSUME NEW s \in Visitors PROVE HandRight(requests[s])'
    <2>1. requests[s] \in RequestRow /\ HandRight(requests[s])
      BY DEF KeysInv, KeysTypeOK
    <2>2. CASE requests[s].doing \in {"found", "accepted", "expired"}
      <3>1. requests[s].kid \in Kids /\ requests[s].at \in Nat
        BY <2>1, <2>2 DEF RequestRow, Quiet
      <3> QED
        BY <1>1, <1>2, <2>1, <2>2, <3>1, AgesAssumption
           DEF HandRight, KeysInv, KeysTypeOK, NotYet
    <2>3. CASE requests[s].doing = "unknown"
      <3>1. requests[s].kid \in Kids /\ requests[s].at \in Nat
        BY <2>1, <2>3 DEF RequestRow, Quiet
      <3> QED
        BY <1>1, <1>2, <2>1, <2>3, <3>1, AgesAssumption
           DEF HandRight, KeysInv, KeysTypeOK, Dates, NotYet
    <2> QED
      BY <1>1, <2>1, <2>2, <2>3 DEF HandRight
  <1> QED
    BY <1>3, <1>5, <1>6, <1>7 DEF KeysInv

\* A restart forgets the cache and every request.
LEMMA ForgetKeysStep == KeysInv /\ ForgetKeys => KeysInv'
  <1> SUFFICES ASSUME KeysInv, ForgetKeys PROVE KeysInv'
    OBVIOUS
  <1>1. Quiet \in RequestRow /\ HandRight(Quiet)
    BY DEF RequestRow, HandRight, Quiet
  <1>2. /\ requests' = [r \in Visitors |-> Quiet]
        /\ cache' = {} /\ fetchedAt' = Never /\ fetch' = NoFetch /\ failed' = FALSE
        /\ UNCHANGED <<minute, published>>
    BY DEF ForgetKeys
  <1>3. requests' \in [Visitors -> RequestRow] /\ \A r \in Visitors : HandRight(requests[r])'
    BY <1>1, <1>2 DEF HandRight, Quiet
  <1>4. KeysTypeOK'
    BY <1>2, <1>3 DEF KeysInv, KeysTypeOK
  <1>5. Dates' /\ FetchRight'
    BY <1>2 DEF KeysInv, Dates, FetchRight
  <1>6. CacheRight'
    BY <1>2 DEF KeysInv, KeysTypeOK, CacheRight, Never
  <1> QED
    BY <1>3, <1>4, <1>5, <1>6 DEF KeysInv

\* A minute passes.
LEMMA MinuteStep == KeysInv /\ Minute => KeysInv'
  <1> SUFFICES ASSUME KeysInv, Minute PROVE KeysInv'
    OBVIOUS
  <1>1. /\ minute' = minute + 1 /\ minute < MaxMinute /\ minute \in Nat
        /\ UNCHANGED <<published, cache, fetchedAt, fetch, requests, failed>>
        /\ published \in [Kids -> [from : Nat, to : Nat]]
    BY DEF Minute, KeysInv, KeysTypeOK
  <1>2. KeysTypeOK' /\ Dates'
    BY <1>1, AgesAssumption DEF KeysInv, KeysTypeOK, Dates
  <1>3. \A ids \in SUBSET Kids, at \in Nat : RightSince(ids, at) => RightSince(ids, at)'
    BY <1>1 DEF RightSince
  <1>4. CacheRight'
    <2>1. fetchedAt \in Nat \cup {Never} /\ cache \in SUBSET Kids
      BY DEF KeysInv, KeysTypeOK
    <2> QED
      BY <1>1, <1>3, <2>1 DEF KeysInv, CacheRight, RightSince, Never
  <1>5. FetchRight'
    <2>1. fetch # NoFetch => fetch.at \in Nat /\ fetch.then \in SUBSET Kids
      BY DEF KeysInv, KeysTypeOK
    <2> QED
      BY <1>1, <1>3, <2>1 DEF KeysInv, FetchRight, RightSince
  <1>6. ASSUME NEW s \in Visitors PROVE HandRight(requests[s])'
    <2>1. requests[s] \in RequestRow /\ HandRight(requests[s])
      BY DEF KeysInv, KeysTypeOK
    <2>2. requests[s].doing \in {"found", "unknown", "accepted", "expired"} =>
              requests[s].at \in Nat
      BY <2>1 DEF RequestRow, Quiet
    <2>3. requests[s].doing = "unknown" => requests[s].kid \in Kids
      BY <2>1 DEF RequestRow, Quiet
    <2> QED
      BY <1>1, <2>1, <2>2, <2>3 DEF HandRight
  <1> QED
    BY <1>2, <1>4, <1>5, <1>6 DEF KeysInv

\* So every step keeps the invariant.
LEMMA KeysInvStep == KeysInv /\ [KeysNext]_keysVars => KeysInv'
  <1> SUFFICES ASSUME KeysInv, [KeysNext]_keysVars PROVE KeysInv'
    OBVIOUS
  <1>1. CASE KeysNext
    BY <1>1, PresentStep, LookupStep, StartFetchStep, FetchOKStep, FetchFailedStep,
       JudgeStep, DoneStep, RotationStep, ForgetKeysStep, MinuteStep DEF KeysNext
  <1>2. CASE UNCHANGED keysVars
    BY <1>2 DEF keysVars, KeysInv, KeysTypeOK, Dates, CacheRight, FetchRight, RightSince,
                HandRight, Published
  <1> QED
    BY <1>1, <1>2

\* And it holds in every behaviour.
LEMMA KeysInvHolds == KeysSpec => []KeysInv
  BY KeysInvInit, KeysInvStep, PTL DEF KeysSpec

(***************************************************************************)
(* The theorems.                                                           *)
(***************************************************************************)

\* Every variable of the key cache keeps its shape.
THEOREM KeysTypeCorrect == KeysSpec => []KeysTypeOK
  <1>1. KeysInv => KeysTypeOK
    BY DEF KeysInv
  <1> QED
    BY <1>1, KeysInvHolds, PTL

\* The reports page opens to the provider's keys within the ages of key(), and
\* to tokens in force when they are judged: for every schedule of rotations,
\* fetches, failures and restarts.
THEOREM KeysFollowedHolds == KeysSpec => []KeysFollowed
  <1>1. KeysInv => KeysFollowed
    BY DEF KeysInv, HandRight, KeysFollowed, AcceptedIsCurrent, RotationFollowed
  <1> QED
    BY <1>1, KeysInvHolds, PTL

-----------------------------------------------------------------------------
(***************************************************************************)
(* The server's own scoring.                                               *)
(***************************************************************************)

\* The parts of a key, and two keys part by part.
Parts(s, n) == DOMAIN s = 1 .. n /\ \A i \in 1 .. n : s[i] \in Int

\* Comparing keys of five parts, part by part.
LEMMA ExceedsFive ==
    ASSUME NEW s, NEW t, Parts(s, 5), Parts(t, 5)
    PROVE  Exceeds(s, t) <=>
               \/ s[1] > t[1]
               \/ s[1] = t[1] /\ s[2] > t[2]
               \/ s[1] = t[1] /\ s[2] = t[2] /\ s[3] > t[3]
               \/ s[1] = t[1] /\ s[2] = t[2] /\ s[3] = t[3] /\ s[4] > t[4]
               \/ s[1] = t[1] /\ s[2] = t[2] /\ s[3] = t[3] /\ s[4] = t[4] /\ s[5] > t[5]
<1> DEFINE ahead(i) == s[i] > t[i] /\ \A j \in 1 .. (i - 1) : s[j] = t[j]
<1>1. Exceeds(s, t) <=> \E i \in 1 .. 5 : ahead(i)
  BY DEF Exceeds, Parts
<1>2. \A i \in 1 .. 5 : i = 1 \/ i = 2 \/ i = 3 \/ i = 4 \/ i = 5
  OBVIOUS
<1>3. ahead(1) <=> s[1] > t[1]
  OBVIOUS
<1>4. ahead(2) <=> s[1] = t[1] /\ s[2] > t[2]
  <2>1. 1 .. (2 - 1) = {1}
    OBVIOUS
  <2> QED BY <2>1
<1>5. ahead(3) <=> s[1] = t[1] /\ s[2] = t[2] /\ s[3] > t[3]
  <2>1. 1 .. (3 - 1) = {1, 2}
    OBVIOUS
  <2> QED BY <2>1
<1>6. ahead(4) <=> s[1] = t[1] /\ s[2] = t[2] /\ s[3] = t[3] /\ s[4] > t[4]
  <2>1. 1 .. (4 - 1) = {1, 2, 3}
    OBVIOUS
  <2> QED BY <2>1
<1>7. ahead(5) <=> /\ s[1] = t[1] /\ s[2] = t[2] /\ s[3] = t[3] /\ s[4] = t[4]
                   /\ s[5] > t[5]
  <2>1. 1 .. (5 - 1) = {1, 2, 3, 4}
    OBVIOUS
  <2> QED BY <2>1
<1> HIDE DEF ahead
<1>8. (\E i \in 1 .. 5 : ahead(i))
          <=> ahead(1) \/ ahead(2) \/ ahead(3) \/ ahead(4) \/ ahead(5)
  BY <1>2
<1> QED BY <1>1, <1>3, <1>4, <1>5, <1>6, <1>7, <1>8

\* A part more decides only between equals.
LEMMA ExceedsSix ==
    ASSUME NEW s, NEW t, NEW u, NEW v, Parts(s, 5), Parts(t, 5), Parts(u, 6), Parts(v, 6),
           \A i \in 1 .. 5 : s[i] = u[i] /\ t[i] = v[i]
    PROVE  Exceeds(u, v) <=>
               \/ Exceeds(s, t)
               \/ /\ s[1] = t[1] /\ s[2] = t[2] /\ s[3] = t[3] /\ s[4] = t[4]
                  /\ s[5] = t[5] /\ u[6] > v[6]
<1> DEFINE ahead(i) == u[i] > v[i] /\ \A j \in 1 .. (i - 1) : u[j] = v[j]
           first(i) == s[i] > t[i] /\ \A j \in 1 .. (i - 1) : s[j] = t[j]
<1>1. /\ Exceeds(u, v) <=> \E i \in 1 .. 6 : ahead(i)
      /\ Exceeds(s, t) <=> \E i \in 1 .. 5 : first(i)
  BY DEF Exceeds, Parts
<1>2. \A i \in 1 .. 5 : ahead(i) <=> first(i)
  <2> TAKE i \in 1 .. 5
  <2>1. \A j \in 1 .. (i - 1) : j \in 1 .. 5
    OBVIOUS
  <2> QED BY <2>1
<1>3. ahead(6) <=> /\ s[1] = t[1] /\ s[2] = t[2] /\ s[3] = t[3] /\ s[4] = t[4]
                   /\ s[5] = t[5] /\ u[6] > v[6]
  <2>1. 1 .. (6 - 1) = {1, 2, 3, 4, 5}
    OBVIOUS
  <2>2. ahead(6) <=> /\ u[1] = v[1] /\ u[2] = v[2] /\ u[3] = v[3] /\ u[4] = v[4]
                     /\ u[5] = v[5] /\ u[6] > v[6]
    BY <2>1
  <2> QED BY <2>2
<1>4. \A i : i \in 1 .. 6 <=> i \in 1 .. 5 \/ i = 6
  OBVIOUS
<1> HIDE DEF ahead, first
<1> QED BY <1>1, <1>2, <1>3, <1>4

\* What the orders compare of a run.
Compared(r) == /\ r.completed \in BOOLEAN
               /\ r.enemies \in Int /\ r.score \in Int /\ r.elapsed \in Int

\* The parts, and what the parts say of two runs.
Finish(r)  == Bit(r.completed)
Reached(r) == IF r.completed THEN 0 ELSE r.enemies
Swift(r)   == IF r.completed THEN -r.elapsed ELSE 0
Gained(r)  == r.score
Tempo(r)   == -r.elapsed

Beats(r, s) ==
    \/ Finish(r) > Finish(s)
    \/ Finish(r) = Finish(s) /\ Reached(r) > Reached(s)
    \/ Finish(r) = Finish(s) /\ Reached(r) = Reached(s) /\ Swift(r) > Swift(s)
    \/ /\ Finish(r) = Finish(s) /\ Reached(r) = Reached(s) /\ Swift(r) = Swift(s)
       /\ Gained(r) > Gained(s)
    \/ /\ Finish(r) = Finish(s) /\ Reached(r) = Reached(s) /\ Swift(r) = Swift(s)
       /\ Gained(r) = Gained(s) /\ Tempo(r) > Tempo(s)

Equals(r, s) == /\ Finish(r) = Finish(s) /\ Reached(r) = Reached(s)
                /\ Swift(r) = Swift(s) /\ Gained(r) = Gained(s) /\ Tempo(r) = Tempo(s)

\* What the arcade order compares are numbers.
LEMMA PartsAreNumbers ==
    ASSUME NEW r, Compared(r)
    PROVE  /\ Finish(r) \in Int /\ Reached(r) \in Int /\ Swift(r) \in Int
           /\ Gained(r) \in Int /\ Tempo(r) \in Int
  BY DEF Compared, Finish, Reached, Swift, Gained, Tempo, Bit

\* The two forms of the key, in their parts.
LEMMA KeyOfParts ==
    ASSUME NEW r, NEW i \in Int, Compared(r)
    PROVE  /\ BetterKey(r) = <<Finish(r), Reached(r), Swift(r), Gained(r), Tempo(r)>>
           /\ OrderKey(r, i)
                = <<Finish(r), Reached(r), Swift(r), Gained(r), Tempo(r), -i>>
           /\ Parts(BetterKey(r), 5) /\ Parts(OrderKey(r, i), 6)
<1>1. BetterKey(r) = <<Finish(r), Reached(r), Swift(r), Gained(r), Tempo(r)>>
  BY DEF BetterKey, Finish, Reached, Swift, Gained, Tempo
<1>2. -(IF r.completed THEN r.elapsed ELSE 0) = Swift(r)
  BY DEF Swift, Compared
<1>3. OrderKey(r, i) = <<Finish(r), Reached(r), Swift(r), Gained(r), Tempo(r), -i>>
  BY <1>2 DEF OrderKey, Finish, Reached, Gained, Tempo
<1> QED BY <1>1, <1>3, PartsAreNumbers DEF Parts

\* A better key is a strict total order of what it is made of.
LEMMA KeyOrder ==
    ASSUME NEW r, NEW s, Compared(r), Compared(s)
    PROVE  Exceeds(BetterKey(r), BetterKey(s)) <=> Beats(r, s)
<1>1. /\ BetterKey(r) = <<Finish(r), Reached(r), Swift(r), Gained(r), Tempo(r)>>
      /\ BetterKey(s) = <<Finish(s), Reached(s), Swift(s), Gained(s), Tempo(s)>>
      /\ Parts(BetterKey(r), 5) /\ Parts(BetterKey(s), 5)
  BY KeyOfParts, 0 \in Int
<1> DEFINE x == BetterKey(r)
           y == BetterKey(s)
<1>2. /\ x[1] = Finish(r) /\ x[2] = Reached(r) /\ x[3] = Swift(r)
      /\ x[4] = Gained(r) /\ x[5] = Tempo(r)
      /\ y[1] = Finish(s) /\ y[2] = Reached(s) /\ y[3] = Swift(s)
      /\ y[4] = Gained(s) /\ y[5] = Tempo(s)
  BY <1>1
<1>3. Parts(x, 5) /\ Parts(y, 5)
  BY <1>1
<1> HIDE DEF x, y
<1>4. Exceeds(x, y) <=> Beats(r, s)
  BY <1>2, <1>3, ExceedsFive DEF Beats
<1> QED BY <1>4 DEF x, y

\* The boards' order is the upsert's, and of two runs that it does not tell
\* apart the earlier is first.
LEMMA OrderExtends ==
    ASSUME NEW r, NEW s, NEW i \in Int, NEW j \in Int, Compared(r), Compared(s)
    PROVE  Exceeds(OrderKey(r, i), OrderKey(s, j)) <=>
               Beats(r, s) \/ (Equals(r, s) /\ i < j)
<1> DEFINE x == BetterKey(r)
           y == BetterKey(s)
           u == OrderKey(r, i)
           v == OrderKey(s, j)
<1>1. /\ x = <<Finish(r), Reached(r), Swift(r), Gained(r), Tempo(r)>>
      /\ y = <<Finish(s), Reached(s), Swift(s), Gained(s), Tempo(s)>>
      /\ u = <<Finish(r), Reached(r), Swift(r), Gained(r), Tempo(r), -i>>
      /\ v = <<Finish(s), Reached(s), Swift(s), Gained(s), Tempo(s), -j>>
      /\ Parts(x, 5) /\ Parts(y, 5) /\ Parts(u, 6) /\ Parts(v, 6)
  BY KeyOfParts
<1> HIDE DEF x, y, u, v
<1>2. /\ x[1] = Finish(r) /\ x[2] = Reached(r) /\ x[3] = Swift(r)
      /\ x[4] = Gained(r) /\ x[5] = Tempo(r)
      /\ y[1] = Finish(s) /\ y[2] = Reached(s) /\ y[3] = Swift(s)
      /\ y[4] = Gained(s) /\ y[5] = Tempo(s)
      /\ u[6] = -i /\ v[6] = -j
  BY <1>1
<1>3. \A k \in 1 .. 5 : x[k] = u[k] /\ y[k] = v[k]
  <2>1. \A k \in 1 .. 5 : k = 1 \/ k = 2 \/ k = 3 \/ k = 4 \/ k = 5
    OBVIOUS
  <2>2. /\ u[1] = Finish(r) /\ u[2] = Reached(r) /\ u[3] = Swift(r)
        /\ u[4] = Gained(r) /\ u[5] = Tempo(r)
        /\ v[1] = Finish(s) /\ v[2] = Reached(s) /\ v[3] = Swift(s)
        /\ v[4] = Gained(s) /\ v[5] = Tempo(s)
    BY <1>1
  <2> QED BY <1>2, <2>1, <2>2
<1>4. Exceeds(u, v) <=> Exceeds(x, y) \/ (Equals(r, s) /\ i < j)
  BY <1>1, <1>2, <1>3, ExceedsSix DEF Equals
<1>5. Exceeds(x, y) <=> Beats(r, s)
  BY KeyOrder DEF x, y
<1> QED BY <1>4, <1>5 DEF u, v

\* The order is total, and lasts along a chain.
LEMMA BeatsOrders ==
    ASSUME NEW r, NEW s, NEW t, Compared(r), Compared(s), Compared(t)
    PROVE  /\ Beats(r, s) \/ Beats(s, r) \/ Equals(r, s)
           /\ Beats(r, s) /\ (Beats(s, t) \/ Equals(s, t)) => Beats(r, t)
           /\ Equals(r, s) <=> Equals(s, r)
  BY PartsAreNumbers DEF Beats, Equals

\* The row held is the best of the runs finished.
Leading ==
    /\ finished \in Seq(Runs)
    /\ finished = <<>> => best = NoCase
    /\ finished # <<>> => best \in Runs
    /\ BestLeads

\* A finished run takes over from the best it beats, and from no other.
LEMMA LeadingStep == Leading /\ [ScoringNext]_scoringVars => Leading'
<1> SUFFICES ASSUME Leading, [ScoringNext]_scoringVars PROVE Leading'
  OBVIOUS
<1>1. \A r \in Runs : Compared(r) /\ r # NoCase
  BY RunsAssumption DEF Compared, NoCase
<1>2. ASSUME NEW r \in Runs, FinishRun(r)
      PROVE  Leading'
  <2> DEFINE n == Len(finished) + 1
  <2>1. /\ finished' = Append(finished, r)
        /\ best' = IF best = NoCase \/ Exceeds(BetterKey(r), BetterKey(best))
                   THEN r ELSE best
    BY <1>2 DEF FinishRun
  <2>2. /\ n \in Nat /\ finished' \in Seq(Runs) /\ finished' # <<>>
        /\ DOMAIN finished = 1 .. (n - 1) /\ DOMAIN finished' = 1 .. n
        /\ finished'[n] = r
        /\ \A i \in 1 .. (n - 1) : finished'[i] = finished[i] /\ finished[i] \in Runs
    BY <2>1 DEF Leading
  <2> HIDE DEF n
  <2>3. CASE finished = <<>>
    <3>1. n = 1 /\ best' = r
      BY <2>1, <2>3 DEF Leading, n
    <3>2. BestLeads'
      <4>1. 1 \in DOMAIN finished' /\ DOMAIN finished' \ {1} = {} /\ finished'[1] = r
        BY <2>2, <3>1
      <4> QED BY <3>1, <4>1 DEF BestLeads
    <3> QED BY <2>2, <3>1, <3>2 DEF Leading
  <2>4. CASE finished # <<>>
    <3>1. PICK i \in 1 .. (n - 1) :
              /\ best = finished[i]
              /\ \A j \in 1 .. (n - 1) : j # i =>
                     Exceeds(OrderKey(finished[i], i), OrderKey(finished[j], j))
      BY <2>2, <2>4 DEF Leading, BestLeads
    <3>2. best \in Runs /\ best # NoCase
      BY <1>1, <2>4 DEF Leading
    <3>3. i \in Int /\ n \in Int /\ i < n /\ i \in 1 .. n /\ n \in 1 .. n
      BY <2>2
    <3>4. CASE Beats(r, best)
      <4>1. best' = r
        BY <1>1, <2>1, <3>2, <3>4, KeyOrder
      <4>2. ASSUME NEW j \in 1 .. (n - 1)
            PROVE  Exceeds(OrderKey(r, n), OrderKey(finished[j], j))
        <5>1. j \in Int /\ finished[j] \in Runs
          BY <2>2
        <5>2. Beats(best, finished[j]) \/ Equals(best, finished[j])
          <6>1. CASE j = i
            BY <3>1, <6>1 DEF Equals
          <6>2. CASE j # i
            BY <1>1, <3>1, <3>2, <3>3, <5>1, <6>2, OrderExtends
          <6> QED BY <6>1, <6>2
        <5>3. Beats(r, finished[j])
          BY <1>1, <3>2, <3>4, <5>1, <5>2, BeatsOrders
        <5> QED BY <1>1, <3>3, <5>1, <5>3, OrderExtends
      <4>3. \A j \in 1 .. n : j # n => j \in 1 .. (n - 1)
        BY <2>2
      <4>4. BestLeads'
        BY <2>2, <3>3, <4>1, <4>2, <4>3 DEF BestLeads
      <4> QED BY <2>2, <4>1, <4>4 DEF Leading
    <3>5. CASE ~Beats(r, best)
      <4>1. best' = best
        BY <1>1, <2>1, <3>2, <3>5, KeyOrder
      <4>2. Exceeds(OrderKey(best, i), OrderKey(r, n))
        BY <1>1, <3>2, <3>3, <3>5, BeatsOrders, OrderExtends
      <4>3. \A j \in 1 .. n : j # n => j \in 1 .. (n - 1)
        BY <2>2
      <4>4. \A j \in 1 .. n : j # i =>
                Exceeds(OrderKey(finished'[i], i), OrderKey(finished'[j], j))
        BY <2>2, <3>1, <4>2, <4>3
      <4>5. BestLeads'
        BY <2>2, <3>1, <3>3, <4>1, <4>4 DEF BestLeads
      <4> QED BY <2>2, <3>2, <4>1, <4>5 DEF Leading
    <3> QED BY <3>4, <3>5
  <2> QED BY <2>3, <2>4
<1>3. CASE UNCHANGED <<best, finished>>
  BY <1>3 DEF Leading, BestLeads
<1>4. ClaimArcade => UNCHANGED <<best, finished>>
  BY SMT DEF ClaimArcade
<1>5. ClaimTrial \/ ClaimEndless => UNCHANGED <<best, finished>>
  BY SMT DEF ClaimTrial, ClaimEndless
<1> QED
  BY <1>2, <1>3, <1>4, <1>5 DEF ScoringNext, scoringVars

\* "One order owns both PB selection and public placement": the five-part upsert
\* condition (arcadeBetter) leaves the row that the seven-part ORDER BY
\* (arcadeOrder) puts first, for any runs in any order and number.
THEOREM BestLeadsHolds == ScoringSpec => []BestLeads
<1>1. ScoringInit => Leading
  BY DEF ScoringInit, Leading, BestLeads
<1>2. Leading => BestLeads
  BY DEF Leading
<1> QED BY <1>1, <1>2, LeadingStep, PTL DEF ScoringSpec
-----------------------------------------------------------------------------
(* The trials and the bodies.                                                *)

\* The larger of two numbers, as Max chooses it.
LEMMA TheLarger ==
    ASSUME NEW x \in Int, NEW y \in Int
    PROVE  Max({x, y}) = IF x >= y THEN x ELSE y
<1>1. \A z \in {x, y} : z >= (IF x >= y THEN x ELSE y) => z = (IF x >= y THEN x ELSE y)
  OBVIOUS
<1> QED BY <1>1 DEF Max

\* The smaller of two numbers, as Min chooses it.
LEMMA TheSmaller ==
    ASSUME NEW x \in Int, NEW y \in Int
    PROVE  Min({x, y}) = IF x <= y THEN x ELSE y
<1>1. \A z \in {x, y} : z <= (IF x <= y THEN x ELSE y) => z = (IF x <= y THEN x ELSE y)
  OBVIOUS
<1> QED BY <1>1 DEF Min

\* A trial as it arrives.
Timed(t) == \E n \in Nat : t.hits \in [1 .. n -> Int] /\ t.misfires \in Int

\* What Validate leaves of it.
Sound(t, n) ==
    /\ n \in 1 .. 3 /\ n + t.misfires = 3 /\ t.misfires \in Nat
    /\ t.hits \in [1 .. n -> Int] /\ Len(t.hits) = n
    /\ Fastest(t.hits) \in Int /\ Slowest(t.hits) \in Int
    /\ 500 <= Fastest(t.hits) /\ Fastest(t.hits) <= Slowest(t.hits)
    /\ Slowest(t.hits) <= 9000
    /\ IsValidHighScore(Fastest(t.hits))

\* What Validate lets through is sound: three attempts, each in range.
LEMMA ValidateLeaves ==
    ASSUME NEW t, Timed(t), Validate(t) = "accepted"
    PROVE  \E n : Sound(t, n)
<1>1. PICK n \in Nat : t.hits \in [1 .. n -> Int] /\ t.misfires \in Int
  BY DEF Timed
<1> DEFINE h == t.hits
           S == {h[i] : i \in DOMAIN h}
<1>2. Len(h) = n /\ DOMAIN h = 1 .. n
  BY <1>1
<1>3. /\ n # 0 /\ n + t.misfires = 3 /\ t.misfires >= 0
      /\ \A i \in 1 .. n : Ms(100) <= h[i] /\ h[i] <= Ms(3000)
      /\ IsValidHighScore(Fastest(h))
  BY <1>1, <1>2 DEF Validate, TrialAttempts, Ms
<1>4. n \in 1 .. 3
  BY <1>1, <1>3
<1>5. \A i \in 1 .. n : h[i] \in Int /\ h[i] <= 9000
  BY <1>1, <1>3 DEF Ms
<1>6. PICK a \in 1 .. n, b \in 1 .. n, c \in 1 .. n : S = {h[a], h[b], h[c]}
  <2>1. CASE n = 1
    <3>1. S = {h[1], h[1], h[1]}
      BY <1>2, <2>1
    <3> QED BY <2>1, <3>1
  <2>2. CASE n = 2
    <3>1. S = {h[1], h[2], h[2]}
      BY <1>2, <2>2
    <3> QED BY <2>2, <3>1
  <2>3. CASE n = 3
    <3>1. S = {h[1], h[2], h[3]}
      BY <1>2, <2>3
    <3> QED BY <2>3, <3>1
  <2>4. n = 1 \/ n = 2 \/ n = 3
    BY <1>4
  <2> HIDE DEF S, h
  <2> QED BY <2>1, <2>2, <2>3, <2>4
<1>7. /\ \E x \in S : \A y \in S : x <= y
      /\ \E x \in S : \A y \in S : x >= y
      /\ \A x \in S : x \in Int /\ x <= 9000
  <2>1. /\ h[a] \in Int /\ h[b] \in Int /\ h[c] \in Int
        /\ h[a] <= 9000 /\ h[b] <= 9000 /\ h[c] <= 9000
    BY <1>5
  <2> HIDE DEF S
  <2> QED BY <1>6, <2>1
<1>8. /\ Fastest(h) \in S /\ \A y \in S : Fastest(h) <= y
      /\ Slowest(h) \in S /\ \A y \in S : Slowest(h) >= y
  BY <1>7 DEF Fastest, Slowest, Min, Max
<1>9. 500 <= Fastest(h)
  BY <1>3 DEF IsValidHighScore, Frame
<1>10. /\ Fastest(h) \in Int /\ Slowest(h) \in Int
       /\ Fastest(h) <= Slowest(h) /\ Slowest(h) <= 9000
  <2> HIDE DEF S, h
  <2> QED BY <1>7, <1>8, <1>9
<1> QED BY <1>1, <1>2, <1>3, <1>4, <1>9, <1>10 DEF Sound

\* The parts of the score, and what they add up to.
LEMMA ScoreParts ==
    ASSUME NEW t, NEW n, Sound(t, n)
    PROVE  /\ ScoreTrial(t.hits, t.misfires) \in Int
           /\ Between(ScoreTrial(t.hits, t.misfires), 0, 2500)
           /\ ScoreTrial(t.hits, t.misfires) >= 2200 => Flawless(t.hits, t.misfires)
<1> DEFINE h == t.hits
           tripled == Max({0, 3 * 1000 - 4 * (Fastest(h) - Ms(100))})
<1>1. n \in 1 .. 3 /\ Len(h) = n /\ Len(h) + t.misfires = 3 /\ Fastest(h) \in Int
      /\ 500 <= Fastest(h)
  BY DEF Sound
<1>2. tripled \in Nat /\ tripled <= 2200
  <2>1. 3 * 1000 - 4 * (Fastest(h) - Ms(100)) \in Int
        /\ 3 * 1000 - 4 * (Fastest(h) - Ms(100)) <= 2200
    BY <1>1 DEF Ms
  <2> QED BY <2>1, TheLarger
<1>3. Base(h, Len(h) + t.misfires) \in Nat /\ Base(h, Len(h) + t.misfires) <= 733
  <2>1. Base(h, Len(h) + t.misfires) = (tripled * n) \div 9
    <3>1. Len(h) + t.misfires = 3
      BY <1>1
    <3> QED BY <1>1, <3>1 DEF Base
  <2> HIDE DEF tripled
  <2>2. tripled * n \in Nat /\ tripled * n <= 6600
    <3>1. n = 1 \/ n = 2 \/ n = 3
      BY <1>1
    <3> QED BY <1>2, <3>1
  <2>3. \A p \in Nat : p <= 6600 => p \div 9 \in Nat /\ p \div 9 <= 733
    OBVIOUS
  <2> QED BY <2>1, <2>2, <2>3
<1>4. ConsistBonus(h) \in Nat /\ ConsistBonus(h) <= 100
  BY DEF ConsistBonus
<1>5. Subs(h) \in Nat /\ Subs(h) <= 3
  <2> DEFINE quick == {i \in DOMAIN h : h[i] < 13 * Frame}
  <2>1. DOMAIN h = 1 .. n
    BY DEF Sound
  <2>2. IsFiniteSet(1 .. n) /\ Cardinality(1 .. n) = n
    <3>1. \A m \in Nat : IsFiniteSet(1 .. m) /\ Cardinality(1 .. m) = m
      BY FS_Interval
    <3>2. n \in Nat
      BY <1>1
    <3> QED BY <3>1, <3>2
  <2>3. quick \subseteq 1 .. n
    BY <2>1
  <2>4. IsFiniteSet(quick) /\ Cardinality(quick) <= n
    BY <2>2, <2>3, FS_Subset
  <2>5. Cardinality(quick) \in Nat
    BY <2>4, FS_CardinalityType
  <2> QED BY <1>1, <2>4, <2>5 DEF Subs
<1> DEFINE clean == IF /\ Accurate(h, Len(h) + t.misfires)
                       /\ Len(h) + t.misfires >= TrialAttempts
                    THEN 150 ELSE 0
           extra == IF Flawless(h, t.misfires) THEN 500 ELSE 0
<1>6. ScoreTrial(h, t.misfires)
        = Base(h, Len(h) + t.misfires) + clean + ConsistBonus(h) + 250 * Subs(h) + extra
  BY DEF ScoreTrial
<1>7. clean \in {0, 150} /\ extra \in {0, 500} /\ (extra # 0 => Flawless(h, t.misfires))
  OBVIOUS
<1> HIDE DEF clean, extra, h
<1>8. /\ ScoreTrial(h, t.misfires) \in Int
      /\ Between(ScoreTrial(h, t.misfires), 0, 2500)
      /\ ScoreTrial(h, t.misfires) >= 2200 => extra # 0
  BY <1>3, <1>4, <1>5, <1>6, <1>7 DEF Between
<1> QED BY <1>7, <1>8 DEF h

\* A set of numbers has a least one.
LEMMA LeastNumber ==
    ASSUME NEW S, S \subseteq Nat, S # {}
    PROVE  \E a \in S : \A b \in S : a <= b
<1> DEFINE Less == {w \in Nat \X Nat : w[1] < w[2]}
<1>1. OpToRel(<, Nat) = Less
  BY Zenon DEF OpToRel
<1>2. PICK a \in S : \A b \in S : <<b, a>> \notin Less
  BY <1>1, NatLessThanWellFounded, WFMin
<1>3. \A b \in S : a \in Nat /\ b \in Nat /\ ~(b < a)
  BY <1>2
<1> QED BY <1>3

\* A score earns one of ten grades, the tenth only from 2200 on.
LEMMA GradeForScore ==
    ASSUME NEW score \in Int
    PROVE  /\ GradeFor(score) \in 1 .. 10
           /\ GradeFor(score) = 10 => score >= 2200
<1> DEFINE S == {1} \cup {g \in 2 .. 10 : score >= GradeFrom[g]}
           T == {10 - g : g \in S}
<1>1. T \subseteq Nat /\ T # {}
  OBVIOUS
<1>2. PICK a \in T : \A b \in T : a <= b
  <2> HIDE DEF T
  <2> QED BY <1>1, LeastNumber
<1>5. PICK g \in S : a = 10 - g
  BY <1>2
<1>6. \A k \in S : g >= k
  <2> TAKE k \in S
  <2>1. 10 - k \in T /\ k \in 1 .. 10 /\ g \in 1 .. 10
    OBVIOUS
  <2> HIDE DEF T, S
  <2>2. 10 - g <= 10 - k
    BY <1>2, <1>5, <2>1
  <2> QED BY <2>1, <2>2
<1>7. GradeFor(score) \in S
  BY <1>6 DEF GradeFor, Max
<1>8. GradeFrom[10] = 2200
  BY DEF GradeFrom
<1> QED BY <1>7, <1>8

\* A valid time has a tier, the sixth at least at 13 frames or less.
LEMMA TierOfFast ==
    ASSUME NEW ms \in Int, IsValidHighScore(ms)
    PROVE  /\ Tier(ms) \in Nat \ {0}
           /\ ms <= 13 * Frame => Tier(ms) >= 6
<1> DEFINE above == {i \in DOMAIN TierBelow : ms < TierBelow[i]}
<1>1. DOMAIN TierBelow = 1 .. 8
  BY DEF TierBelow
<1>2. IsFiniteSet(above) /\ Cardinality(above) \in Nat
  <2>1. \A n \in Nat : IsFiniteSet(1 .. n)
    BY FS_Interval
  <2>2. PICK n \in Nat : n = 8
    OBVIOUS
  <2>3. above \subseteq 1 .. n /\ IsFiniteSet(1 .. n)
    BY <1>1, <2>1, <2>2
  <2> QED BY <2>3, FS_Subset, FS_CardinalityType
<1>3. Tier(ms) = 1 + Cardinality(above)
  BY DEF Tier
<1>4. ASSUME ms <= 13 * Frame
      PROVE  Cardinality(above) >= 5
  <2>1. /\ TierBelow[1] = 1250 /\ TierBelow[2] = 1025 /\ TierBelow[3] = 900
        /\ TierBelow[4] = 800 /\ TierBelow[5] = 725
    BY DEF TierBelow
  <2>2. \A i \in 1 .. 5 : i = 1 \/ i = 2 \/ i = 3 \/ i = 4 \/ i = 5
    OBVIOUS
  <2>3. \A i \in 1 .. 5 : i \in 1 .. 8 /\ ms < TierBelow[i]
    BY <1>4, <2>1, <2>2 DEF Frame
  <2>4. 1 .. 5 \subseteq above
    BY <1>1, <2>3
  <2>5. PICK n \in Nat : n = 5
    OBVIOUS
  <2>6. IsFiniteSet(1 .. n) /\ Cardinality(1 .. n) = n /\ 1 .. n \subseteq above
    <3>1. \A m \in Nat : IsFiniteSet(1 .. m) /\ Cardinality(1 .. m) = m
      BY FS_Interval
    <3>2. IsFiniteSet(1 .. n) /\ Cardinality(1 .. n) = n
      BY <3>1
    <3>3. 1 .. n \subseteq above
      BY <2>4, <2>5
    <3> QED BY <3>2, <3>3
  <2>7. Cardinality(1 .. n) <= Cardinality(above)
    BY <1>2, <2>6, FS_Subset
  <2> HIDE DEF above
  <2> QED BY <1>2, <2>5, <2>6, <2>7
<1> HIDE DEF above
<1> QED BY <1>2, <1>3, <1>4

\* A body as it arrives, in what the checks compute with.
Numeric(a) ==
    \/ a.mode = "endless" /\ a.score \in Int
    \/ /\ a.mode = "arcade"
       /\ a.total \in Int /\ a.enemies \in Int /\ a.elapsed \in Int
       /\ a.perfect \in Int /\ a.hits \in Int

Submitted == /\ trial # NoCase => Timed(trial)
             /\ claim # NoCase => Numeric(claim)

\* Every step leaves an accepted body storable and a grade earned.
LEMMA SubmittedStep == Submitted /\ [ScoringNext]_scoringVars => Submitted'
<1> SUFFICES ASSUME Submitted, [ScoringNext]_scoringVars PROVE Submitted'
  OBVIOUS
<1>1. CASE ClaimTrial
  <2>1. PICK n \in 0 .. MaxHits, misfires \in Misfires : \E hits \in [1 .. n -> Samples] :
            trial' = [hits |-> hits, misfires |-> misfires]
    BY <1>1 DEF ClaimTrial
  <2>2. PICK hits \in [1 .. n -> Samples] :
            trial' = [hits |-> hits, misfires |-> misfires]
    BY <2>1
  <2>3. n \in Nat /\ trial'.hits \in [1 .. n -> Int] /\ trial'.misfires \in Int
    BY <2>2, SamplesAssumption
  <2>4. Timed(trial')
    BY <2>3 DEF Timed
  <2>5. claim' = claim
    BY <1>1 DEF ClaimTrial
  <2> QED BY <2>4, <2>5 DEF Submitted
<1>2. CASE ClaimEndless
  <2>1. claim'.mode = "endless" /\ claim'.score \in Int /\ trial' = trial
    BY <1>2, SMT DEF ClaimEndless
  <2> QED BY <2>1 DEF Submitted, Numeric
<1>3. CASE ClaimArcade
  <2>1. /\ claim'.mode = "arcade"
        /\ claim'.total \in Int /\ claim'.enemies \in Int /\ claim'.elapsed \in Int
        /\ claim'.perfect \in Int /\ claim'.hits \in Int
        /\ trial' = trial
    BY <1>3, ClaimsAssumption, SMT DEF ClaimArcade
  <2> QED BY <2>1 DEF Submitted, Numeric
<1>4. CASE UNCHANGED <<trial, claim>>
  BY <1>4 DEF Submitted
<1> QED BY <1>1, <1>2, <1>3, <1>4 DEF ScoringNext, FinishRun, scoringVars

\* No bonus is negative, and neither is what a body is worth.
LEMMA PointsAreWorth ==
    ASSUME NEW a, a.enemies \in Nat, a.perfect \in Nat, a.hits \in Nat, a.elapsed \in Int
    PROVE  Points(a) \in Nat
<1>1. Consistency(a) \in Nat
  BY DEF Consistency
<1>2. Speed(a) \in Nat
  <2>1. 300 - a.elapsed \div 1000 \in Int
    OBVIOUS
  <2>2. Max({0, 300 - a.elapsed \div 1000}) \in Nat
    BY <2>1, TheLarger
  <2> QED BY <2>2 DEF Speed
<1> QED BY <1>1, <1>2 DEF Points

\* Accepted bodies of every kind fit their tables.
LEMMA BodiesStorable ==
    ASSUME NEW a, Numeric(a), ValidateDrill(a)
    PROVE  IF a.mode = "arcade" THEN ArcadeStorable(a) ELSE EndlessStorable(a)
<1>1. CASE a.mode = "arcade"
  <2>1. /\ a.drill # "mental-stack" /\ ValidateArcade(a)
        /\ a.total \in Int /\ a.enemies \in Int /\ a.elapsed \in Int
        /\ a.perfect \in Int /\ a.hits \in Int
    BY <1>1, SMT DEF ValidateDrill, Numeric
  <2>2. /\ a.total \in Roster(a.drill)
        /\ a.enemies \in 0 .. a.total
        /\ a.completed <=> a.enemies = a.total
        /\ a.elapsed > 0 /\ a.elapsed <= 86400000
        /\ a.perfect \in 0 .. a.enemies
        /\ a.hits >= a.enemies /\ a.hits <= 1000000
        /\ Points(a) <= 1000000
    BY <2>1, SMT DEF ValidateArcade
  <2>3. Points(a) \in Nat
    BY <2>1, <2>2, PointsAreWorth
  <2> QED BY <1>1, <2>1, <2>2, <2>3, SMT DEF ArcadeStorable, Roster, Between
<1>2. CASE a.mode # "arcade"
  BY <1>2, SMT DEF ValidateDrill, EndlessStorable
<1> QED BY <1>1, <1>2

\* The server's checks (Validate, validateArcade, validate) are at least as
\* strict as the tables' (migrations 004 and 013), whatever is submitted.
THEOREM AcceptedIsStorableHolds == ScoringSpec => []AcceptedIsStorable
<1>1. ScoringInit => Submitted
  BY DEF ScoringInit, Submitted
<1>2. Submitted => AcceptedIsStorable
  <2> SUFFICES ASSUME Submitted PROVE AcceptedIsStorable
    OBVIOUS
  <2>1. ASSUME trial # NoCase, Validate(trial) = "accepted"
        PROVE  TrialStorable(trial)
    <3>1. PICK n : Sound(trial, n)
      BY <2>1, ValidateLeaves DEF Submitted
    <3>2. Fastest(trial.hits) \in Int
          /\ 500 <= Fastest(trial.hits) /\ Fastest(trial.hits) <= 9000
      <4>1. /\ Fastest(trial.hits) \in Int /\ Slowest(trial.hits) \in Int
            /\ 500 <= Fastest(trial.hits) /\ Slowest(trial.hits) <= 9000
            /\ Fastest(trial.hits) <= Slowest(trial.hits)
        BY <3>1 DEF Sound
      <4> QED BY <4>1
    <3>3. Between(ScoreTrial(trial.hits, trial.misfires), 0, 2500)
      BY <3>1, ScoreParts
    <3>4. /\ AccuracyFits(trial.hits, Len(trial.hits) + trial.misfires)
          /\ trial.misfires >= 0
      <4>1. n \in 1 .. 3 /\ Len(trial.hits) = n /\ trial.misfires \in Nat
        BY <3>1 DEF Sound
      <4> QED BY <4>1 DEF AccuracyFits, Between
    <3> QED BY <3>2, <3>3, <3>4, SMT DEF TrialStorable
  <2> QED BY <2>1, BodiesStorable DEF Submitted, AcceptedIsStorable
<1> QED BY <1>1, <1>2, SubmittedStep, PTL DEF ScoringSpec

\* Whatever the times, a top grade means that every attempt was within 13 frames
\* and SS a flawless trial, as the sums of score.go happen to ensure, and the
\* time of an accepted trial has a tier.
THEOREM GradesEarnedHolds == ScoringSpec => []GradesEarned
<1>1. ScoringInit => Submitted
  BY DEF ScoringInit, Submitted
<1>2. Submitted => GradesEarned
  <2> SUFFICES ASSUME Submitted, trial # NoCase, Validate(trial) = "accepted"
               PROVE  LET g == Grade(trial.hits, trial.misfires)
                      IN  /\ g >= 8 => /\ Slowest(trial.hits) <= 13 * Frame
                                       /\ Tier(Fastest(trial.hits)) >= 6
                          /\ g = 10 => Flawless(trial.hits, trial.misfires)
                          /\ Tier(Fastest(trial.hits)) > 0
    BY DEF GradesEarned
  <2>1. PICK n : Sound(trial, n)
    BY ValidateLeaves DEF Submitted
  <2> DEFINE fast  == Fastest(trial.hits)
             slow  == Slowest(trial.hits)
             score == ScoreTrial(trial.hits, trial.misfires)
  <2>2. /\ fast \in Int /\ slow \in Int /\ fast <= slow /\ IsValidHighScore(fast)
    BY <2>1 DEF Sound
  <2>3. score \in Int /\ (score >= 2200 => Flawless(trial.hits, trial.misfires))
    BY <2>1, ScoreParts
  <2>4. Cap(slow) \in 1 .. 10 /\ (Cap(slow) >= 8 => slow <= 13 * Frame)
    BY <2>2 DEF Cap, Frame
  <2>5. GradeFor(score) \in 1 .. 10 /\ (GradeFor(score) = 10 => score >= 2200)
    BY <2>3, GradeForScore
  <2>6. Grade(trial.hits, trial.misfires)
          = IF GradeFor(score) <= Cap(slow) THEN GradeFor(score) ELSE Cap(slow)
    BY <2>4, <2>5, TheSmaller DEF Grade, CapGrade
  <2>7. Tier(fast) \in Nat \ {0} /\ (fast <= 13 * Frame => Tier(fast) >= 6)
    BY <2>2, TierOfFast
  <2> HIDE DEF fast, slow, score
  <2>8. slow <= 13 * Frame => fast <= 13 * Frame
    BY <2>2 DEF Frame
  <2>9. /\ Grade(trial.hits, trial.misfires) >= 8 => slow <= 13 * Frame
        /\ Grade(trial.hits, trial.misfires) = 10 => score >= 2200
    BY <2>4, <2>5, <2>6
  <2> QED BY <2>3, <2>7, <2>8, <2>9 DEF fast, slow
<1> QED BY <1>1, <1>2, SubmittedStep, PTL DEF ScoringSpec

\* Submissions and the row kept of finished runs keep their shape.
THEOREM ScoringTypeCorrect == ScoringSpec => []ScoringTypeOK
<1>1. ScoringInit => ScoringTypeOK
  <2>1. <<>> \in Seq(Runs) /\ Len(<<>>) = 0
    OBVIOUS
  <2> QED BY <2>1, MaxRunsAssumption DEF ScoringInit, ScoringTypeOK
<1>2. ScoringTypeOK /\ [ScoringNext]_scoringVars => ScoringTypeOK'
  <2> SUFFICES ASSUME ScoringTypeOK, [ScoringNext]_scoringVars PROVE ScoringTypeOK'
    OBVIOUS
  <2>1. CASE ClaimTrial
    <3>1. PICK n \in 0 .. MaxHits, misfires \in Misfires : \E hits \in [1 .. n -> Samples] :
              trial' = [hits |-> hits, misfires |-> misfires]
      BY <2>1 DEF ClaimTrial
    <3>2. PICK hits \in [1 .. n -> Samples] :
              trial' = [hits |-> hits, misfires |-> misfires]
      BY <3>1
    <3>3. hits \in Seq(Samples)
      <4>1. n \in Nat
        OBVIOUS
      <4> QED BY <4>1
    <3>4. trial'.hits \in Seq(Samples) /\ trial'.misfires \in Misfires
      BY <3>2, <3>3
    <3>5. UNCHANGED <<claim, best, finished>>
      BY <2>1 DEF ClaimTrial
    <3> QED BY <3>4, <3>5 DEF ScoringTypeOK
  <2>2. CASE ClaimEndless
    <3>1. claim'.mode = "endless" /\ claim'.drill \in DrillKinds
      BY <2>2, SMT DEF ClaimEndless
    <3>2. UNCHANGED <<trial, best, finished>>
      BY <2>2 DEF ClaimEndless
    <3> QED BY <3>1, <3>2 DEF ScoringTypeOK
  <2>3. CASE ClaimArcade
    <3>1. claim'.mode = "arcade" /\ claim'.drill \in DrillKinds
      BY <2>3, SMT DEF ClaimArcade
    <3>2. UNCHANGED <<trial, best, finished>>
      BY <2>3, SMT DEF ClaimArcade
    <3> QED BY <3>1, <3>2 DEF ScoringTypeOK
  <2>4. ASSUME NEW r \in Runs, FinishRun(r) PROVE ScoringTypeOK'
    <3>1. finished \in Seq(Runs) /\ Len(finished) < MaxRuns /\ finished' = Append(finished, r)
      BY <2>4 DEF FinishRun, ScoringTypeOK
    <3>2. finished' \in Seq(Runs) /\ Len(finished') <= MaxRuns
      BY <3>1, MaxRunsAssumption
    <3>3. best' \in Runs \cup {NoCase} /\ UNCHANGED <<trial, claim>>
      BY <2>4 DEF FinishRun, ScoringTypeOK
    <3> QED BY <3>2, <3>3 DEF ScoringTypeOK
  <2>5. CASE UNCHANGED scoringVars
    BY <2>5 DEF scoringVars, ScoringTypeOK
  <2> QED BY <2>1, <2>2, <2>3, <2>4, <2>5 DEF ScoringNext
<1> QED BY <1>1, <1>2, PTL DEF ScoringSpec

============================================================================
