---------------------------- MODULE RateLimiter ----------------------------
(***************************************************************************)
(* ratelimit.Limiter: a fixed-window counter per key, kept in memory, with *)
(* a sweep that forgets closed windows.  A caller reads the clock before   *)
(* it takes the lock, so the counters are handed clocks older than some    *)
(* they have already seen.                                                 *)
(*                                                                         *)
(* Every handler that writes asks limiters of its own, per player and per  *)
(* client address, each holding its own lock and map; the module is one    *)
(* of them.                                                                *)
(***************************************************************************)
EXTENDS Integers, FiniteSets

CONSTANTS
    Callers,       \* requests asking at once
    Keys,          \* players or client addresses
    EventLimit,    \* events per key in one window (10 or 60)
    WindowLen,     \* length of a window, in ticks (a minute; a day to register)
    Second,        \* ticks per second: Retry-After is in whole seconds
    Stall,         \* ticks a caller may wait between its clock and the lock
    MaxTime        \* bound: last tick of the clock

ASSUME EventsAssumption == EventLimit \in Nat \ {0}
ASSUME TimesAssumption == /\ WindowLen \in Nat /\ Second \in Nat \ {0}
                          /\ Stall \in Nat /\ MaxTime \in Nat
ASSUME StallAssumption == 2 * Stall < WindowLen

VARIABLES
    time,       \* the clock
    buckets,    \* the window each tracked key last opened
    sweptAt,    \* the clock of the caller that last swept
    calls,      \* what each caller is doing
    granted     \* events admitted during the last WindowLen ticks (history)

limiterVars == <<time, buckets, sweptAt, calls, granted>>

-----------------------------------------------------------------------------
(* A caller that was refused stays away until it was told to; over is the    *)
(* end of the window that refused it (history).                              *)

Idle       == [doing |-> "idle"]
Asking     == [doing : {"asking"}, key : Keys, now : Nat]
TurnedAway == [doing : {"limited"}, until : Nat, over : Nat]

BucketRow == [key : Keys, start : Int, n : 1..EventLimit]

\* Whether a bucket's window is over for a caller that read the clock at now.
Over(b, now) == now >= b.start + WindowLen

\* At most once per window length, the buckets whose window is over go.
Due(now) == now - sweptAt >= WindowLen

Swept(now) == IF Due(now) THEN {b \in buckets : ~Over(b, now)} ELSE buckets

SweptAt(now) == IF Due(now) THEN now ELSE sweptAt

\* The window key k has open for a caller at now, if any, after the sweep.
Open(k, now) == {b \in Swept(now) : b.key = k /\ ~Over(b, now)}

\* The buckets after one admitted event of key k.
Bumped_OnCopy(k, now) ==
    IF Open(k, now) # {} THEN Swept(now)
    ELSE Swept(now) \cup {[key |-> k, start |-> now, n |-> 1]}
Bumped(k, now) ==
    {b \in Swept(now) : b.key # k} \cup
        (IF Open(k, now) = {} THEN {[key |-> k, start |-> now, n |-> 1]}
         ELSE {[b EXCEPT !.n = @ + 1] : b \in Open(k, now)})

\* WriteRateLimited: whole seconds, rounded up; here in ticks.  The window is
\* still open, so what is left of it rounds to a second at least.
RetryAfter_Down(left) == Second * (left \div Second)
RetryAfter(left)      == Second * ((left + Second - 1) \div Second)

-----------------------------------------------------------------------------
(* Actions.                                                                  *)

LimiterInit ==
    /\ time = 0
    /\ buckets = {}
    /\ sweptAt = -WindowLen     \* the zero time.Time: long ago
    /\ calls = [c \in Callers |-> Idle]
    /\ granted = {}

\* now := l.now(), before the lock.
ReadClock(c, k) ==
    /\ calls[c] = Idle
    /\ calls' = [calls EXCEPT ![c] =
                    [doing |-> "asking", key |-> k, now |-> time]]
    /\ UNCHANGED <<time, buckets, sweptAt, granted>>

\* Under the lock: the event is within the limit.
Admit(c) ==
    /\ calls[c].doing = "asking"
    /\ LET k   == calls[c].key
           now == calls[c].now
       IN  /\ \A b \in Open(k, now) : b.n < EventLimit
           /\ buckets' = Bumped(k, now)
           /\ sweptAt' = SweptAt(now)
           /\ granted' = granted \cup
                  {[key |-> k, at |-> time,
                    nth |-> Cardinality({g \in granted : g.key = k /\ g.at = time})]}
    /\ calls' = [calls EXCEPT ![c] = Idle]
    /\ UNCHANGED time

\* Under the lock: 429 with how long until the window opens again.
Refuse(c) ==
    /\ calls[c].doing = "asking"
    /\ LET now == calls[c].now
       IN  /\ buckets' = Swept(now)
           /\ sweptAt' = SweptAt(now)
           /\ \E b \in Open(calls[c].key, now) :
                /\ b.n >= EventLimit
                /\ calls' = [calls EXCEPT ![c] =
                     [doing |-> "limited",
                      until |-> time + RetryAfter(b.start + WindowLen - now),
                      over  |-> b.start + WindowLen]]
    /\ UNCHANGED <<time, granted>>

\* A refused caller has waited as long as it was told.
ComeBack(c) ==
    /\ calls[c].doing = "limited"
    /\ time >= calls[c].until
    /\ calls' = [calls EXCEPT ![c] = Idle]
    /\ UNCHANGED <<time, buckets, sweptAt, granted>>

\* A restart forgets the counts and every call.  The clock dates nothing but
\* them, so it starts again too.
Forget ==
    /\ time' = 0
    /\ buckets' = {}
    /\ sweptAt' = -WindowLen
    /\ calls' = [c \in Callers |-> Idle]
    /\ granted' = {}

\* Time passes, but no caller waits for the lock longer than Stall.
Pass ==
    /\ time < MaxTime
    /\ \A c \in Callers :
           calls[c].doing = "asking" => time < calls[c].now + Stall
    /\ time' = time + 1
    /\ granted' = {g \in granted : g.at > time + 1 - WindowLen}
    /\ UNCHANGED <<buckets, sweptAt, calls>>

LimiterNext ==
    \/ \E c \in Callers :
          \/ \E k \in Keys : ReadClock(c, k)
          \/ Admit(c) \/ Refuse(c) \/ ComeBack(c)
    \/ Forget
    \/ Pass

LimiterSpec == LimiterInit /\ [][LimiterNext]_limiterVars

-----------------------------------------------------------------------------
(* Properties.                                                               *)

\* Every variable keeps its shape; no window counts beyond the limit.
LimiterTypeOK ==
    /\ time \in Nat
    /\ buckets \subseteq BucketRow
    /\ sweptAt \in Int
    /\ calls \in [Callers -> Asking \cup TurnedAway \cup {Idle}]
    /\ granted \subseteq [key : Keys, at : Nat, nth : Nat]

\* "At most limit events per key in any one window": windows are fixed, so two
\* can meet inside any span as long as a window, and a call stalled between
\* clock and lock can bring the tail of a third; never more than that, whatever
\* the sweep removes in between.
SpanBound ==
    \A k \in Keys :
        Cardinality({g \in granted : g.key = k})
            <= IF Stall = 0 THEN 2 * EventLimit ELSE 3 * EventLimit - 1

\* Retry-After is true and not padded: when a refused caller has waited, the
\* window that refused it is over, and for less than a second, give or take the
\* stall.
AdviceHolds ==
    \A c \in Callers :
        calls[c].doing = "limited" =>
            /\ calls[c].over <= calls[c].until
            /\ calls[c].until < calls[c].over + Second + Stall

\* Idle keys do not accumulate: whatever is tracked was opened less than a
\* window before the last sweep, every clock asked about is less than a window
\* after it, and a key is tracked once.
NoIdleHoard ==
    /\ \A b \in buckets : /\ b.start > sweptAt - WindowLen
                          /\ b.start < sweptAt + WindowLen
    /\ \A b, d \in buckets : b.key = d.key => b = d
=============================================================================
