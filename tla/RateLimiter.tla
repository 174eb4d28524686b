----------------------------- MODULE RateLimiter -----------------------------
(***************************************************************************)
(* The fixed-window rate limits of one client: the middleware asks either  *)
(* a dictionary of its own process or the Redis that all replicas share.   *)
(*                                                                         *)
(* The middleware calls consume without awaiting and the script runs in    *)
(* Redis as a whole, so a request is one step.  Requests that are not      *)
(* counted (OPTIONS, health, metrics and documentation paths, a disabled   *)
(* limiter) and those that fail because Redis does not answer change       *)
(* nothing.  Time is kept in timers, in parts of a second, because both    *)
(* limiters tell the client whole seconds.                                 *)
(***************************************************************************)
EXTENDS Naturals

CONSTANTS
    Replicas,    \* processes of the API
    Limit,       \* RATE_LIMIT_REQUESTS_PER_MINUTE
    Window,      \* window_seconds
    Ticks        \* steps of the clock in a second

ASSUME LimitAssumption == Limit \in Nat \ {0}
ASSUME TimeAssumption == Window \in Nat \ {0} /\ Ticks \in Nat \ {0}
ASSUME ReplicasAssumption == "redis" \notin Replicas

VARIABLES
    limiter,     \* which limiter create_app has chosen
    count,       \* requests counted in the window, up to one above the limit
    left,        \* time until the window expires, 0 when there is none
    owed,        \* time until the client may come back, as it was first told
    recent       \* history: requests let in during the last 1, 2, ... ticks

vars == <<limiter, count, left, owed, recent>>

-----------------------------------------------------------------------------
Stores == Replicas \cup {"redis"}
Span == Window * Ticks
NotOwed == Span + Ticks + 1

(* Where a replica keeps the window of the client *)
StoreOf(r) == IF limiter = "redis" THEN "redis" ELSE r

Smaller(a, b) == IF a < b THEN a ELSE b
Larger(a, b) == IF a > b THEN a ELSE b

(* Whole seconds: int() cuts the remainder off, TTL rounds it *)
RetryAfter(time) ==
    Larger(1, IF limiter = "redis" THEN (time + (Ticks \div 2)) \div Ticks
              ELSE time \div Ticks)

Init ==
    /\ limiter \in {"memory", "redis"}
    /\ count = [s \in Stores |-> 0]
    /\ left = [s \in Stores |-> 0]
    /\ owed = [s \in Stores |-> NotOwed]
    /\ recent = [s \in Stores |-> [i \in 1 .. Span |-> 0]]

(* Mistake: the expiry is set anew with each request *)
ExpiryAlways(s) == Span

(* A new window starts when there is none: INCR made the key, or the expiry *)
(* of the tuple has been reached                                            *)
Expiry(s) == IF left[s] = 0 THEN Span ELSE left[s]

Counted(s) == IF left[s] = 0 THEN 1 ELSE Smaller(count[s] + 1, Limit + 1)

(* The answer of a request at replica r: it is let in, or gets 429 and is   *)
(* told to come back after RetryAfter seconds.  owed is one second later.   *)
Request(r) ==
    LET s == StoreOf(r)
    IN  /\ count' = [count EXCEPT ![s] = Counted(s)]
        /\ left' = [left EXCEPT ![s] = Expiry(s)]
        /\ \/ /\ Counted(s) <= Limit
              /\ recent' = [recent EXCEPT ![s] = [i \in 1 .. Span |-> @[i] + 1]]
              /\ UNCHANGED owed
           \/ /\ Counted(s) > Limit
              /\ owed' = [owed EXCEPT ![s] =
                     Smaller(@, (RetryAfter(Expiry(s)) + 1) * Ticks)]
              /\ UNCHANGED recent
        /\ UNCHANGED limiter

(* Mistake: the windows of Redis are lost with a replica *)
RestartForAll(r) ==
    /\ count' = [s \in Stores |-> 0]
    /\ left' = [s \in Stores |-> 0]
    /\ owed' = [s \in Stores |-> NotOwed]
    /\ recent' = [recent EXCEPT ![r] = [i \in 1 .. Span |-> 0]]
    /\ UNCHANGED limiter

(* A replica is replaced: what its process remembers starts again *)
Restart(r) ==
    /\ count' = [count EXCEPT ![r] = 0]
    /\ left' = [left EXCEPT ![r] = 0]
    /\ owed' = [owed EXCEPT ![r] = NotOwed]
    /\ recent' = [recent EXCEPT ![r] = [i \in 1 .. Span |-> 0]]
    /\ UNCHANGED limiter

Tick ==
    /\ left' = [s \in Stores |-> IF left[s] = 0 THEN 0 ELSE left[s] - 1]
    /\ count' = [s \in Stores |-> IF left[s] <= 1 THEN 0 ELSE count[s]]
    /\ owed' = [s \in Stores |-> IF owed[s] = NotOwed \/ left[s] <= 1 THEN NotOwed
                                 ELSE Larger(owed[s], 1) - 1]
    /\ recent' = [s \in Stores |-> [i \in 1 .. Span |->
                     IF i = 1 THEN 0 ELSE recent[s][i - 1]]]
    /\ UNCHANGED limiter

Next == \/ \E r \in Replicas : Request(r) \/ Restart(r)
        \/ Tick

Spec == Init /\ [][Next]_vars

-----------------------------------------------------------------------------
(* Properties *)

TypeOK ==
    /\ limiter \in {"memory", "redis"}
    /\ count \in [Stores -> 0 .. (Limit + 1)]
    /\ left \in [Stores -> 0 .. Span]
    /\ owed \in [Stores -> 0 .. NotOwed]
    /\ recent \in [Stores -> [1 .. Span -> Nat]]

(* Wherever a minute begins, at most two limits' worth of requests are let  *)
(* in during it: by Redis from all replicas together and whatever replicas  *)
(* restart, by a process that remembers for itself during its life.         *)
BurstIsBounded == \A s \in Stores : recent[s][Span] <= 2 * Limit

(* A client that waits a second longer than it was told finds a new window, *)
(* however many others with the same address keep asking meanwhile.         *)
RetryAfterHolds == \A s \in Stores : owed[s] # NotOwed => left[s] <= owed[s]
=============================================================================
