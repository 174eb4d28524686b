-------------------------- MODULE RateLimiterProofs --------------------------
(***************************************************************************)
(* Proofs about RateLimiter, for any limit, window and resolution of the   *)
(* clock and any number of replicas: a client that was refused finds a new *)
(* window when it comes back a second after the time it was told, and no   *)
(* minute lets in more than two limits' worth of requests.                 *)
(***************************************************************************)
EXTENDS RateLimiter, TLAPS

(* What holds of every store: without a window nothing is counted and       *)
(* nobody waits, and the window ends no later than a client was told.       *)
StoreOK(s) ==
    /\ left[s] = 0 => count[s] = 0 /\ owed[s] = NotOwed
    /\ owed[s] # NotOwed => left[s] <= owed[s]

(* The requests f that a store has let in, when n is left of a window in     *)
(* which c were counted: since the window began, at most those it counted;  *)
(* before that and within a window's length, at most the limit, because     *)
(* only one window can have ended in that time.  Without a window nobody    *)
(* has come since the last tick.                                            *)
LetIn(f, n, c) ==
    /\ \A i, j \in 1 .. Span : i <= j => f[i] <= f[j]
    /\ n = 0 => f[1] = 0 /\ f[Span] <= Limit
    /\ n > 0 => /\ f[Span - n + 1] <= c
                /\ f[Span - n + 1] <= Limit
                /\ f[Span] <= f[Span - n + 1] + Limit

WindowOK(s) == LetIn(recent[s], left[s], count[s])

Inv == TypeOK /\ \A s \in Stores : StoreOK(s) /\ WindowOK(s)

USE LimitAssumption, TimeAssumption

(* Rounding down to whole seconds loses less than a second *)
LEMMA WholeSeconds ==
    ASSUME NEW time \in Nat, NEW ticks \in Nat \ {0}
    PROVE  /\ time \div ticks \in Nat
           /\ time < (time \div ticks + 1) * ticks
           /\ (time \div ticks) * ticks <= time
  OBVIOUS

LEMMA SpanIsPositive == Span \in Nat \ {0} /\ Ticks <= Span
BY DEF Span

(* A product is monotone in its first factor *)
LEMMA Monotone ==
    ASSUME NEW m \in Nat, NEW n \in Nat, NEW k \in Nat, m <= n
    PROVE  m * k <= n * k
  OBVIOUS

(* Whichever limiter answers, a second after the time it tells is after the *)
(* end of the window, and at most a second after a whole one.               *)
LEMMA ToldLongEnough ==
    ASSUME NEW time \in 1 .. Span
    PROVE  /\ (RetryAfter(time) + 1) * Ticks \in Nat
           /\ time <= (RetryAfter(time) + 1) * Ticks
           /\ (RetryAfter(time) + 1) * Ticks < NotOwed
<1> DEFINE shown == IF limiter = "redis" THEN time + (Ticks \div 2) ELSE time
           whole == shown \div Ticks
<1>1. shown \in Nat /\ time <= shown /\ shown < Span + Ticks
    BY SpanIsPositive
<1>2. /\ whole \in Nat
      /\ shown < (whole + 1) * Ticks
      /\ whole * Ticks <= shown
    BY <1>1, WholeSeconds
<1> HIDE DEF shown
<1>3. whole <= Window
    <2> SUFFICES ASSUME whole >= Window + 1 PROVE FALSE
        BY <1>2
    <2>1. (Window + 1) * Ticks <= whole * Ticks
        BY <1>2, Monotone
    <2> QED
        BY <1>1, <1>2, <2>1, SpanIsPositive DEF Span
<1>4. RetryAfter(time) = (IF whole > 1 THEN whole ELSE 1)
    BY <1>1, <1>2 DEF RetryAfter, Larger, shown
<1> HIDE DEF whole
<1>5. RetryAfter(time) \in Nat /\ whole <= RetryAfter(time) /\ RetryAfter(time) <= Window
    BY <1>2, <1>3, <1>4
<1>6. (whole + 1) * Ticks <= (RetryAfter(time) + 1) * Ticks
    BY <1>2, <1>5, Monotone
<1>7. (RetryAfter(time) + 1) * Ticks <= (Window + 1) * Ticks
    BY <1>5, Monotone
<1> QED
    BY <1>1, <1>2, <1>5, <1>6, <1>7, SpanIsPositive DEF Span, NotOwed

LEMMA InitInv == Init => Inv
BY SpanIsPositive DEF Init, Inv, TypeOK, StoreOK, WindowOK, LetIn, NotOwed

(* A request that is let in counts in its window *)
LEMMA LetInWindow ==
    ASSUME NEW f \in [1 .. Span -> Nat], NEW n \in 0 .. Span, NEW c \in Nat,
           LetIn(f, n, c),
           NEW m, m = (IF n = 0 THEN Span ELSE n),
           NEW d \in Nat, d <= Limit, d = (IF n = 0 THEN 1 ELSE c + 1),
           NEW g, \A i \in 1 .. Span : g[i] = f[i] + 1
    PROVE  LetIn(g, m, d)
<1> DEFINE b == Span - m + 1
<1>1. Span \in Nat \ {0} /\ Limit \in Nat /\ m \in 1 .. Span /\ b \in 1 .. Span
    BY SpanIsPositive
<1>2. \A i \in 1 .. Span : f[i] \in Nat /\ g[i] = f[i] + 1
    OBVIOUS
<1>3. \A i, j \in 1 .. Span : i <= j => g[i] <= g[j]
    BY <1>2 DEF LetIn
<1>4. g[b] <= d /\ f[Span] <= f[b] + Limit
    <2>1. CASE n = 0
        <3>1. b = 1 /\ f[1] = 0 /\ f[Span] <= Limit /\ d = 1
            BY <1>1, <2>1 DEF LetIn
        <3>2. g[b] = 1 /\ f[b] = 0
            BY <1>1, <1>2, <3>1
        <3> QED
            BY <1>1, <3>1, <3>2
    <2>2. CASE n # 0
        <3>1. f[b] <= c /\ f[Span] <= f[b] + Limit /\ d = c + 1
            BY <1>1, <2>2 DEF LetIn
        <3>2. f[b] \in Nat /\ g[b] = f[b] + 1
            BY <1>1, <1>2
        <3> HIDE DEF b
        <3> QED
            BY <3>1, <3>2
    <2> QED
        BY <2>1, <2>2
<1>5. g[b] <= Limit /\ g[Span] <= g[b] + Limit
    <2>1. /\ f[b] \in Nat /\ f[Span] \in Nat
          /\ g[b] = f[b] + 1 /\ g[Span] = f[Span] + 1
        BY <1>1, <1>2
    <2> QED
        BY <1>1, <1>4, <2>1
<1> QED
    BY <1>1, <1>3, <1>4, <1>5 DEF LetIn

(* One that is refused changes the count alone, which only grows *)
LEMMA RefusedWindow ==
    ASSUME NEW f \in [1 .. Span -> Nat], NEW n \in 1 .. Span, NEW c \in Nat,
           LetIn(f, n, c), NEW d \in Nat, c <= d
    PROVE  LetIn(f, n, d)
<1>1. Span \in Nat \ {0} /\ Span - n + 1 \in 1 .. Span
    BY SpanIsPositive
<1>2. f[Span - n + 1] \in Nat
    BY <1>1
<1> QED
    BY <1>1, <1>2 DEF LetIn

(* The clock moves every request that was let in one tick back *)
LEMMA TickWindow ==
    ASSUME NEW f \in [1 .. Span -> Nat], NEW n \in 0 .. Span, NEW c \in Nat,
           LetIn(f, n, c),
           NEW m, m = (IF n = 0 THEN 0 ELSE n - 1),
           NEW d, n > 1 => d = c,
           NEW g, g[1] = 0, \A i \in 2 .. Span : g[i] = f[i - 1]
    PROVE  LetIn(g, m, d)
<1>1. Span \in Nat \ {0} /\ Limit \in Nat /\ 1 \in 1 .. Span /\ Span \in 1 .. Span
    BY SpanIsPositive
<1>2. /\ g[1] = 0
      /\ \A i \in 2 .. Span : i - 1 \in 1 .. Span /\ g[i] = f[i - 1]
      /\ \A i \in 1 .. Span : f[i] \in Nat /\ g[i] \in Nat
    BY <1>1
<1>3. \A i, j \in 1 .. Span : i <= j => f[i] <= f[j]
    BY DEF LetIn
<1>4. ASSUME NEW i \in 1 .. Span, NEW j \in 1 .. Span, i <= j
      PROVE  g[i] <= g[j]
    <2>1. CASE i = 1
        BY <1>2, <2>1
    <2>2. CASE i # 1
        <3>1. /\ i \in 2 .. Span /\ j \in 2 .. Span
              /\ i - 1 \in 1 .. Span /\ j - 1 \in 1 .. Span /\ i - 1 <= j - 1
            BY <1>1, <1>4, <2>2
        <3>2. f[i - 1] <= f[j - 1]
            BY <1>3, <3>1
        <3> QED
            BY <1>2, <3>1, <3>2
    <2> QED
        BY <2>1, <2>2
<1>5. g[Span] <= f[Span]
    <2>1. CASE Span = 1
        BY <1>1, <1>2, <2>1
    <2>2. CASE Span # 1
        <3>1. Span \in 2 .. Span /\ Span - 1 \in 1 .. Span /\ Span - 1 <= Span
            BY <1>1, <2>2
        <3>2. f[Span - 1] <= f[Span]
            BY <1>1, <1>3, <3>1
        <3> QED
            BY <1>2, <3>1, <3>2
    <2> QED
        BY <2>1, <2>2
<1>6. g[Span] \in Nat /\ f[Span] \in Nat
    BY <1>1, <1>2
<1>7. CASE n = 0
    <2>1. m = 0 /\ f[Span] <= Limit
        BY <1>7 DEF LetIn
    <2>2. g[Span] <= Limit
        BY <1>1, <1>5, <1>6, <2>1
    <2> QED
        BY <1>2, <1>4, <2>1, <2>2 DEF LetIn
<1>8. CASE n = 1
    <2>1. m = 0 /\ f[Span] <= Limit
        BY <1>1, <1>8 DEF LetIn
    <2>2. g[Span] <= Limit
        BY <1>1, <1>5, <1>6, <2>1
    <2> QED
        BY <1>2, <1>4, <2>1, <2>2 DEF LetIn
<1>9. CASE n > 1
    <2> DEFINE b == Span - n + 1
    <2>1. /\ b \in 1 .. Span /\ b + 1 \in 2 .. Span /\ (b + 1) - 1 = b
          /\ m = n - 1 /\ m > 0 /\ Span - m + 1 = b + 1 /\ d = c
        BY <1>1, <1>9
    <2>2. f[b] <= c /\ f[b] <= Limit /\ f[Span] <= f[b] + Limit
        BY <1>1, <1>9 DEF LetIn
    <2> HIDE DEF b
    <2>3. g[b + 1] = f[b] /\ f[b] \in Nat
        BY <1>2, <2>1
    <2>4. g[Span] <= f[b] + Limit
        BY <1>1, <1>5, <1>6, <2>2, <2>3
    <2> QED
        BY <1>4, <2>1, <2>2, <2>3, <2>4 DEF LetIn
<1> QED
    BY <1>7, <1>8, <1>9

(* What the invariant says of one store *)
LEMMA OneStore ==
    ASSUME Inv, NEW z \in Stores
    PROVE  /\ count[z] \in 0 .. (Limit + 1) /\ left[z] \in 0 .. Span
           /\ owed[z] \in 0 .. NotOwed /\ recent[z] \in [1 .. Span -> Nat]
           /\ StoreOK(z) /\ LetIn(recent[z], left[z], count[z])
BY DEF Inv, TypeOK, WindowOK

(* A request changes one store *)
LEMMA RequestInv ==
    ASSUME Inv, NEW r \in Replicas, Request(r)
    PROVE  Inv'
<1> DEFINE s == StoreOf(r)
           told == (RetryAfter(Expiry(s)) + 1) * Ticks
<1>1. /\ s \in Stores /\ Span \in Nat \ {0} /\ Limit \in Nat \ {0}
      /\ NotOwed \in Nat
    BY SpanIsPositive DEF StoreOf, Stores, NotOwed
<1>2. /\ count[s] \in 0 .. (Limit + 1) /\ left[s] \in 0 .. Span
      /\ owed[s] \in 0 .. NotOwed /\ recent[s] \in [1 .. Span -> Nat]
      /\ StoreOK(s) /\ LetIn(recent[s], left[s], count[s])
    BY <1>1, OneStore
<1>3. Expiry(s) \in 1 .. Span /\ Counted(s) \in 1 .. (Limit + 1)
    BY <1>1, <1>2 DEF Expiry, Counted, Smaller
<1>4. told \in Nat /\ Expiry(s) <= told /\ told < NotOwed
    BY <1>3, ToldLongEnough
<1>5. \/ /\ Counted(s) <= Limit /\ owed' = owed
         /\ recent' = [recent EXCEPT ![s] = [i \in 1 .. Span |-> @[i] + 1]]
      \/ /\ Counted(s) > Limit /\ recent' = recent
         /\ owed' = [owed EXCEPT ![s] = Smaller(@, told)]
    BY DEF Request
<1>6. /\ count' = [count EXCEPT ![s] = Counted(s)]
      /\ left' = [left EXCEPT ![s] = Expiry(s)]
      /\ limiter' = limiter
    BY DEF Request
<1> HIDE DEF s, told
<1>7. TypeOK'
    <2>1. limiter' \in {"memory", "redis"} /\ count' \in [Stores -> 0 .. (Limit + 1)]
        BY <1>1, <1>3, <1>6 DEF Inv, TypeOK
    <2>2. left' \in [Stores -> 0 .. Span]
        BY <1>1, <1>3, <1>6 DEF Inv, TypeOK
    <2>3. Smaller(owed[s], told) \in 0 .. NotOwed
        BY <1>1, <1>2, <1>4 DEF Smaller
    <2>4. owed' \in [Stores -> 0 .. NotOwed]
        BY <1>1, <1>5, <2>3 DEF Inv, TypeOK
    <2>5. [i \in 1 .. Span |-> recent[s][i] + 1] \in [1 .. Span -> Nat]
        <3>1. ASSUME NEW i \in 1 .. Span PROVE recent[s][i] + 1 \in Nat
            <4>1. recent[s] \in [1 .. Span -> Nat]
                BY <1>2
            <4>2. recent[s][i] \in Nat
                BY <4>1
            <4> QED
                BY <4>2
        <3> QED
            BY <3>1
    <2>6. recent' \in [Stores -> [1 .. Span -> Nat]]
        BY <1>1, <1>5, <2>5 DEF Inv, TypeOK
    <2> QED
        BY <2>1, <2>2, <2>4, <2>6 DEF TypeOK, Stores, Span, NotOwed
<1>8. ASSUME NEW z \in Stores, z # s PROVE StoreOK(z)' /\ WindowOK(z)'
    <2>1. /\ count'[z] = count[z] /\ left'[z] = left[z]
          /\ owed'[z] = owed[z] /\ recent'[z] = recent[z]
        BY <1>1, <1>5, <1>6, <1>8 DEF Inv, TypeOK
    <2> QED
        BY <2>1, OneStore DEF StoreOK, WindowOK, LetIn, NotOwed, Span
<1>9. ASSUME NEW z \in Stores, z = s PROVE StoreOK(z)' /\ WindowOK(z)'
    <2>1. count'[z] = Counted(z) /\ left'[z] = Expiry(z) /\ Expiry(z) # 0
        BY <1>1, <1>3, <1>6, <1>9 DEF Inv, TypeOK
    <2>2. CASE Counted(s) <= Limit /\ owed' = owed
                 /\ recent' = [recent EXCEPT ![s] = [i \in 1 .. Span |-> @[i] + 1]]
        <3>1. \A i \in 1 .. Span : recent'[z][i] = recent[z][i] + 1
            BY <1>1, <1>9, <2>2 DEF Inv, TypeOK
        <3>2. Counted(z) = (IF left[z] = 0 THEN 1 ELSE count[z] + 1)
            BY <1>1, <1>2, <1>9, <2>2 DEF Counted, Smaller
        <3>3. Expiry(z) = (IF left[z] = 0 THEN Span ELSE left[z])
            BY DEF Expiry
        <3>4. Counted(z) \in Nat /\ Counted(z) <= Limit /\ count[z] \in Nat
            BY <1>1, <1>2, <1>3, <1>9, <2>2
        <3>5. LetIn(recent'[z], left'[z], count'[z])
            <4>1. /\ recent[z] \in [1 .. Span -> Nat] /\ left[z] \in 0 .. Span
                  /\ LetIn(recent[z], left[z], count[z])
                BY <1>2, <1>9
            <4>2. LetIn(recent'[z], Expiry(z), Counted(z))
                BY <3>1, <3>2, <3>3, <3>4, <4>1, LetInWindow
            <4> QED
                BY <2>1, <4>2
        <3>6. owed'[z] # NotOwed => left'[z] <= owed'[z]
            BY <1>1, <1>2, <1>9, <2>1, <2>2, <3>3 DEF StoreOK
        <3> QED
            BY <2>1, <3>5, <3>6 DEF StoreOK, WindowOK, LetIn, NotOwed, Span
    <2>3. CASE Counted(s) > Limit /\ recent' = recent
                 /\ owed' = [owed EXCEPT ![s] = Smaller(@, told)]
        <3>1. left[z] # 0 /\ Expiry(z) = left[z]
            BY <1>1, <1>3, <1>9, <2>3 DEF Counted, Expiry
        <3>2. owed'[z] = Smaller(owed[z], told)
            BY <1>1, <1>9, <2>3 DEF Inv, TypeOK
        <3>3. owed'[z] # NotOwed => left'[z] <= owed'[z]
            BY <1>1, <1>2, <1>4, <1>9, <2>1, <3>1, <3>2 DEF Smaller, StoreOK
        <3>4. Counted(z) \in Nat /\ count[z] <= Counted(z) /\ count[z] \in Nat
            BY <1>1, <1>2, <1>3, <1>9, <3>1 DEF Counted, Smaller
        <3>5. left[z] \in 1 .. Span
            BY <1>1, <1>2, <1>9, <3>1
        <3>6. LetIn(recent[z], left[z], Counted(z))
            BY <1>2, <1>9, <3>4, <3>5, RefusedWindow
        <3> QED
            BY <2>1, <2>3, <3>1, <3>3, <3>6
            DEF StoreOK, WindowOK, LetIn, NotOwed, Span
    <2> QED
        BY <1>5, <2>2, <2>3
<1> QED
    BY <1>7, <1>8, <1>9 DEF Inv, Stores

LEMMA TickInv == Inv /\ Tick => Inv'
<1> SUFFICES ASSUME Inv, Tick PROVE Inv'
    OBVIOUS
<1>1. Span \in Nat \ {0} /\ Limit \in Nat \ {0} /\ NotOwed \in Nat /\ Span < NotOwed
    BY SpanIsPositive DEF NotOwed
<1>2. ASSUME NEW z \in Stores
      PROVE  /\ left'[z] \in 0 .. Span /\ count'[z] \in 0 .. (Limit + 1)
             /\ owed'[z] \in 0 .. NotOwed
             /\ recent'[z] \in [1 .. Span -> Nat]
             /\ StoreOK(z)' /\ WindowOK(z)'
    <2>1. /\ count[z] \in 0 .. (Limit + 1) /\ left[z] \in 0 .. Span
          /\ owed[z] \in 0 .. NotOwed /\ recent[z] \in [1 .. Span -> Nat]
          /\ StoreOK(z) /\ LetIn(recent[z], left[z], count[z])
        BY OneStore
    <2>2. /\ left'[z] = (IF left[z] = 0 THEN 0 ELSE left[z] - 1)
          /\ count'[z] = (IF left[z] <= 1 THEN 0 ELSE count[z])
        BY DEF Tick
    <2>3. /\ owed'[z] = (IF owed[z] = NotOwed \/ left[z] <= 1 THEN NotOwed
                         ELSE Larger(owed[z], 1) - 1)
          /\ recent'[z] = [i \in 1 .. Span |->
                               IF i = 1 THEN 0 ELSE recent[z][i - 1]]
        BY DEF Tick
    <2>4. left'[z] \in 0 .. Span /\ count'[z] \in 0 .. (Limit + 1)
        BY <1>1, <2>1, <2>2
    <2>5. owed'[z] \in 0 .. NotOwed
        BY <1>1, <2>1, <2>3 DEF Larger
    <2>6. \A i \in 2 .. Span : i - 1 \in 1 .. Span /\ recent'[z][i] = recent[z][i - 1]
        BY <1>1, <2>3
    <2>7. recent'[z][1] = 0 /\ recent'[z] \in [1 .. Span -> Nat]
        <3>1. \A i \in 1 .. Span :
                 (IF i = 1 THEN 0 ELSE recent[z][i - 1]) \in Nat
            <4> SUFFICES ASSUME NEW i \in 1 .. Span, i # 1
                         PROVE  recent[z][i - 1] \in Nat
                OBVIOUS
            <4>1. i - 1 \in 1 .. Span
                BY <1>1
            <4> QED
                BY <2>1, <4>1
        <3> QED
            BY <1>1, <2>3, <3>1
    <2>8. owed'[z] # NotOwed => left'[z] <= owed'[z]
        BY <1>1, <2>1, <2>2, <2>3 DEF StoreOK, Larger
    <2>9. left'[z] = 0 => count'[z] = 0 /\ owed'[z] = NotOwed
        BY <1>1, <2>1, <2>2, <2>3 DEF StoreOK
    <2>10. left[z] > 1 => count'[z] = count[z]
        BY <1>1, <2>1, <2>2
    <2>11. count[z] \in Nat
        BY <1>1, <2>1
    <2>12. LetIn(recent'[z], left'[z], count'[z])
        BY <2>1, <2>2, <2>6, <2>7, <2>10, <2>11, TickWindow
    <2> QED
        BY <2>4, <2>5, <2>7, <2>8, <2>9, <2>12
        DEF StoreOK, WindowOK, LetIn, NotOwed, Span
<1>3. TypeOK'
    BY <1>2 DEF Tick, Inv, TypeOK, Stores, Span, NotOwed
<1> QED
    BY <1>2, <1>3 DEF Inv, Stores

LEMMA StepInv == Inv /\ [Next]_vars => Inv'
<1>1. ASSUME Inv, NEW r \in Replicas, Restart(r) PROVE Inv'
    <2>1. TypeOK'
        BY <1>1, SpanIsPositive DEF Inv, TypeOK, Restart, Stores, NotOwed
    <2>2. ASSUME NEW s \in Stores PROVE StoreOK(s)'
        BY <1>1, <2>2, SpanIsPositive
        DEF Inv, TypeOK, StoreOK, Restart, Stores, NotOwed
    <2>3. ASSUME NEW s \in Stores PROVE WindowOK(s)'
        <3>1. CASE s = r
            <4>1. left'[s] = 0 /\ \A i \in 1 .. Span : recent'[s][i] = 0
                BY <1>1, <3>1 DEF Inv, TypeOK, Restart
            <4> QED
                BY <4>1, SpanIsPositive DEF WindowOK, LetIn, Span
        <3>2. CASE s # r
            <4>1. /\ left'[s] = left[s] /\ count'[s] = count[s]
                  /\ recent'[s] = recent[s]
                BY <1>1, <3>2 DEF Inv, TypeOK, Restart
            <4> QED
                BY <1>1, <4>1 DEF Inv, WindowOK, LetIn
        <3> QED
            BY <3>1, <3>2
    <2> QED
        BY <2>1, <2>2, <2>3 DEF Inv, Stores
<1>2. ASSUME Inv, UNCHANGED vars PROVE Inv'
    <2>1. TypeOK' /\ \A s \in Stores : StoreOK(s)'
        BY <1>2 DEF Inv, TypeOK, StoreOK, vars, Stores, NotOwed
    <2>2. \A s \in Stores : WindowOK(s)'
        BY <1>2 DEF Inv, WindowOK, LetIn, vars
    <2> QED
        BY <2>1, <2>2 DEF Inv, Stores
<1> QED
    BY <1>1, <1>2, RequestInv, TickInv DEF Next

THEOREM Invariance == Spec => []Inv
BY InitInv, StepInv, PTL DEF Spec

(* The variables stay in their types, the count at most one above the limit. *)
THEOREM TypeCorrect == Spec => []TypeOK
BY Invariance, PTL DEF Inv

(* A client that comes back a second after the time it was told finds a new *)
(* window, whichever limiter answers.                                       *)
THEOREM ComingBackHelps == Spec => []RetryAfterHolds
<1>1. Inv => RetryAfterHolds
    BY DEF Inv, StoreOK, RetryAfterHolds
<1> QED
    BY <1>1, Invariance, PTL

(* In no time of the length of a window are more than two limits' worth of  *)
(* requests let in by a process, or by all of them together through Redis.  *)
THEOREM TwoWindowsAtMost == Spec => []BurstIsBounded
<1>1. Inv => BurstIsBounded
    <2> SUFFICES ASSUME Inv, NEW s \in Stores
                 PROVE  recent[s][Span] <= 2 * Limit
        BY DEF BurstIsBounded
    <2> DEFINE b == Span - left[s] + 1
    <2>1. /\ left[s] \in 0 .. Span /\ recent[s] \in [1 .. Span -> Nat]
          /\ Span \in Nat \ {0} /\ Limit \in Nat
          /\ LetIn(recent[s], left[s], count[s])
        BY SpanIsPositive DEF Inv, TypeOK, WindowOK
    <2>2. recent[s][Span] \in Nat
        BY <2>1
    <2>3. CASE left[s] = 0
        BY <2>1, <2>2, <2>3 DEF LetIn
    <2>4. CASE left[s] > 0
        <3>1. b \in 1 .. Span
            BY <2>1, <2>4
        <3>2. recent[s][b] <= Limit /\ recent[s][Span] <= recent[s][b] + Limit
            BY <2>1, <2>4 DEF LetIn
        <3>3. recent[s][b] \in Nat
            BY <2>1, <3>1
        <3> HIDE DEF b
        <3> QED
            BY <2>1, <2>2, <3>2, <3>3
    <2> QED
        BY <2>1, <2>3, <2>4
<1> QED
    BY <1>1, Invariance, PTL
=============================================================================
