----------------------------- MODULE Throttler -----------------------------
(***************************************************************************)
(* Rate limiting: GodeyeThrottlerGuard over RedisThrottlerStorage, with    *)
(* the per-process counters it falls back to.  A bucket is one counter of  *)
(* one store; its window starts with its first hit.                        *)
(***************************************************************************)
EXTENDS Integers, Sequences, FiniteSets

CONSTANTS
    Callers, Routes, Replicas,
    Patient,        \* callers who wait as long as Retry-After says
    Tasks,          \* requests being served at the same time
    Tiers,          \* the throttlers of AppModule in order
    TierLimit,      \* their limits
    TierTtl,        \* their windows
    Cost,           \* @Cost of a route, 0 where it declares none
    MaxHits,        \* bound: counters stop there
    Outages         \* whether Redis may stop answering

VARIABLES
    hits,       \* counter of each store and bucket
    left,       \* what is left of its window
    answers,    \* Redis answers
    task,       \* requests in the guard
    wait,       \* Retry-After each patient caller was given, counting down
    granted,    \* ghost: weight each store let a caller spend in the running window
    passed      \* ghost: the patient caller's last finished request was let through

vars == <<hits, left, answers, task, wait, granted, passed>>

Stores == {"redis"} \cup Replicas
Idle == [caller |-> "none", route |-> "none", at |-> "none", tier |-> 0]

\* generateKey: only the default tier carries the route
KeyWithRoute(n, c, r) == <<n, c, r>>
Key(n, c, r) == IF n = "default" THEN <<n, c, r>> ELSE <<n, c, "every">>
Buckets == {"default", "burst", "spend"} \X Callers \X (Routes \cup {"every"})

Init ==
    /\ hits = [s \in Stores |-> [b \in Buckets |-> 0]]
    /\ left = [s \in Stores |-> [b \in Buckets |-> 0]]
    /\ answers = TRUE
    /\ task = [t \in Tasks |-> Idle]
    /\ wait = [c \in Callers |-> 0]
    /\ granted = [s \in Stores |-> [c \in Callers |-> 0]]
    /\ passed = [c \in Callers |-> TRUE]

Weight(r) == IF Cost[r] = 0 THEN 1 ELSE Cost[r]
Capped(n) == IF n > MaxHits THEN MaxHits ELSE n

\* the Redis script sets the expiry with the first hit and renews it when a hit is
\* refused (blockDuration is the tier's ttl); bump knows only the first
WindowAfter(s, n, h, cost, before) ==
    IF h <= cost \/ (s = "redis" /\ h > TierLimit[n]) THEN TierTtl[n] ELSE before

Told(before, after) == after

-----------------------------------------------------------------------------
(* One request *)

\* nothing but the caller makes a caller wait
Enter(t, c, r, p) ==
    /\ task[t] = Idle
    /\ c \in Patient => wait[c] = 0
    /\ task' = [task EXCEPT ![t] = [caller |-> c, route |-> r, at |-> p, tier |-> 1]]
    /\ UNCHANGED <<hits, left, answers, wait, granted, passed>>

NextTier(x) == IF x.tier = Len(Tiers) THEN Idle ELSE [x EXCEPT !.tier = @ + 1]

\* the spend tier skips a route that declares no cost
Skip(t) ==
    LET x == task[t]
    IN  /\ x.tier # 0 /\ Tiers[x.tier] = "spend" /\ Cost[x.route] = 0
        /\ task' = [task EXCEPT ![t] = NextTier(x)]
        /\ passed' = [passed EXCEPT ![x.caller] = @ \/ x.tier = Len(Tiers)]
        /\ UNCHANGED <<hits, left, answers, wait, granted>>

\* handleRequest over incrementBy, or over onStorageFailure when Redis does not answer
Handle(t) ==
    LET x == task[t]
        n == Tiers[x.tier]
        s == IF answers THEN "redis" ELSE x.at
        b == Key(n, x.caller, x.route)
        cost == Weight(x.route)
        h == Capped(hits[s][b] + cost)
        window == WindowAfter(s, n, h, cost, left[s][b])
        blocked == h > TierLimit[n]
    IN  /\ x.tier # 0 /\ ~(n = "spend" /\ Cost[x.route] = 0)
        /\ hits' = [hits EXCEPT ![s][b] = h]
        /\ left' = [left EXCEPT ![s][b] = window]
        /\ task' = [task EXCEPT ![t] = IF blocked THEN Idle ELSE NextTier(x)]
        /\ wait' = [wait EXCEPT ![x.caller] =
                      IF blocked /\ x.caller \in Patient THEN Told(left[s][b], window) ELSE @]
        /\ granted' = [granted EXCEPT ![s][x.caller] =
                         @ + IF n = "spend" /\ ~blocked THEN cost ELSE 0]
        /\ passed' = [passed EXCEPT ![x.caller] =
                         (blocked => x.caller \notin Patient) /\ (@ \/ x.tier = Len(Tiers))]
        /\ UNCHANGED answers

\* windows run out; a store's spending starts anew when the caller's is over
Tick ==
    /\ left' = [s \in Stores |-> [b \in Buckets |-> IF left[s][b] = 0 THEN 0 ELSE left[s][b] - 1]]
    /\ hits' = [s \in Stores |-> [b \in Buckets |-> IF left[s][b] <= 1 THEN 0 ELSE hits[s][b]]]
    /\ granted' = [s \in Stores |-> [c \in Callers |->
                     IF \A b \in Buckets : b[1] = "spend" /\ b[2] = c => left[s][b] <= 1
                     THEN 0 ELSE granted[s][c]]]
    /\ wait' = [c \in Callers |-> IF wait[c] = 0 THEN 0 ELSE wait[c] - 1]
    /\ UNCHANGED <<answers, task, passed>>

Outage ==
    /\ Outages
    /\ answers' = ~answers
    /\ UNCHANGED <<hits, left, task, wait, granted, passed>>

Arrive == \E t \in Tasks, c \in Callers, r \in Routes, p \in Replicas : Enter(t, c, r, p)
Serve == \E t \in Tasks : Skip(t) \/ Handle(t)
Next == Arrive \/ Serve \/ Tick \/ Outage

Fair == WF_vars(Arrive) /\ WF_vars(Serve) /\ WF_vars(Tick)
Spec == Init /\ [][Next]_vars /\ Fair

-----------------------------------------------------------------------------
\* In one window a store lets a caller spend no more than the budget, however the
\* calls are spread over routes and replicas and however they overlap (Cost).
SpendWithinBudget ==
    \A s \in Stores, c \in Callers : granted[s][c] <= TierLimit["spend"]

\* A caller who waits as long as Retry-After says is served again, one request at
\* a time and with Redis answering (the script's renewal of a refused window).
WaitingIsEnough == \A c \in Patient : ~passed[c] ~> passed[c]

=============================================================================
