------------------------------ MODULE Upstream ------------------------------
(***************************************************************************)
(* The API's outgoing requests (common/http-client.ts): a deadline, a      *)
(* circuit breaker per upstream, retries; the engine client built on it,   *)
(* and the readiness probe that asks the engine through the same breaker   *)
(* and remembers the verdict for a while (health.controller.ts).           *)
(*                                                                         *)
(* Time is a number of ticks; every age is counted up to the last value    *)
(* the code can tell apart. An upstream that is up answers within the      *)
(* budget; one that is not refuses, answers 5xx or does not answer.        *)
(***************************************************************************)
EXTENDS Integers

CONSTANTS
    Tasks,          \* requests being served at the same time
    Probes,         \* those of them that ask for readiness
    Retries,        \* retries a request that is not a probe may make
    Threshold,      \* FAILURE_THRESHOLD
    OpenFor,        \* OPEN_MS
    Budget,         \* timeoutMs
    CacheFor        \* READY_CACHE_MS

Closed == -1        \* openedAt is null

VARIABLES
    up,             \* the upstream answers
    failures,       \* failures in a row, counted up to Threshold
    opened,         \* how long the breaker has been open, or Closed
    task,           \* the requests
    ready,          \* readyCache: its verdict and its age; none is an expired one
    told            \* the last readiness verdict given

vars == <<up, failures, opened, task, ready, told>>

Idle == [at |-> "idle", attempt |-> 0, age |-> 0]

Init ==
    /\ up = TRUE /\ failures = 0 /\ opened = Closed
    /\ task = [t \in Tasks |-> Idle]
    /\ ready = [age |-> CacheFor, ok |-> FALSE] /\ told = "nothing"

RecordFailure ==
    /\ failures' = IF failures < Threshold THEN failures + 1 ELSE failures
    /\ opened' = IF failures' >= Threshold /\ opened = Closed THEN 0 ELSE opened

\* the engine's client asks for no retries
Attempts(t) == IF t \in Probes THEN 0 ELSE Retries

\* The request ends. A probe's verdict is remembered as of when it was asked for.
Ends(t, ok) ==
    /\ task' = [task EXCEPT ![t] = Idle]
    /\ IF t \in Probes
       THEN /\ told' = IF ok THEN "ok" ELSE "degraded"
            /\ ready' = [age |-> IF task[t].age < CacheFor THEN task[t].age ELSE CacheFor,
                         ok |-> ok]
       ELSE UNCHANGED <<told, ready>>

Remembered(t) == t \in Probes /\ ready.age < CacheFor

FromCache(t) ==
    /\ task[t].at = "idle" /\ Remembered(t)
    /\ told' = IF ready.ok THEN "ok" ELSE "degraded"
    /\ UNCHANGED <<up, failures, opened, task, ready>>

RefusalRenewsIt == 0

\* what a refusal leaves the breaker's time at
OpenedAfterRefusal == opened

\* An open breaker refuses; one that has been open long enough is closed by
\* the request that finds it so, and that request is sent.
Send(t) ==
    /\ task[t].at = "idle" /\ ~Remembered(t)
    /\ IF opened # Closed /\ opened < OpenFor
       THEN Ends(t, FALSE) /\ opened' = OpenedAfterRefusal
       ELSE /\ opened' = Closed
            /\ task' = [task EXCEPT ![t].at = "sent"]
            /\ UNCHANGED <<told, ready>>
    /\ UNCHANGED <<up, failures>>

\* A success empties the count; a breaker that is open meanwhile stays open.
Succeed(t) ==
    /\ task[t].at = "sent" /\ up
    /\ failures' = 0
    /\ Ends(t, TRUE)
    /\ UNCHANGED <<up, opened>>

\* No connection, a 5xx, or no answer until the deadline: a request with
\* retries left is sent again without asking the breaker.
TryAgain(t) ==
    /\ task[t].at = "sent" /\ ~up /\ task[t].attempt < Attempts(t)
    /\ task' = [task EXCEPT ![t] = [Idle EXCEPT !.at = "sent", !.attempt = task[t].attempt + 1]]
    /\ UNCHANGED <<up, failures, opened, ready, told>>

GiveUp(t) ==
    /\ task[t].at = "sent" /\ ~up /\ task[t].attempt = Attempts(t)
    /\ RecordFailure /\ Ends(t, FALSE)
    /\ UNCHANGED up

Fall == up /\ up' = FALSE /\ UNCHANGED <<failures, opened, task, ready, told>>
Rise == ~up /\ up' = TRUE /\ UNCHANGED <<failures, opened, task, ready, told>>

Older(n, most) == IF n < most THEN n + 1 ELSE n

\* Time passes; a deadline that is reached is acted on first.
Tick ==
    /\ \A t \in Tasks : task[t].at = "sent" => task[t].age < Budget
    /\ opened' = IF opened = Closed THEN Closed ELSE Older(opened, OpenFor)
    /\ task' = [t \in Tasks |-> IF task[t].at = "idle" THEN task[t]
                                ELSE [task[t] EXCEPT !.age = @ + 1]]
    /\ ready' = [ready EXCEPT !.age = Older(@, CacheFor)]
    /\ UNCHANGED <<up, failures, told>>

Come(t) == Succeed(t) \/ TryAgain(t) \/ GiveUp(t)

Next ==
    \/ Fall \/ Rise \/ Tick
    \/ \E t \in Tasks : FromCache(t) \/ Send(t) \/ Come(t)

Spec ==
    /\ Init /\ [][Next]_vars
    /\ WF_vars(Tick)
    /\ \A t \in Tasks : WF_vars(Send(t)) /\ WF_vars(Come(t))

TypeOK ==
    /\ up \in BOOLEAN /\ failures \in 0..Threshold
    /\ opened \in (0..OpenFor) \cup {Closed}
    /\ task \in [Tasks -> [at : {"idle", "sent"}, attempt : 0..Retries, age : 0..Budget]]
    /\ ready \in [age : 0..CacheFor, ok : BOOLEAN]
    /\ told \in {"nothing", "ok", "degraded"}

\* An upstream that is back for good is found to be back: neither the requests
\* the open breaker refuses, nor those still failing from before, nor the
\* probe's memory of the outage keep the instance out of rotation
\* (http-client.ts:91-99, 139-142; health.controller.ts:78-95).
RecoversOnItsOwn == <>[]up => <>[](told = "ok" /\ opened = Closed)
=============================================================================
