----------------------------- MODULE LeaderLock -----------------------------
(***************************************************************************)
(* leader-lock.ts: SET key token NX PX, the job, compare-and-delete.  Used *)
(* by the billing sweep and by the reconciliation.  Redis is external.     *)
(***************************************************************************)
EXTENDS Integers, FiniteSets

CONSTANTS
    Replicas,
    Ttl,        \* the lock's time to live, in ticks
    MaxRuns,    \* bound: tokens ever drawn
    MaxTime     \* bound: the clock

LeaderLockAssumption == {Ttl, MaxRuns, MaxTime} \subseteq Nat \ {0}

VARIABLES
    now,
    up,         \* whether Redis answers
    key,        \* the key: its token and its expiry; token 0 when there is none
    run,        \* per replica: where it is, its token, when it acquired
    draws       \* tokens drawn: randomUUID never repeats

vars == <<now, up, key, run, draws>>

NoKey == [token |-> 0, until |-> 0]
Off == [pc |-> "off", token |-> 0, at |-> 0]

Init ==
    /\ now = 0 /\ up = TRUE /\ key = NoKey /\ draws = 0
    /\ run = [r \in Replicas |-> Off]

Held == key.token # 0 /\ now < key.until

\* the timer fires: SET NX PX; an unreachable Redis or a held key skips the job
Fire(r) ==
    /\ run[r] = Off /\ draws < MaxRuns
    /\ draws' = draws + 1
    /\ IF up /\ ~Held
       THEN /\ key' = [token |-> draws + 1, until |-> now + Ttl]
            /\ run' = [run EXCEPT ![r] = [pc |-> "job", token |-> draws + 1, at |-> now]]
       ELSE UNCHANGED <<key, run>>
    /\ UNCHANGED <<now, up>>

\* the job ends or throws; the finally comes either way
Finish(r) ==
    /\ run[r].pc = "job"
    /\ run' = [run EXCEPT ![r].pc = "release"]
    /\ UNCHANGED <<now, up, key, draws>>

DeletesAny(r) == up
Deletes(r) == up /\ key.token = run[r].token

Release(r) ==
    /\ run[r].pc = "release"
    /\ key' = IF Deletes(r) THEN NoKey ELSE key
    /\ run' = [run EXCEPT ![r] = Off]
    /\ UNCHANGED <<now, up, draws>>

\* killed mid-job: the key stays until it expires
Die(r) ==
    /\ run[r] # Off
    /\ run' = [run EXCEPT ![r] = Off]
    /\ UNCHANGED <<now, up, key, draws>>

RedisFails == up /\ up' = FALSE /\ UNCHANGED <<now, key, run, draws>>
RedisReturns == ~up /\ up' = TRUE /\ UNCHANGED <<now, key, run, draws>>

Tick == now < MaxTime /\ now' = now + 1 /\ UNCHANGED <<up, key, run, draws>>

Next ==
    \/ \E r \in Replicas : Fire(r) \/ Finish(r) \/ Release(r) \/ Die(r)
    \/ RedisFails \/ RedisReturns \/ Tick

Spec == Init /\ [][Next]_vars

-----------------------------------------------------------------------------
InTime(r) == run[r].pc = "job" /\ now < run[r].at + Ttl

\* A replica that took the lock and is in its time keeps it, whatever an
\* overrun or dead holder does.
KeepsItsLock == \A r \in Replicas : InTime(r) => Held /\ key.token = run[r].token

=============================================================================
