---------------------------- MODULE LoginBackoff ----------------------------
(***************************************************************************)
(* Graduated backoff on failed sign-in (login-backoff.service.ts) around   *)
(* the password check of AuthService.login.  Two Redis counters, one for   *)
(* the account and one for the client address, each forgotten when it has  *)
(* been quiet for WINDOW_SECONDS.                                          *)
(*                                                                         *)
(* Time is relative: age[k] is how long ago k's expiry was last set, which *)
(* is what pttl tells; a key that exists without expiry has NoExpiry.      *)
(* A count above MaxCount waits as long as MaxCount does, so counts stop   *)
(* there.                                                                  *)
(***************************************************************************)
EXTENDS Integers, FiniteSets

CONSTANTS
    Accounts, Addresses,
    Me,             \* a person who knows the password of MyAccount
    MyAccount, MyAddress,
    Others,         \* sign-ins of anybody else, served at the same time
    FreeAttempts, BaseDelay, MaxDelay, WindowLength,
    MaxCount,       \* bound: the count from which on the delay is MaxDelay
    MaxFailures,    \* bound: wrong passwords ever
    StoreCuts       \* whether the store may fail a command, or a pipeline half way

VARIABLES
    count,      \* login:fail:* counters, 0 for a key that is not there
    age,        \* time since the key's expiry was set
    task,       \* sign-ins in flight
    inside,     \* Me has signed in
    failures,   \* wrong passwords so far
    guessed     \* ghost: an attempt checked a password although the store had answered that
                \* its account was cooling

vars == <<count, age, task, inside, failures, guessed>>

Keys == Accounts \cup Addresses
Attempts == Others \cup {Me}
NoExpiry == -1

Idle == [pc |-> "idle", acct |-> MyAccount, ip |-> MyAddress, worst |-> 0]

Init ==
    /\ count = [k \in Keys |-> 0]
    /\ age = [k \in Keys |-> 0]
    /\ task = [t \in Attempts |-> Idle]
    /\ inside = FALSE /\ failures = 0 /\ guessed = FALSE

MaxOf(x, y) == IF x >= y THEN x ELSE y
MinOf(x, y) == IF x <= y THEN x ELSE y

\* backoffDelaySeconds; Doubled[n] is 2 ** n
Doubled[n \in Nat] == IF n = 0 THEN 1 ELSE 2 * Doubled[n - 1]
Delay(n) == IF n <= FreeAttempts THEN 0
            ELSE MinOf(MaxDelay, BaseDelay * Doubled[n - FreeAttempts - 1])

\* pttl of a key: -2 when it is not there, -1 when it has no expiry
Ttl(k) == IF count[k] = 0 THEN -2
          ELSE IF age[k] = NoExpiry THEN -1 ELSE WindowLength - age[k]

\* a pttl that fails is -1 for its key; the keys' larger answer counts
Elapsed(x, lost) ==
    LET told(k) == IF k \in lost THEN -1 ELSE Ttl(k)
        remaining == MaxOf(told(x.acct), told(x.ip))
    IN  IF remaining > 0 THEN WindowLength - remaining ELSE 0

\* the account is in its cool-off
Cooling(a) == count[a] > FreeAttempts /\ age[a] # NoExpiry /\ age[a] < Delay(count[a])

-----------------------------------------------------------------------------
(* login *)

\* assertNotBackedOff: mget of both counters
Count(t, a, ip) ==
    /\ task[t].pc = "idle"
    /\ t = Me => a = MyAccount /\ ip = MyAddress /\ ~inside
    /\ LET worst == MaxOf(count[a], count[ip])
           next(pc) == task' = [task EXCEPT ![t] = [pc |-> pc, acct |-> a, ip |-> ip,
                                                    worst |-> worst]]
       IN  \/ next(IF Delay(worst) = 0 THEN "check" ELSE "age")
           \/ StoreCuts /\ next("check")      \* onStoreFailure lets the sign-in through
    /\ UNCHANGED <<count, age, inside, failures, guessed>>

AgeAfterRefusal(x) == age

\* then their pttl, each of which may fail; 429 ends the request and counts nothing
Age(t, lost) ==
    LET x == task[t]
        admitted == Delay(x.worst) - Elapsed(x, lost) <= 0
    IN  /\ x.pc = "age"
        /\ task' = [task EXCEPT ![t] = IF admitted THEN [x EXCEPT !.pc = "check"] ELSE Idle]
        /\ guessed' = (guessed \/ (/\ admitted /\ x.acct \notin lost
                                  /\ count[x.acct] <= x.worst /\ Cooling(x.acct)))
        /\ age' = IF admitted THEN age ELSE AgeAfterRefusal(x)
        /\ UNCHANGED <<count, inside, failures>>

Bumped(k) == [count EXCEPT ![k] = MinOf(MaxCount, @ + 1)]

\* recordFailure's pipeline: incr and expire of the account, then of the address;
\* done is how many of the four commands the store took
RecordFailure(t, done) ==
    LET x == task[t]
        hit == {k \in {x.acct, x.ip} : (k = x.acct /\ done >= 1) \/ (k = x.ip /\ done >= 3)}
        set == {k \in hit : (k = x.acct /\ done >= 2) \/ (k = x.ip /\ done = 4)}
    IN  /\ t # Me /\ x.pc = "check"
        /\ failures < MaxFailures
        /\ failures' = failures + 1
        /\ count' = [k \in Keys |-> IF k \in hit THEN Bumped(k)[k] ELSE count[k]]
        /\ age' = [k \in Keys |-> IF k \in set THEN 0
                                  ELSE IF k \in hit /\ count[k] = 0 THEN NoExpiry ELSE age[k]]
        /\ task' = [task EXCEPT ![t] = Idle]
        /\ UNCHANGED <<inside, guessed>>

Cleared(x) == [count EXCEPT ![x.acct] = 0]

\* recordSuccess
RecordSuccess(t) ==
    LET x == task[t]
    IN  /\ x.pc = "check"
        /\ count' = Cleared(x)
        /\ age' = [age EXCEPT ![x.acct] = 0]
        /\ inside' = (inside \/ t = Me)
        /\ task' = [task EXCEPT ![t] = Idle]
        /\ UNCHANGED <<failures, guessed>>

\* a key whose window is over is gone
Tick ==
    LET over(k) == age[k] = WindowLength - 1
    IN  /\ count' = [k \in Keys |-> IF over(k) THEN 0 ELSE count[k]]
        /\ age' = [k \in Keys |-> IF age[k] = NoExpiry THEN NoExpiry
                                  ELSE IF count[k] = 0 \/ over(k) THEN 0 ELSE age[k] + 1]
        /\ UNCHANGED <<task, inside, failures, guessed>>

Unanswered(t) == {lost \in SUBSET {task[t].acct, task[t].ip} : lost = {} \/ StoreCuts}

Mine ==
    \/ Count(Me, MyAccount, MyAddress) \/ RecordSuccess(Me)
    \/ \E lost \in Unanswered(Me) : Age(Me, lost)

Next ==
    \/ Mine
    \/ \E t \in Others :
         \/ \E a \in Accounts, ip \in Addresses : Count(t, a, ip)
         \/ RecordSuccess(t)
         \/ \E lost \in Unanswered(t) : Age(t, lost)
         \/ \E done \in 0..4 : (done = 4 \/ StoreCuts) /\ RecordFailure(t, done)
    \/ Tick

\* a person keeps trying, and time passes
Spec == Init /\ [][Next]_vars /\ WF_vars(Mine) /\ WF_vars(Tick)

-----------------------------------------------------------------------------
\* An attempt for which the store answered mget and the account's pttl does not reach the
\* password check while that account is cooling, whatever the address's counter says,
\* whether or not the address's pttl is answered, and whatever other sign-ins do between
\* mget and pttl (assertNotBackedOff).  An account counter that never got its expiry has
\* no age and is not in its cool-off here; a store that fails lets the attempt through.
NoGuessWhileCooling == ~guessed

\* Who knows the password gets in once the failures stop: the delay is capped
\* and a refused attempt does not lengthen it (backoffDelaySeconds).
RealPersonGetsIn == <>inside

=============================================================================
