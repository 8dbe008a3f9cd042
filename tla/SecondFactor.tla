---------------------------- MODULE SecondFactor ----------------------------
(***************************************************************************)
(* The second factor of one account (the MFA part of auth.service.ts,      *)
(* backup-codes.service.ts, and the two pages that take a code).  Time is  *)
(* counted in TOTP steps of 30 seconds.  The password is taken to be right *)
(* wherever it is asked for; a wrong code is a stuttering step.            *)
(*                                                                         *)
(* The handlers read the user row, await argon2, and write by id.          *)
(* assertValidMfaCode runs without an await, so verify and consume are one *)
(* step of one replica.                                                    *)
(***************************************************************************)
EXTENDS Integers, FiniteSets

CONSTANTS
    Tasks,          \* requests being served at the same time
    Replicas,       \* API processes; consumedMfaCodes is a map in each
    CodeCount,      \* CODE_COUNT
    Window,         \* MFA_REPLAY_WINDOW_MS in steps
    MaxSecrets,     \* bound: secrets ever generated
    MaxSets,        \* bound: sets of recovery codes ever issued
    MaxTime         \* bound: steps

VARIABLES
    mfa,        \* User.mfaEnabled
    secret,     \* User.mfaSecret, 0 for null
    secrets,    \* secrets generated so far
    codes,      \* MfaBackupCode rows: set, number in it, usedAt
    sets,       \* sets issued so far
    consumed,   \* consumedMfaCodes of each replica
    task,       \* requests in flight
    now,
    phone,      \* the secret the person's authenticator holds, 0 when it is lost
    inside,     \* the person is signed in
    proven,     \* ghost: secrets somebody showed a code of
    taken,      \* ghost: <<replica, code>> accepted so far
    replayed,   \* ghost: a replica accepted a code a second time
    redeemed,   \* ghost: recovery codes that completed a sign-in
    respent     \* ghost: one did so a second time

row == <<mfa, secret, secrets>>
ghosts == <<proven, taken, replayed>>
spending == <<redeemed, respent>>
person == <<phone, inside>>
vars == <<row, codes, sets, consumed, task, now, person, ghosts, spending>>

None == [set |-> 0, n |-> 0]
Idle == [pc |-> "idle", at |-> "none", secret |-> 0, totp |-> [secret |-> 0, step |-> 0],
         code |-> None, seen |-> {}]

Init ==
    /\ mfa = FALSE /\ secret = 0 /\ secrets = 0
    /\ codes = {} /\ sets = 0
    /\ consumed = [r \in Replicas |-> {}]
    /\ task = [t \in Tasks |-> Idle]
    /\ now = 1 /\ phone = 0 /\ inside = TRUE
    /\ proven = {} /\ taken = {} /\ replayed = FALSE
    /\ redeemed = {} /\ respent = FALSE

Goto(t, pc) == task' = [task EXCEPT ![t].pc = pc]
Done(t) == task' = [task EXCEPT ![t] = Idle]
Id(c) == [set |-> c.set, n |-> c.n]
Unused == {c \in codes : ~c.used}
Totps == {[secret |-> s, step |-> k] : s \in 1..secrets, k \in (now - 1)..(now + 1)}

-----------------------------------------------------------------------------
(* assertValidMfaCode *)

UntilNextStep == now + 1
Until == now + Window

\* forgetExpiredMfaCodes
Remembered(r) == {x \in consumed[r] : x.until > now}

Accepts(r, stored, c) ==
    /\ stored # 0 /\ c.secret = stored
    /\ c.step \in (now - 1)..(now + 1)
    /\ \A x \in Remembered(r) : x.totp # c

Consume(r, c) ==
    /\ consumed' = [consumed EXCEPT ![r] = Remembered(r) \cup {[totp |-> c, until |-> Until]}]
    /\ proven' = proven \cup {c.secret}
    /\ taken' = taken \cup {<<r, c>>}
    /\ replayed' = (replayed \/ <<r, c>> \in taken)

-----------------------------------------------------------------------------
(* Turning it on and off *)

SetupRead(t) ==
    /\ task[t] = Idle /\ inside
    /\ ~mfa
    /\ Goto(t, "setup")
    /\ UNCHANGED <<row, codes, sets, consumed, now, person, ghosts, spending>>

\* the answer carries the new secret, which the authenticator takes over
SetupWrite(t) ==
    /\ task[t].pc = "setup"
    /\ secrets < MaxSecrets
    /\ secrets' = secrets + 1
    /\ secret' = secrets + 1
    /\ phone' = secrets + 1
    /\ Done(t)
    /\ UNCHANGED <<mfa, codes, sets, consumed, now, inside, ghosts, spending>>

\* the row is read and its secret checked without an await between the two
EnableCheck(t, r, c) ==
    /\ task[t] = Idle /\ inside
    /\ Accepts(r, secret, c)
    /\ Consume(r, c)
    /\ Goto(t, "enable")
    /\ UNCHANGED <<row, codes, sets, now, person, spending>>

EnableWrite(t) ==
    /\ task[t].pc = "enable"
    /\ mfa' = TRUE
    /\ Goto(t, "hash")
    /\ UNCHANGED <<secret, secrets, codes, sets, consumed, now, person, ghosts, spending>>

\* regenerateBackupCodes up to the hashing
RegenerateRead(t) ==
    /\ task[t] = Idle /\ inside
    /\ mfa
    /\ Goto(t, "hash")
    /\ UNCHANGED <<row, codes, sets, consumed, now, person, ghosts, spending>>

\* regenerate's transaction: deleteMany sees the committed rows ...
RegenerateDelete(t) ==
    /\ task[t].pc = "hash"
    /\ task' = [task EXCEPT ![t].pc = "issue", ![t].seen = codes]
    /\ UNCHANGED <<row, codes, sets, consumed, now, person, ghosts, spending>>

\* ... and the new set appears when the old one goes
RegenerateIssue(t) ==
    /\ task[t].pc = "issue"
    /\ sets < MaxSets
    /\ sets' = sets + 1
    /\ codes' = {c \in codes : Id(c) \notin {Id(d) : d \in task[t].seen}}
                  \cup {[set |-> sets + 1, n |-> i, used |-> FALSE] : i \in 1..CodeCount}
    /\ Done(t)
    /\ UNCHANGED <<row, consumed, now, person, ghosts, spending>>

\* disableMfa reads the row, awaits argon2, and checks the code against what it read
DisableRead(t, c) ==
    /\ task[t] = Idle /\ inside
    /\ mfa
    /\ task' = [task EXCEPT ![t] = [Idle EXCEPT !.pc = "disable", !.secret = secret, !.totp = c]]
    /\ UNCHANGED <<row, codes, sets, consumed, now, person, ghosts, spending>>

DisableCheck(t, r) ==
    /\ task[t].pc = "disable"
    /\ IF Accepts(r, task[t].secret, task[t].totp)
       THEN Consume(r, task[t].totp) /\ Goto(t, "clear")
       ELSE Done(t) /\ UNCHANGED <<consumed, ghosts>>
    /\ UNCHANGED <<row, codes, sets, now, person, spending>>

DisableWrite(t) ==
    /\ task[t].pc = "clear"
    /\ mfa' = FALSE /\ secret' = 0
    /\ Goto(t, "revoke")
    /\ UNCHANGED <<secrets, codes, sets, consumed, now, person, ghosts, spending>>

\* revokeAll
DisableRevoke(t) ==
    /\ task[t].pc = "revoke"
    /\ codes' = {}
    /\ Done(t)
    /\ UNCHANGED <<row, sets, consumed, now, person, ghosts, spending>>

-----------------------------------------------------------------------------
(* Signing in *)

\* login reads the row; without MFA it asks for nothing more
LoginRead(t, c, code) ==
    /\ task[t] = Idle
    /\ IF mfa
       THEN /\ task' = [task EXCEPT ![t] = [Idle EXCEPT !.pc = "redeem", !.secret = secret,
                                              !.totp = c, !.code = code]]
            /\ UNCHANGED inside
       ELSE inside' = TRUE /\ UNCHANGED task
    /\ UNCHANGED <<row, codes, sets, consumed, now, phone, ghosts, spending>>

\* redeem reads the unused rows and verifies every one of them
RedeemRead(t) ==
    /\ task[t].pc = "redeem"
    /\ Goto(t, IF \E c \in Unused : Id(c) = task[t].code THEN "spend" ELSE "totp")
    /\ UNCHANGED <<row, codes, sets, consumed, now, person, ghosts, spending>>

StillUnused(c) == \E d \in Unused : Id(d) = c

RedeemSpend(t) ==
    LET c == task[t].code
    IN  /\ task[t].pc = "spend"
        /\ IF StillUnused(c)
           THEN /\ codes' = {IF Id(d) = c THEN [d EXCEPT !.used = TRUE] ELSE d : d \in codes}
                /\ redeemed' = redeemed \cup {c}
                /\ respent' = (respent \/ c \in redeemed)
                /\ inside' = TRUE
                /\ Done(t)
           ELSE Goto(t, "totp") /\ UNCHANGED <<codes, inside, spending>>
        /\ UNCHANGED <<row, sets, consumed, now, phone, ghosts>>

\* tried second, with the secret the row held when it was read
LoginTotp(t, r) ==
    /\ task[t].pc = "totp"
    /\ IF Accepts(r, task[t].secret, task[t].totp)
       THEN Consume(r, task[t].totp) /\ inside' = TRUE
       ELSE UNCHANGED <<consumed, ghosts, inside>>
    /\ Done(t)
    /\ UNCHANGED <<row, codes, sets, now, phone, spending>>

-----------------------------------------------------------------------------
Tick ==
    /\ now < MaxTime
    /\ now' = now + 1
    /\ UNCHANGED <<row, codes, sets, consumed, task, person, ghosts, spending>>

NoTotp == [secret |-> 0, step |-> 0]

Step(t) ==
    \/ SetupWrite(t) \/ EnableWrite(t)
    \/ RegenerateDelete(t) \/ RegenerateIssue(t)
    \/ DisableWrite(t) \/ DisableRevoke(t)
    \/ RedeemRead(t) \/ RedeemSpend(t)
    \/ \E r \in Replicas : DisableCheck(t, r) \/ LoginTotp(t, r)

Start(t) ==
    \/ SetupRead(t) \/ RegenerateRead(t)
    \/ \E c \in Totps : DisableRead(t, c) \/ LoginRead(t, c, None)
    \/ \E r \in Replicas, c \in Totps : EnableCheck(t, r, c)
    \/ \E c \in codes : LoginRead(t, NoTotp, Id(c))

Next ==
    \/ \E t \in Tasks : Step(t) \/ Start(t)
    \/ Tick

Spec == Init /\ [][Next]_vars

-----------------------------------------------------------------------------
\* One replica accepts a code at most once, however late in its window it is
\* presented again and whichever of login, enable and disable took it first
\* (consumedMfaCodes, S-19); and a recovery code completes at most one sign-in, also
\* when two arrive together and when sets are issued and dropped meanwhile (redeem's
\* conditional update).
EachCodeWorksOnce == ~replayed /\ ~respent

-----------------------------------------------------------------------------
(***************************************************************************)
(* The person in front of the login page (apps/web, (auth)/login), who     *)
(* loses the phone the second factor was on.  The person's and the         *)
(* server's steps are fair.                                                *)
(***************************************************************************)
Typed == [totp |-> 6, recovery |-> 11]          \* XXXXX-XXXXX
LoginFieldTakes == 8

\* the login page, whose code field appears after MFA_REQUIRED
SignInWithRecovery(t) ==
    /\ ~inside /\ Typed.recovery <= LoginFieldTakes
    /\ \E c \in Unused : LoginRead(t, NoTotp, Id(c))

SignInWithTotp(t) ==
    /\ ~inside /\ phone # 0 /\ Typed.totp <= LoginFieldTakes
    /\ LoginRead(t, [secret |-> phone, step |-> now], None)

\* an account with MFA on, and a person who stays, loses the phone, or signs in
PersonInit ==
    /\ mfa = TRUE /\ secret = 1 /\ secrets = 1
    /\ codes = {[set |-> 1, n |-> i, used |-> FALSE] : i \in 1..CodeCount} /\ sets = 1
    /\ consumed = [r \in Replicas |-> {}]
    /\ task = [t \in Tasks |-> Idle]
    /\ now = 1 /\ phone = 1 /\ inside \in BOOLEAN
    /\ proven = {1} /\ taken = {} /\ replayed = FALSE
    /\ redeemed = {} /\ respent = FALSE

\* the phone is lost, and with it the session
LosePhone ==
    /\ phone # 0
    /\ phone' = 0 /\ inside' = FALSE
    /\ UNCHANGED <<row, codes, sets, consumed, task, now, ghosts, spending>>

PersonStep ==
    \E t \in Tasks : Step(t) \/ SignInWithRecovery(t) \/ SignInWithTotp(t)

PersonSpec == PersonInit /\ [][PersonStep \/ LosePhone]_vars /\ WF_vars(PersonStep)

\* Recovery codes are "a recovery path for a lost authenticator": who lost the
\* phone and holds an unused code gets in (BackupCodesService, login).
LostPhoneGetsIn == (phone = 0 /\ Unused # {}) ~> inside
=============================================================================
