------------------------------ MODULE Accounts ------------------------------
(***************************************************************************)
(* One account's password and address (register, login, changePassword,    *)
(* changeEmail of auth.service.ts; password-reset.service.ts;              *)
(* breached-password.service.ts).  A password is a value and the number of *)
(* the write that set it.  Access tokens and session versions are module   *)
(* Sessions; the invitations that also create accounts, module Members.    *)
(***************************************************************************)
EXTENDS Integers, Sequences, FiniteSets

CONSTANTS
    Tasks,          \* requests being served at the same time
    Passwords, Breached,
    Addresses, FirstAddress,
    MaxWrites,      \* bound: passwords ever set
    MaxLinks,       \* bound: reset links ever asked for
    MaxSessions,    \* bound: sessions ever opened
    Crashes         \* whether a process may die between two statements

VARIABLES
    account,    \* the User row: exists, value and number of its password, email
    link,       \* PasswordResetToken rows in order of creation
    session,    \* RefreshToken rows: the password they were opened with, revokedAt
    task,       \* requests in flight
    uses        \* ghost: passwords each link has set

vars == <<account, link, session, task, uses>>

Idle == [op |-> "none", pc |-> "idle", pw |-> "none", seen |-> 0, id |-> 0,
         to |-> FirstAddress]

Init ==
    /\ account = [exists |-> FALSE, pw |-> "none", n |-> 0, email |-> FirstAddress]
    /\ link = <<>> /\ session = <<>> /\ uses = <<>>
    /\ task = [t \in Tasks |-> Idle]

At(t, op, pc) == task[t].op = op /\ task[t].pc = pc
Goto(t, pc) == task' = [task EXCEPT ![t].pc = pc]
Done(t) == task' = [task EXCEPT ![t] = Idle]
Live(i) == link[i].state = "live"
Unclaimed(i) == link[i].state \in {"live", "expired"}     \* usedAt is null, and the row is there
Links == 1..Len(link)
Sessions == 1..Len(session)
Written(pw) == [account EXCEPT !.exists = TRUE, !.pw = pw, !.n = @ + 1]
Opened(n) == Append(session, [n |-> n, live |-> TRUE])
Ended(keep) ==
    [i \in Sessions |-> IF i = keep THEN session[i] ELSE [session[i] EXCEPT !.live = FALSE]]

\* assertNotBreached refuses a password of the corpus
Screened(pw) == pw \notin Breached

-----------------------------------------------------------------------------
(* register and login *)

RegisterFind(t, pw) ==
    /\ task[t] = Idle
    /\ ~account.exists
    /\ Screened(pw)
    /\ task' = [task EXCEPT ![t] = [Idle EXCEPT !.op = "register", !.pc = "create", !.pw = pw]]
    /\ UNCHANGED <<account, link, session, uses>>

\* the unique index refuses the second of two
RegisterCreate(t) ==
    /\ At(t, "register", "create") /\ account.n < MaxWrites
    /\ IF account.exists
       THEN Done(t) /\ UNCHANGED account
       ELSE /\ account' = Written(task[t].pw)
            /\ task' = [task EXCEPT ![t].pc = "session", ![t].seen = 1]
    /\ UNCHANGED <<link, session, uses>>

LoginVerify(t) ==
    /\ task[t] = Idle /\ account.exists
    /\ task' = [task EXCEPT ![t] = [Idle EXCEPT !.op = "login", !.pc = "session", !.seen = account.n]]
    /\ UNCHANGED <<account, link, session, uses>>

OpenSession(t) ==
    /\ task[t].pc = "session" /\ Len(session) < MaxSessions
    /\ session' = Opened(task[t].seen)
    /\ Done(t)
    /\ UNCHANGED <<account, link, uses>>

-----------------------------------------------------------------------------
(* changePassword and changeEmail, by somebody with a live session *)

\* verifies the current password, then screens and hashes the new one
ChangeVerify(t, s, pw) ==
    /\ task[t] = Idle
    /\ session[s].live
    /\ Screened(pw) /\ pw # account.pw
    /\ task' = [task EXCEPT ![t] = [Idle EXCEPT !.op = "change", !.pc = "write", !.pw = pw,
                                              !.seen = account.n, !.id = s]]
    /\ UNCHANGED <<account, link, session, uses>>

\* the transaction: the password, and every refresh token but the caller's
ChangeWrite(t) ==
    /\ At(t, "change", "write") /\ account.n < MaxWrites
    /\ account' = Written(task[t].pw)
    /\ session' = [Ended(task[t].id) EXCEPT ![task[t].id].n = account'.n]
    /\ Done(t)
    /\ UNCHANGED <<link, uses>>

EmailRead(t, s, a) ==
    /\ task[t] = Idle
    /\ session[s].live /\ a # account.email
    /\ task' = [task EXCEPT ![t] = [Idle EXCEPT !.op = "email", !.pc = "write", !.to = a]]
    /\ UNCHANGED <<account, link, session, uses>>

EmailWrite(t) ==
    /\ At(t, "email", "write")
    /\ account' = [account EXCEPT !.email = task[t].to]
    /\ Done(t)
    /\ UNCHANGED <<link, session, uses>>

-----------------------------------------------------------------------------
(* PasswordResetService *)

\* request looks the address up; an unknown one ends it
RequestFind(t, a) ==
    /\ task[t] = Idle
    /\ account.exists /\ account.email = a
    /\ task' = [task EXCEPT ![t] = [Idle EXCEPT !.op = "request", !.pc = "retire", !.to = a]]
    /\ UNCHANGED <<account, link, session, uses>>

RequestRetire(t) ==
    /\ At(t, "request", "retire")
    /\ link' = [i \in Links |-> IF Unclaimed(i) THEN [link[i] EXCEPT !.state = "used"]
                                 ELSE link[i]]
    /\ Goto(t, "create")
    /\ UNCHANGED <<account, session, uses>>

\* the row, and the email to the address that was looked up
RequestCreate(t) ==
    /\ At(t, "request", "create") /\ Len(link) < MaxLinks
    /\ link' = Append(link, [state |-> "live", to |-> task[t].to])
    /\ uses' = Append(uses, 0)
    /\ Done(t)
    /\ UNCHANGED <<account, session>>

\* resetPassword hashes before it consumes; expired, used and unknown end it alike
ConsumeRead(t, i, pw) ==
    /\ task[t] = Idle
    /\ Live(i)
    /\ task' = [task EXCEPT ![t] = [Idle EXCEPT !.op = "reset", !.pc = "claim", !.pw = pw, !.id = i]]
    /\ UNCHANGED <<account, link, session, uses>>

ClaimsAnyway(i) == TRUE
Claims(i) == Unclaimed(i)

\* updateMany ... where usedAt is null, and its count
ConsumeClaim(t) ==
    /\ At(t, "reset", "claim")
    /\ IF Claims(task[t].id)
       THEN link' = [link EXCEPT ![task[t].id].state = "used"] /\ Goto(t, "write")
       ELSE Done(t) /\ UNCHANGED link
    /\ UNCHANGED <<account, session, uses>>

ConsumeWrite(t) ==
    /\ At(t, "reset", "write") /\ account.n < MaxWrites
    /\ account' = Written(task[t].pw)
    /\ uses' = [uses EXCEPT ![task[t].id] = @ + 1]
    /\ Goto(t, "revoke")
    /\ UNCHANGED <<link, session>>

ConsumeRevoke(t) ==
    /\ At(t, "reset", "revoke")
    /\ session' = Ended(0)
    /\ Done(t)
    /\ UNCHANGED <<account, link, uses>>

\* half an hour passes; purgeExpired deletes what is that old, used or not
Expire(i) ==
    /\ Live(i)
    /\ link' = [link EXCEPT ![i].state = "expired"]
    /\ UNCHANGED <<account, session, task, uses>>

Purge(i) ==
    /\ link[i].state \in {"expired", "used"}
    /\ link' = [link EXCEPT ![i].state = "gone"]
    /\ UNCHANGED <<account, session, task, uses>>

\* the process serving t dies between two statements
Crash(t) ==
    /\ Crashes /\ task[t] # Idle
    /\ Done(t)
    /\ UNCHANGED <<account, link, session, uses>>

Step(t) ==
    \/ RegisterCreate(t) \/ OpenSession(t) \/ ChangeWrite(t) \/ EmailWrite(t)
    \/ RequestRetire(t) \/ RequestCreate(t)
    \/ ConsumeClaim(t) \/ ConsumeWrite(t) \/ ConsumeRevoke(t)

Start(t) ==
    \/ \E pw \in Passwords : RegisterFind(t, pw)
    \/ LoginVerify(t)
    \/ \E s \in Sessions, pw \in Passwords : ChangeVerify(t, s, pw)
    \/ \E s \in Sessions, a \in Addresses : EmailRead(t, s, a)
    \/ \E a \in Addresses : RequestFind(t, a)
    \/ \E i \in Links, pw \in Passwords : ConsumeRead(t, i, pw)

Next ==
    \/ \E t \in Tasks : Step(t) \/ Start(t) \/ Crash(t)
    \/ \E i \in Links : Expire(i) \/ Purge(i)

Spec == Init /\ [][Next]_vars

-----------------------------------------------------------------------------
\* A reset link sets at most one password, however many requests carry it
\* (consume: "Single use, enforced by the database").
LinkSetsOnePassword == \A i \in Links : uses[i] <= 1

=============================================================================
