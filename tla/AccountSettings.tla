-------------------------- MODULE AccountSettings --------------------------
(***************************************************************************)
(* The settings page's account and two-factor cards in one tab, the auth   *)
(* store they read, api()'s refresh on 401, and the handlers they call.    *)
(*                                                                         *)
(* Ending every session (bumpAllSessions) makes the access token stale:    *)
(* the next call is answered 401, and the refresh brings the user anew.    *)
(* The password and the codes are right or wrong as they are typed.        *)
(***************************************************************************)
EXTENDS Integers, FiniteSets

CONSTANTS
    Names, Emails,
    Elsewhere,      \* addresses that are somebody else's
    MaxSends        \* bound

VARIABLES
    row,        \* the User row: name, email, mfa, secret, and the version its tokens need
    user,       \* the store's user
    token,      \* the version the access token carries
    name, email,    \* what the two inputs hold
    card,       \* mfaSetup, mfaDone, mfaOff, disabling
    error,      \* a failure is on screen, one for each card
    request,    \* of each mutation: on its way, or answered
    sends,
    unsure      \* ghost: an answer went missing, or two requests overlapped

drafts == <<name, email>>
vars == <<row, user, token, drafts, card, error, request, sends, unsure>>

Mfa == {"setup", "enable", "disable"}
Ops == {"name", "email", "password"} \cup Mfa
CardOf(op) == IF op \in Mfa THEN "mfa" ELSE "account"

Free == [pc |-> "free", body |-> "", user |-> <<>>]
Fresh == [setup |-> FALSE, done |-> FALSE, off |-> FALSE, disabling |-> FALSE]

\* publicUser
Public(r) == [name |-> r.name, email |-> r.email, mfa |-> r.mfa]

Init ==
    /\ row \in [name : {CHOOSE n \in Names : TRUE}, email : {CHOOSE e \in Emails \ Elsewhere : TRUE},
                mfa : BOOLEAN, secret : {FALSE}, version : {0}]
    /\ user = Public(row) /\ token = 0
    /\ name = row.name /\ email = row.email
    /\ card = Fresh /\ error = {}
    /\ request = [op \in Ops |-> Free] /\ sends = 0
    /\ unsure = FALSE

Pending == {op \in Ops : request[op].pc # "free"}
SaysOn == (user.mfa \/ card.done) /\ ~card.off

-----------------------------------------------------------------------------
\* Typing
TypeName(n) ==
    /\ n # name /\ name' = n
    /\ UNCHANGED <<row, user, token, email, card, error, request, sends, unsure>>

TypeEmail(e) ==
    /\ e # email /\ email' = e
    /\ UNCHANGED <<row, user, token, name, card, error, request, sends, unsure>>

\* A button is disabled while its own mutation is on its way
Send(op, body) ==
    /\ request[op].pc = "free" /\ sends < MaxSends
    /\ request' = [request EXCEPT ![op] = [Free EXCEPT !.pc = "sent", !.body = body]]
    /\ sends' = sends + 1
    /\ unsure' = (unsure \/ Pending # {})

SaveName ==
    /\ name # user.name
    /\ Send("name", name)
    /\ UNCHANGED <<row, user, token, drafts, card, error>>

SaveEmail ==
    /\ email # user.email
    /\ Send("email", email)
    /\ UNCHANGED <<row, user, token, drafts, card, error>>

SavePassword ==
    /\ Send("password", "")
    /\ UNCHANGED <<row, user, token, drafts, card, error>>

\* busy is one for the three
SendMfa(op) ==
    /\ \A other \in Mfa : request[other].pc = "free"
    /\ Send(op, "")
    /\ error' = error \ {"mfa"}

StartMfa ==
    /\ ~SaysOn /\ (card.off \/ ~card.setup)
    /\ SendMfa("setup")
    /\ card' = [card EXCEPT !.off = FALSE]
    /\ UNCHANGED <<row, user, token, drafts>>

EnableMfa ==
    /\ ~SaysOn /\ ~card.off /\ card.setup
    /\ SendMfa("enable")
    /\ UNCHANGED <<row, user, token, drafts, card>>

AskToDisable ==
    /\ SaysOn /\ ~card.disabling
    /\ card' = [card EXCEPT !.disabling = TRUE]
    /\ UNCHANGED <<row, user, token, drafts, error, request, sends, unsure>>

CancelDisable ==
    /\ SaysOn /\ card.disabling
    /\ card' = [card EXCEPT !.disabling = FALSE] /\ error' = error \ {"mfa"}
    /\ UNCHANGED <<row, user, token, drafts, request, sends, unsure>>

DisableMfa ==
    /\ SaysOn /\ card.disabling
    /\ SendMfa("disable")
    /\ UNCHANGED <<row, user, token, drafts, card>>

-----------------------------------------------------------------------------
\* The server
EndedNever(version) == version
Ended(version) == version + 1

\* 401: tryRefresh, and the request once more
Refresh(op) ==
    /\ request[op].pc = "sent" /\ token # row.version
    /\ token' = row.version /\ user' = Public(row)
    /\ UNCHANGED <<row, drafts, card, error, request, sends, unsure>>

Handled(op, body) ==
    CASE op = "name" -> [row EXCEPT !.name = body]
      [] op = "email" -> [row EXCEPT !.email = body]
      [] op = "password" -> [row EXCEPT !.version = Ended(@)]
      [] op = "setup" -> [row EXCEPT !.secret = TRUE]
      [] op = "enable" -> [row EXCEPT !.mfa = TRUE, !.version = Ended(@)]
      [] op = "disable" -> [row EXCEPT !.mfa = FALSE, !.secret = FALSE, !.version = Ended(@)]

Refused(op) ==
    \/ op = "email" /\ request[op].body \in Elsewhere
    \/ op = "setup" /\ row.mfa
    \/ op = "enable" /\ ~row.secret
    \/ op = "disable" /\ ~row.mfa

Serve(op) ==
    /\ request[op].pc = "sent" /\ token = row.version /\ ~Refused(op)
    /\ row' = Handled(op, request[op].body)
    /\ request' = [request EXCEPT ![op] = [@ EXCEPT !.pc = "answered", !.user = <<Public(row')>>]]
    /\ UNCHANGED <<user, token, drafts, card, error, sends, unsure>>

\* By a rule, or for a wrong password or code: that too is a 401, and refreshes
Refuse(op) ==
    /\ request[op].pc = "sent" /\ token = row.version
    /\ Refused(op) \/ op \notin {"name", "setup"}
    /\ user' = IF Refused(op) THEN user ELSE Public(row)
    /\ error' = error \cup {CardOf(op)}
    /\ request' = [request EXCEPT ![op] = Free]
    /\ UNCHANGED <<row, token, drafts, card, sends, unsure>>

-----------------------------------------------------------------------------
\* patchUser takes the whole user of the answer
PatchUser(op) ==
    /\ op \in {"name", "email"}
    /\ user' = request[op].user[1]
    /\ error' = error \ {"account"}
    /\ UNCHANGED card

PasswordSaved(op) ==
    /\ op = "password"
    /\ error' = error \ {"account"}
    /\ UNCHANGED <<user, card>>

ShowSecret(op) ==
    /\ op = "setup"
    /\ card' = [card EXCEPT !.setup = TRUE]
    /\ UNCHANGED <<user, error>>

\* the answer's backupCodes are not read
Enabled(op) ==
    /\ op = "enable"
    /\ card' = [card EXCEPT !.done = TRUE, !.setup = FALSE]
    /\ UNCHANGED <<user, error>>

Disabled(op) ==
    /\ op = "disable"
    /\ card' = [card EXCEPT !.done = FALSE, !.off = TRUE, !.disabling = FALSE]
    /\ UNCHANGED <<user, error>>

Arrive(op) ==
    /\ request[op].pc = "answered"
    /\ PatchUser(op) \/ PasswordSaved(op) \/ ShowSecret(op) \/ Enabled(op) \/ Disabled(op)
    /\ request' = [request EXCEPT ![op] = Free]
    /\ UNCHANGED <<row, token, drafts, sends, unsure>>

\* never delivered, turned away by a limit, or its answer lost
Fail(op) ==
    /\ request[op].pc # "free"
    /\ error' = error \cup {CardOf(op)} /\ unsure' = TRUE
    /\ request' = [request EXCEPT ![op] = Free]
    /\ UNCHANGED <<row, user, token, drafts, card, sends>>

Reload ==
    /\ Pending = {}
    /\ token' = row.version /\ user' = Public(row)
    /\ name' = row.name /\ email' = row.email
    /\ card' = Fresh /\ error' = {} /\ unsure' = FALSE
    /\ UNCHANGED <<row, request, sends>>

Next ==
    \/ SaveName \/ SaveEmail \/ SavePassword \/ StartMfa \/ EnableMfa
    \/ AskToDisable \/ CancelDisable \/ DisableMfa \/ Reload
    \/ \E n \in Names : TypeName(n)
    \/ \E e \in Emails : TypeEmail(e)
    \/ \E op \in Ops : Refresh(op) \/ Serve(op) \/ Refuse(op) \/ Arrive(op) \/ Fail(op)

Spec == Init /\ [][Next]_vars

-----------------------------------------------------------------------------
\* "reflect it locally rather than make someone sign out to see the change"
\* (disableMfa): with every answer in, and one request at a time, the page's name and
\* address are the account's, and it says MFA is enabled exactly when sign-in asks for it.
PageKnowsItsUser ==
    (Pending = {} /\ ~unsure) =>
        user.name = row.name /\ user.email = row.email /\ (SaysOn <=> row.mfa)
=============================================================================
