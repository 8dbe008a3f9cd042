------------------------------ MODULE MCSignIn ------------------------------
(***************************************************************************)
(* Sessions, a browser, members, the second factor and the channels a      *)
(* workspace connects in one run.  They share no state, so they are        *)
(* checked one at a time: the initial state picks a part of Parts and      *)
(* everything else stands still.                                           *)
(***************************************************************************)
EXTENDS Integers, FiniteSets, Sequences, TLC

CONSTANTS
    Parts,          \* the instances a run checks
    Tasks,          \* requests being served at the same time
    Processes,      \* API processes
    Others,         \* people besides the owner
    Grants, SeatLimit, MaxInvites, MaxRows,             \* of Members
    Keepers, CodeCount, Window, MaxSecrets, MaxSets, MaxTime,   \* of SecondFactor
    Requests, Orgs, Home, MaxTokens, MaxExpiries,       \* of Browser
    Browsers, Providers, Direct, Limit, MaxFlows, MaxChannels, MaxChanges   \* of Connections

\* A code stays acceptable for three steps; MFA_REPLAY_WINDOW_MS is as long.
ASSUME WindowAssumption == Window \in Nat /\ Window >= 3

Alike == Permutations(Tasks) \cup Permutations(Processes) \cup Permutations(Others)

VARIABLES
    part,
    member, refresh, issued, cache, task, now, era, past, order, alarmed,
    row, account, invitation, handling, joined,
    mfa, secret, secrets, codes, sets, consumed, mfaTask, step, phone, inside,
    proven, taken, replayed, redeemed, respent,
    token, jar, tab, rotating, call, leave, expiries, out, lost, alarm,
    admin, changes, flow, kept, cookie, channel, connecting, traded

\* one person's sessions under two API processes: how stale an admission may be
Guard == INSTANCE SessionsProofs WITH
    Orgs <- {1}, Replicas <- Processes, Roles <- {"ADMIN"}, CacheTtl <- 1,
    MaxRead <- 1, MaxTime <- 2, MaxTokens <- 1, MaxChanges <- 1,
    Ops <- {"login", "request", "mfa", "manage"}

\* the same sessions in two workspaces: rotation, switches and removals
Rotation == INSTANCE SessionsProofs WITH
    Orgs <- {1, 2}, Replicas <- {"r1"}, Tasks <- {"t"}, Roles <- {"ADMIN"}, CacheTtl <- 1,
    MaxRead <- 0, MaxTime <- 0, MaxTokens <- 3, MaxChanges <- 2,
    Ops <- {"login", "refresh", "switch", "manage"}

\* reuse alarms, sign-outs, password changes and resets against refreshes
Ends == INSTANCE SessionsProofs WITH
    Orgs <- {1}, Replicas <- {"r1"}, Roles <- {"ADMIN"}, CacheTtl <- 1,
    MaxRead <- 0, MaxTime <- 0, MaxTokens <- 2, MaxChanges <- 1,
    Ops <- {"login", "refresh", "logout", "password", "reset"}

\* people beside the owner, several requests at a time
Team == INSTANCE Members WITH
    People <- Others \cup {"owner"}, Owner <- "owner", NoOne <- "noone", task <- handling

\* sets of recovery codes and the time a TOTP code stays acceptable
Factor == INSTANCE SecondFactor WITH Replicas <- Keepers, task <- mfaTask, now <- step

\* one tab, several requests at a time, workspaces to switch between
Page == INSTANCE Browser WITH Tabs <- {"one"}, refresh <- rotating

\* what is connected is as alike as people are
OAuth == INSTANCE Connections WITH
    Accounts <- Others, MaxRows <- MaxChannels, task <- connecting

sessionVars == <<member, refresh, issued, cache, task, now, era, past, order, alarmed>>
teamVars == <<row, account, invitation, handling, joined>>
mfaVars == <<mfa, secret, secrets, codes, sets, consumed, mfaTask, step, phone, inside,
             proven, taken, replayed, redeemed, respent>>
pageVars == <<token, jar, tab, rotating, call, leave, expiries, out, lost, alarm>>
channelVars == <<admin, changes, flow, kept, cookie, channel, connecting, traded>>
vars == <<part, sessionVars, teamVars, mfaVars, pageVars, channelVars>>

Init ==
    /\ part \in Parts
    /\ IF part = "guard" THEN Guard!Init ELSE IF part = "rotation" THEN Rotation!Init ELSE Ends!Init
    /\ Team!Init /\ Factor!Init /\ Page!Init /\ OAuth!Init

Next ==
    \/ /\ \/ part = "guard" /\ Guard!Next
          \/ part = "rotation" /\ Rotation!Next
          \/ part = "ends" /\ Ends!Next
       /\ UNCHANGED <<part, teamVars, mfaVars, pageVars, channelVars>>
    \/ /\ part = "team" /\ Team!Next
       /\ UNCHANGED <<part, sessionVars, mfaVars, pageVars, channelVars>>
    \/ /\ Factor!Next
       /\ \/ part = "totp" /\ sets' <= 1
          \/ part = "recovery" /\ step' <= 1
       /\ UNCHANGED <<part, sessionVars, teamVars, pageVars, channelVars>>
    \/ /\ part = "page" /\ Page!Next
       /\ UNCHANGED <<part, sessionVars, teamVars, mfaVars, channelVars>>
    \/ /\ part = "channels" /\ OAuth!Next
       /\ UNCHANGED <<part, sessionVars, teamVars, mfaVars, pageVars>>

Spec == Init /\ [][Next]_vars

\* The guard admits on a membership no older than its cache (roles.guard.ts).
AdmissionIsFresh == part = "guard" => Guard!AdmissionIsFresh
\* A refresh moves a session only out of a workspace that was lost (refresh).
MovedOnlyWhenRemoved == Rotation!MovedOnlyWhenRemoved
\* A family that was ended issues no token any more (refresh, logout, revocation).
DeadFamilyStaysDead == Ends!DeadFamilyStaysDead
\* Everybody but the owner was invited and accepted (acceptInvitation).
MembersWereInvited == Team!MembersWereInvited
\* A one-time code and a recovery code are accepted once (assertValidMfaCode, redeem).
EachCodeWorksOnce == Factor!EachCodeWorksOnce
\* A single tab signs itself out by nothing but a sign-out and a lost answer (lib/api.ts).
OneTabStaysSignedIn == Page!OneTabStaysSignedIn
\* An OAuth state is exchanged once (oauth-state.service.ts).
StateWorksOnce == OAuth!StateWorksOnce
=============================================================================
