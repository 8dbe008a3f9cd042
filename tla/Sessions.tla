------------------------------ MODULE Sessions ------------------------------
(***************************************************************************)
(* The sessions of one person in the API (apps/api/src/auth,               *)
(* common/membership.service.ts, common/roles.guard.ts): refresh tokens    *)
(* rotated in families, access tokens that carry a membership's session    *)
(* version, the per-process cache the guard reads memberships through, and *)
(* every handler that is meant to end sessions.                            *)
(*                                                                         *)
(* A step is one database statement or the code between two awaits, so     *)
(* any two handlers interleave at every await.  Whoever holds a token may  *)
(* present it at any time, twice, or after it was rotated.  The role a     *)
(* token carries is left out: the guard overwrites it with the row's.  A   *)
(* refresh token past its thirty days is refused without a write, which is *)
(* a stuttering step here.                                                 *)
(***************************************************************************)
EXTENDS Integers, FiniteSets, Sequences

CONSTANTS
    Orgs,       \* the person's workspaces, 1 to their number
    Replicas,   \* API processes, each with a membership cache of its own
    Tasks,      \* requests being served at the same time
    Roles,      \* roles a membership may have
    CacheTtl,   \* CACHE_TTL_MS, in ticks
    MaxRead,    \* bound: ticks a membership read may take to come back
    MaxTime,    \* bound: the last tick
    MaxTokens,  \* bound: refresh tokens ever inserted
    MaxChanges, \* bound: bumps and changes of memberships
    Ops         \* the handlers of the instance

VARIABLES
    member,     \* Membership rows: role and sessionVersion, by workspace
    refresh,    \* RefreshToken rows in order of insertion
    issued,     \* access tokens handed out: workspace, session version, ghost era
    cache,      \* MembershipService.cache of each replica
    task,       \* the handlers in flight
    now,
    era,        \* ghost: password changes and resets completed; a row's era is the
                \* password its session was proved with
    past,       \* ghost: earlier values of each membership, and when they ended
    order,      \* workspaces by createdAt of the membership, the newest last
    alarmed     \* ghost: families a reuse alarm has ended

vars == <<member, refresh, issued, cache, task, now, era, past, order, alarmed>>

NotMember == [role |-> "none", sv |-> 0]
NotCached == [live |-> NotMember, at |-> -1]
Guarded == {"request", "switch", "password", "mfa"}
Idle == [op |-> "none", pc |-> "idle", rep |-> 0, org |-> 0, sv |-> 0, tok |-> 0,
         family |-> 0, live |-> NotMember, since |-> 0, era |-> 0]

Init ==
    /\ member = [o \in Orgs |-> [role |-> CHOOSE r \in Roles : TRUE, sv |-> 0]]
    /\ refresh = <<>>
    /\ issued = {}
    /\ cache = [r \in Replicas |-> [o \in Orgs |-> NotCached]]
    /\ task = [t \in Tasks |-> Idle]
    /\ now = 0
    /\ era = 0
    /\ past = [o \in Orgs |-> {}]
    /\ order = [i \in Orgs |-> i]
    /\ alarmed = {}

Rows == 1..Len(refresh)
Held == {o \in Orgs : member[o] # NotMember}
MayChange(o) == Cardinality(past[o]) < MaxChanges
Ended(o) == past[o] \cup {[row |-> member[o], until |-> now]}

\* memberships[0] of the rows ordered by createdAt, 0 when there is none
FirstWorkspace ==
    LET first == {i \in DOMAIN order : order[i] \in Held
                                       /\ \A j \in 1..(i - 1) : order[j] \notin Held}
    IN  IF first = {} THEN 0 ELSE order[CHOOSE i \in first : TRUE]

Goto(t, pc) == task' = [task EXCEPT ![t].pc = pc]
Done(t) == task' = [task EXCEPT ![t] = Idle]

-----------------------------------------------------------------------------
(* MembershipService *)

Fresh(entry) == now - entry.at < CacheTtl

\* current(): the cached answer, or a read whose answer comes back later
Current(t) ==
    LET x == task[t]
        hit == cache[x.rep][x.org]
    IN  /\ x.pc = "current"
        /\ task' = IF hit # NotCached /\ Fresh(hit)
                   THEN [task EXCEPT ![t].live = hit.live, ![t].pc = "found"]
                   ELSE [task EXCEPT ![t].live = member[x.org], ![t].pc = "fill",
                                     ![t].since = now]
        /\ UNCHANGED <<member, refresh, issued, cache, now, era, past, order, alarmed>>

\* the read came back: it is cached with the time of its arrival
FillCache(t) ==
    /\ task[t].pc = "fill"
    /\ cache' = [cache EXCEPT ![task[t].rep][task[t].org] =
                                [live |-> task[t].live, at |-> now]]
    /\ task' = [task EXCEPT ![t].pc = "found", ![t].since = 0]
    /\ UNCHANGED <<member, refresh, issued, now, era, past, order, alarmed>>

\* invalidate(): one workspace, or every workspace a bump touched
Invalidate(t) ==
    LET x == task[t]
        dropped == IF x.op = "manage" THEN {x.org} ELSE Orgs
    IN  /\ x.pc = "invalidate"
        /\ cache' = [cache EXCEPT ![x.rep] =
                       [o \in Orgs |-> IF o \in dropped THEN NotCached ELSE @[o]]]
        /\ task' = IF x.op = "mfa" THEN [task EXCEPT ![t] = Idle]
                                   ELSE [task EXCEPT ![t].pc = "revoke"]
        /\ UNCHANGED <<member, refresh, issued, now, era, past, order, alarmed>>

Bumped(o) == IF o \in Held THEN [member[o] EXCEPT !.sv = @ + 1] ELSE NotMember

\* bumpAllSessions: every membership's version, in one statement
Bump(t) ==
    /\ task[t].pc = "bump"
    /\ \A o \in Held : MayChange(o)
    /\ member' = [o \in Orgs |-> Bumped(o)]
    /\ past' = [o \in Orgs |-> IF o \in Held THEN Ended(o) ELSE past[o]]
    /\ Goto(t, "invalidate")
    /\ UNCHANGED <<refresh, issued, cache, now, era, order, alarmed>>

-----------------------------------------------------------------------------
(* The session handlers of AuthService *)

\* login and register end in a session of the first workspace, in a family
\* of its own; the password they verified is the one of this era
Login(t, r) ==
    /\ "login" \in Ops
    /\ task[t] = Idle
    /\ FirstWorkspace # 0
    /\ Len(refresh) < MaxTokens
    /\ task' = [task EXCEPT ![t] = [Idle EXCEPT !.op = "login", !.pc = "current",
                   !.rep = r, !.org = FirstWorkspace, !.era = era]]
    /\ UNCHANGED <<member, refresh, issued, cache, now, era, past, order, alarmed>>

ReusedNever(row) == FALSE
Reused(row) == ~row.live

\* memberships.find(orgId) or memberships[0]
ScopeIsFirst(row) == FirstWorkspace
Scope(row) == IF row.org \in Held THEN row.org ELSE FirstWorkspace

\* refresh(): the row and the person's memberships, in one read
RefreshRead(t, r, k) ==
    /\ "refresh" \in Ops
    /\ task[t] = Idle
    /\ Len(refresh) < MaxTokens
    /\ task' = [task EXCEPT ![t] = [Idle EXCEPT !.op = "refresh", !.rep = r, !.tok = k,
                   !.pc = IF Reused(refresh[k]) THEN "reused" ELSE "rotate",
                   !.org = Scope(refresh[k]), !.family = refresh[k].family,
                   !.era = refresh[k].era]]
    /\ UNCHANGED <<member, refresh, issued, cache, now, era, past, order, alarmed>>

\* an already rotated token: end every live token of its family
RevokeFamily(t) ==
    /\ task[t].pc = "reused"
    /\ refresh' = [k \in Rows |-> IF refresh[k].family = task[t].family
                                  THEN [refresh[k] EXCEPT !.live = FALSE] ELSE refresh[k]]
    /\ alarmed' = alarmed \cup {task[t].family}
    /\ Done(t)
    /\ UNCHANGED <<member, issued, cache, now, era, past, order>>

\* the update is by id: it does not ask whether the token is still live
Rotate(t) ==
    /\ task[t].pc = "rotate"
    /\ refresh' = [refresh EXCEPT ![task[t].tok].live = FALSE]
    /\ IF task[t].org = 0 THEN Done(t) ELSE Goto(t, "current")
    /\ UNCHANGED <<member, issued, cache, now, era, past, order, alarmed>>

\* createSession, once it knows the version: sign, then insert the token
CreateSession(t) ==
    LET x == task[t]
        id == Len(refresh) + 1
    IN  /\ x.pc = "found"
        /\ x.op \in {"login", "refresh", "switched"}
        /\ id <= MaxTokens
        /\ issued' = issued \cup {[org |-> x.org, sv |-> x.live.sv, era |-> x.era]}
        /\ refresh' = Append(refresh, [org |-> x.org, live |-> TRUE, era |-> x.era,
                        family |-> IF x.op = "refresh" THEN x.family ELSE id])
        /\ Done(t)
        /\ UNCHANGED <<member, cache, now, era, past, order, alarmed>>

\* logout: one conditional statement
Logout(k) ==
    /\ "logout" \in Ops
    /\ refresh' = [refresh EXCEPT ![k].live = FALSE]
    /\ UNCHANGED <<member, issued, cache, task, now, era, past, order, alarmed>>

-----------------------------------------------------------------------------
(* Requests that carry an access token, behind RolesGuard *)

\* JwtAuthGuard takes workspace and version from the token; k is the live refresh
\* token of the request's cookie (a dead one counts as none)
Request(t, r, a, op, k) ==
    /\ op \in Ops \cap Guarded
    /\ k # 0 => op = "password" /\ refresh[k].live
    /\ task[t] = Idle
    /\ task' = [task EXCEPT ![t] = [Idle EXCEPT !.op = op, !.pc = "current", !.rep = r,
                   !.org = a.org, !.sv = a.sv, !.tok = k]]
    /\ UNCHANGED <<member, refresh, issued, cache, now, era, past, order, alarmed>>

AdmittedWhateverVersion(x) == x.live # NotMember
Admitted(x) == x.live # NotMember /\ x.live.sv = x.sv

\* RolesGuard.canActivate; an ordinary handler changes nothing of this module
Guard(t) ==
    LET x == task[t]
    IN  /\ x.pc = "found"
        /\ x.op \in Guarded
        /\ IF ~Admitted(x) \/ x.op = "request" THEN Done(t)
           ELSE Goto(t, IF x.op = "switch" THEN "switch" ELSE "bump")
        /\ UNCHANGED <<member, refresh, issued, cache, now, era, past, order, alarmed>>

\* switchOrg: the target's membership is read from the database
SwitchOrg(t, o) ==
    /\ task[t].pc = "switch"
    /\ Len(refresh) < MaxTokens
    /\ task' = [task EXCEPT ![t] = IF o \notin Held THEN Idle
                  ELSE [@ EXCEPT !.op = "switched", !.pc = "current", !.org = o, !.era = era]]
    /\ UNCHANGED <<member, refresh, issued, cache, now, era, past, order, alarmed>>

-----------------------------------------------------------------------------
(* What ends sessions *)

\* PasswordResetService.consume: the password is set, then tokens are revoked
ResetConsumed(t, r) ==
    /\ "reset" \in Ops
    /\ task[t] = Idle
    /\ era < MaxChanges
    /\ task' = [task EXCEPT ![t] = [Idle EXCEPT !.op = "reset", !.pc = "revoke", !.rep = r]]
    /\ UNCHANGED <<member, refresh, issued, cache, now, era, past, order, alarmed>>

\* MembersService.changeRole and remove, by somebody who outranks the person
ChangeRole(t, r, o, role) ==
    /\ "manage" \in Ops
    /\ task[t] = Idle
    /\ o \in Held
    /\ MayChange(o)
    /\ member' = [member EXCEPT ![o] = [role |-> role, sv |-> @.sv + 1]]
    /\ past' = [past EXCEPT ![o] = Ended(o)]
    /\ task' = [task EXCEPT ![t] = [Idle EXCEPT !.op = "manage", !.pc = "invalidate",
                                              !.rep = r, !.org = o]]
    /\ UNCHANGED <<refresh, issued, cache, now, era, order, alarmed>>

Remove(t, r, o) ==
    /\ "manage" \in Ops
    /\ task[t] = Idle
    /\ o \in Held
    /\ MayChange(o)
    /\ member' = [member EXCEPT ![o] = NotMember]
    /\ past' = [past EXCEPT ![o] = Ended(o)]
    /\ task' = [task EXCEPT ![t] = [Idle EXCEPT !.op = "manage", !.pc = "invalidate",
                                              !.rep = r, !.org = o]]
    /\ UNCHANGED <<refresh, issued, cache, now, era, order, alarmed>>

\* accepting a new invitation writes a new row, whose version starts again
Rejoin(o, role) ==
    /\ "manage" \in Ops
    /\ o \notin Held
    /\ MayChange(o)
    /\ member' = [member EXCEPT ![o] = [role |-> role, sv |-> 0]]
    /\ past' = [past EXCEPT ![o] = Ended(o)]
    /\ order' = Append(SelectSeq(order, LAMBDA q : q # o), o)
    /\ UNCHANGED <<refresh, issued, cache, task, now, era, alarmed>>

\* the rows an ending handler revokes: a workspace's, or all but the one kept
Doomed(x) ==
    {k \in Rows : IF x.op = "manage" THEN refresh[k].org = x.org ELSE k # x.tok}

\* revokeSessions, or the transaction of changePassword, or of consume
RevokeSessions(t) ==
    /\ task[t].pc = "revoke"
    /\ refresh' = [k \in Rows |-> IF k \in Doomed(task[t])
                                  THEN [refresh[k] EXCEPT !.live = FALSE]
                                  ELSE [refresh[k] EXCEPT !.era = IF k = task[t].tok
                                                                  THEN era + 1 ELSE @]]
    /\ era' = IF task[t].op = "manage" THEN era ELSE era + 1
    /\ Done(t)
    /\ UNCHANGED <<member, issued, cache, now, past, order, alarmed>>

\* no read takes longer than MaxRead, and code between awaits takes no time
Tick ==
    /\ now < MaxTime
    /\ \A t \in Tasks : /\ task[t].pc # "found"
                        /\ task[t].pc = "fill" => now - task[t].since < MaxRead
    /\ now' = now + 1
    /\ UNCHANGED <<member, refresh, issued, cache, task, era, past, order, alarmed>>

TaskStep(t) ==
    \/ Current(t) \/ FillCache(t) \/ Invalidate(t) \/ Bump(t)
    \/ RevokeFamily(t) \/ Rotate(t) \/ CreateSession(t)
    \/ Guard(t) \/ RevokeSessions(t)
    \/ \E o \in Orgs : SwitchOrg(t, o)

TaskStart(t) ==
    \E r \in Replicas :
        \/ Login(t, r)
        \/ \E k \in Rows : RefreshRead(t, r, k)
        \/ \E a \in issued, op \in Ops, k \in {0} \cup Rows : Request(t, r, a, op, k)
        \/ ResetConsumed(t, r)
        \/ \E o \in Orgs, role \in Roles : ChangeRole(t, r, o, role)
        \/ \E o \in Orgs : Remove(t, r, o)

Next ==
    \/ \E t \in Tasks : TaskStep(t) \/ TaskStart(t)
    \/ \E k \in Rows : Logout(k)
    \/ \E o \in Orgs, role \in Roles : Rejoin(o, role)
    \/ Tick

Spec == Init /\ [][Next]_vars

-----------------------------------------------------------------------------
\* Whoever the guard admits held exactly the version their token carries, and
\* a membership, less than CacheTtl plus one read ago: the bound on how long a
\* demotion, removal, password or MFA change can go unnoticed
\* (membership.service.ts current, roles.guard.ts canActivate).
HeldLately(o, sv) ==
    \/ o \in Held /\ member[o].sv = sv
    \/ \E h \in past[o] : /\ h.row # NotMember /\ h.row.sv = sv
                          /\ now - h.until < CacheTtl + MaxRead

AdmissionIsFresh ==
    \A t \in Tasks :
        task[t].pc = "found" /\ task[t].op \in Guarded /\ Admitted(task[t])
            => HeldLately(task[t].org, task[t].sv)

\* A family with no live token and no rotation under way never gets a live
\* token again: neither a logout nor a reuse alarm can be undone by presenting
\* any of its tokens (auth.service.ts refresh, createSession).
Dead(f) ==
    /\ \A k \in Rows : refresh[k].family = f => ~refresh[k].live
    /\ \A t \in DOMAIN task : task[t].family = f => task[t].pc = "reused"

DeadFamilyStaysDead == [][\A f \in Rows : Dead(f) => Dead(f)']_vars

\* A rotation moves a session to another workspace only if the person lost the
\* membership it was scoped to (auth.service.ts refresh, B-1).
MovedOnlyWhenRemoved ==
    \A k \in Rows :
        LET home == refresh[refresh[k].family].org
        IN  refresh[k].org # home
               => home \notin Held \/ \E h \in past[home] : h.row = NotMember
=============================================================================
