------------------------------ MODULE Members ------------------------------
(***************************************************************************)
(* Who belongs to a workspace (apps/api/src/members, the invitation part   *)
(* of auth/auth.service.ts, the seat limit of billing, and what the team   *)
(* page of apps/web offers).  One workspace, its members and invitations.  *)
(*                                                                         *)
(* Every handler checks what it read and then writes by id, so a step here *)
(* is one statement or one transaction.  A caller's role is the one        *)
(* RolesGuard read when it let the request in (module Sessions bounds how  *)
(* old that may be).  A wrong password or second factor ends acceptance    *)
(* without a write and is a stuttering step.                               *)
(***************************************************************************)
EXTENDS Integers, Sequences, FiniteSets

CONSTANTS
    People,         \* addresses; the first owner is one of them
    Owner,
    Tasks,          \* requests being served at the same time
    NoOne,          \* the value of an unused field
    Grants,         \* roles the instance invites to and changes to
    SeatLimit,      \* limits.seats of the workspace's plan
    MaxInvites,     \* bound: invitations ever created
    MaxRows         \* bound: memberships a person may have had

Rank == [OWNER |-> 4, ADMIN |-> 3, EDITOR |-> 2, VIEWER |-> 1, none |-> 0]

VARIABLES
    row,        \* Membership of each person: role, and which row it is
    account,    \* people who have a User row
    invitation, \* Invitation rows in order of creation
    task,       \* requests in flight
    joined      \* ghost: memberships each invitation has created

vars == <<row, account, invitation, task, joined>>

Idle == [op |-> "none", pc |-> "idle", by |-> NoOne, as |-> "none", of |-> NoOne,
         role |-> "none", id |-> 0, seats |-> 0, seen |-> {}]

Init ==
    /\ row = [p \in People |-> IF p = Owner THEN [role |-> "OWNER", id |-> 1]
                                            ELSE [role |-> "none", id |-> 0]]
    /\ account = {Owner}
    /\ invitation = <<>>
    /\ task = [t \in Tasks |-> Idle]
    /\ joined = <<>>

Member(p) == row[p].role # "none"
Invitations == 1..Len(invitation)
Pending == {i \in Invitations : invitation[i].state = "pending"}

Goto(t, pc) == task' = [task EXCEPT ![t].pc = pc]
Done(t) == task' = [task EXCEPT ![t] = Idle]

-----------------------------------------------------------------------------
(* The checks *)

MinRole(op) == CASE op = "changeRole" -> "OWNER"
                 [] op = "remove" -> "VIEWER"
                 [] OTHER -> "ADMIN"

Grantable(caller, granted) == Rank[granted] < Rank[caller]
Outranks(caller, target) == Rank[target] < Rank[caller]

MayRemove(x) ==
    IF x.of = x.by THEN row[x.of].role # "OWNER"
    ELSE Rank[x.as] >= Rank["ADMIN"] /\ Outranks(x.as, row[x.of].role)

Valid(i) == invitation[i].state = "pending"

\* usage(): memberships and unexpired pending invitations, two counts
SeatsOfMembers == Cardinality({p \in People : Member(p)})
SeatsTaken(t) == task[t].seats + Cardinality(Pending)

-----------------------------------------------------------------------------
(* MembersController and MembersService *)

\* RolesGuard lets the request in with the live role
Enter(t, c, op, p, role) ==
    /\ task[t] = Idle
    /\ op \in {"invite", "changeRole", "remove"}
    /\ Member(c) /\ Rank[row[c].role] >= Rank[MinRole(op)]
    /\ op \in {"invite", "changeRole"} => Grantable(row[c].role, role)
    /\ op = "changeRole" => p # c
    /\ task' = [task EXCEPT ![t] = [Idle EXCEPT !.op = op, !.by = c, !.as = row[c].role,
                  !.of = p, !.role = role, !.pc = IF op = "invite" THEN "count" ELSE "read"]]
    /\ UNCHANGED <<row, account, invitation, joined>>

\* assertWithinLimit counts the members, then the invitations
InviteCount(t) ==
    /\ task[t].pc = "count"
    /\ task' = [task EXCEPT ![t].seats = SeatsOfMembers, ![t].pc = "limit"]
    /\ UNCHANGED <<row, account, invitation, joined>>

InviteLimit(t) ==
    /\ task[t].pc = "limit"
    /\ IF SeatsTaken(t) + 1 > SeatLimit THEN Done(t) ELSE Goto(t, "existing")
    /\ UNCHANGED <<row, account, invitation, joined>>

InviteExisting(t) ==
    /\ task[t].pc = "existing"
    /\ IF Member(task[t].of) THEN Done(t) ELSE Goto(t, "commit")
    /\ UNCHANGED <<row, account, invitation, joined>>

\* the transaction's two statements: what the first sees pending is retired when
\* the second's row appears; an invitation another transaction has not committed
\* yet is not seen (READ COMMITTED)
InviteRetire(t) ==
    /\ task[t].pc = "commit"
    /\ task' = [task EXCEPT ![t].pc = "insert",
                  ![t].seen = {i \in Pending : invitation[i].email = task[t].of}]
    /\ UNCHANGED <<row, account, invitation, joined>>

InviteCreate(t) ==
    LET x == task[t]
        new == [email |-> x.of, role |-> x.role, state |-> "pending"]
    IN  /\ x.pc = "insert"
        /\ Len(invitation) < MaxInvites
        /\ invitation' = Append([i \in Invitations |->
              IF i \in x.seen /\ Valid(i) THEN [invitation[i] EXCEPT !.state = "revoked"]
                                        ELSE invitation[i]], new)
        /\ joined' = Append(joined, 0)
        /\ Done(t)
        /\ UNCHANGED <<row, account>>

\* revokeInvitation reads, and writes revokedAt by id
RevokeRead(t, c, i) ==
    /\ task[t] = Idle
    /\ Rank[row[c].role] >= Rank[MinRole("revoke")]
    /\ invitation[i].state # "accepted"
    /\ task' = [task EXCEPT ![t] = [Idle EXCEPT !.op = "revoke", !.by = c, !.id = i,
                                              !.pc = "write"]]
    /\ UNCHANGED <<row, account, invitation, joined>>

\* a row that was accepted in between carries both stamps: not pending either way
RevokeWrite(t) ==
    LET x == task[t]
    IN  /\ x.op = "revoke" /\ x.pc = "write"
        /\ invitation' = [invitation EXCEPT ![x.id].state =
                            IF @ = "accepted" THEN "accepted" ELSE "revoked"]
        /\ Done(t)
        /\ UNCHANGED <<row, account, joined>>

\* changeRole and remove read the target's row and check it
TargetRead(t) ==
    LET x == task[t]
        allowed == IF x.op = "changeRole" THEN Outranks(x.as, row[x.of].role)
                                          ELSE MayRemove(x)
    IN  /\ x.pc = "read"
        /\ IF Member(x.of) /\ allowed
           THEN task' = [task EXCEPT ![t].pc = "write", ![t].id = row[x.of].id]
           ELSE Done(t)
        /\ UNCHANGED <<row, account, invitation, joined>>

\* update or delete by row id; a row that is gone makes the request fail
ChangeRoleWrite(t) ==
    LET x == task[t]
    IN  /\ x.op = "changeRole" /\ x.pc = "write"
        /\ row' = IF Member(x.of) /\ row[x.of].id = x.id
                  THEN [row EXCEPT ![x.of].role = x.role] ELSE row
        /\ Done(t)
        /\ UNCHANGED <<account, invitation, joined>>

RemoveWrite(t) ==
    LET x == task[t]
    IN  /\ x.op = "remove" /\ x.pc = "write"
        /\ row' = IF Member(x.of) /\ row[x.of].id = x.id
                  THEN [row EXCEPT ![x.of].role = "none"] ELSE row
        /\ Done(t)
        /\ UNCHANGED <<account, invitation, joined>>

-----------------------------------------------------------------------------
(* AuthService: accepting *)

\* acceptInvitation, from validInvitation on
AcceptRead(t, i) ==
    /\ task[t] = Idle
    /\ Valid(i)
    /\ task' = [task EXCEPT ![t] = [Idle EXCEPT !.op = "accept", !.pc = "find", !.id = i,
                  !.of = invitation[i].email, !.role = invitation[i].role]]
    /\ UNCHANGED <<row, account, invitation, joined>>

AcceptFind(t) ==
    LET x == task[t]
    IN  /\ x.op = "accept" /\ x.pc = "find"
        /\ Goto(t, IF x.of \notin account THEN "create"
                   ELSE IF Member(x.of) THEN "mark" ELSE "join")
        /\ UNCHANGED <<row, account, invitation, joined>>

\* a second User row for the address is refused by the unique index
AcceptCreateUser(t) ==
    LET x == task[t]
    IN  /\ x.op = "accept" /\ x.pc = "create"
        /\ IF x.of \in account THEN Done(t) ELSE Goto(t, "join")
        /\ account' = account \cup {x.of}
        /\ UNCHANGED <<row, invitation, joined>>

\* markInvitationAccepted, on the way to "already a member"
AcceptMark(t) ==
    /\ task[t].pc = "mark"
    /\ invitation' = [invitation EXCEPT ![task[t].id].state = "accepted"]
    /\ Done(t)
    /\ UNCHANGED <<row, account, joined>>

Unstamped(i) == invitation
Stamped(i) == [invitation EXCEPT ![i].state = "accepted"]

\* the transaction: a membership, unique per person, and acceptedAt by id
AcceptJoin(t) ==
    LET x == task[t]
    IN  /\ x.op = "accept" /\ x.pc = "join"
        /\ row[x.of].id < MaxRows
        /\ IF Member(x.of)
           THEN UNCHANGED <<row, invitation, joined>>
           ELSE /\ row' = [row EXCEPT ![x.of] = [role |-> x.role, id |-> @.id + 1]]
                /\ invitation' = Stamped(x.id)
                /\ joined' = [joined EXCEPT ![x.id] = @ + 1]
        /\ Done(t)
        /\ UNCHANGED account

\* expiresAt passes
Expire(i) ==
    /\ Valid(i)
    /\ invitation' = [invitation EXCEPT ![i].state = "expired"]
    /\ UNCHANGED <<row, account, task, joined>>

\* register() with a workspace of one's own
Register(p) ==
    /\ p \notin account
    /\ account' = account \cup {p}
    /\ UNCHANGED <<row, invitation, task, joined>>

Step(t) ==
    \/ InviteCount(t) \/ InviteLimit(t) \/ InviteExisting(t) \/ InviteRetire(t)
    \/ InviteCreate(t)
    \/ RevokeWrite(t) \/ TargetRead(t) \/ ChangeRoleWrite(t) \/ RemoveWrite(t)
    \/ AcceptFind(t) \/ AcceptCreateUser(t) \/ AcceptMark(t) \/ AcceptJoin(t)

Start(t) ==
    \/ \E c, p \in People, op \in {"invite", "changeRole"}, role \in Grants :
            Enter(t, c, op, p, role)
    \/ \E c, p \in People : Enter(t, c, "remove", p, "none")
    \/ \E c \in People, i \in Invitations : RevokeRead(t, c, i)
    \/ \E i \in Invitations : AcceptRead(t, i)

Next ==
    \/ \E t \in Tasks : Step(t) \/ Start(t)
    \/ \E i \in Invitations : Expire(i)
    \/ \E p \in People : Register(p)

Spec == Init /\ [][Next]_vars

-----------------------------------------------------------------------------
\* Everybody but the owner came in through an invitation that is recorded as
\* accepted (acceptInvitation's transaction).
MembersWereInvited ==
    \A p \in People \ {Owner} :
        Member(p) => \E i \in Invitations : /\ invitation[i].email = p
                                            /\ invitation[i].state = "accepted"

=============================================================================
