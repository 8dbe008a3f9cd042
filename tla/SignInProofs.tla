---------------------------- MODULE SignInProofs ----------------------------
(***************************************************************************)
(* Proofs about the runs of MCSignIn: every property they check, for any   *)
(* requests, processes, people, limits and bounds.                         *)
(*                                                                         *)
(* The parts share no state, so a step of MCSignIn is a step of at most    *)
(* one instance (the lemmas named Alone), and each property has an         *)
(* inductive invariant over its own instance's variables.                  *)
(***************************************************************************)
EXTENDS MCSignIn, SequenceTheorems, TLAPS

-----------------------------------------------------------------------------
(***************************************************************************)
(* Sessions: what SessionsProofs shows of any instance, for the instance   *)
(* whose part the behaviour is of.                                         *)
(***************************************************************************)
SessionsInv ==
    /\ part = "guard" => Guard!Typed /\ Guard!HomeOrLost /\ Guard!AgesHold
    /\ part = "rotation" => Rotation!Typed /\ Rotation!HomeOrLost
    /\ part \notin {"guard", "rotation"} => Ends!Typed /\ Ends!HomeOrLost

LEMMA SessionsAlone ==
    ASSUME [Next]_vars
    PROVE  /\ part' = part
           /\ part = "guard" => [Guard!Next]_(Guard!vars)
           /\ part = "rotation" => [Rotation!Next]_(Rotation!vars)
           /\ part \notin {"guard", "rotation"} => [Ends!Next]_(Ends!vars)
BY DEF Next, vars, sessionVars, Guard!vars, Rotation!vars, Ends!vars

LEMMA GuardTimes == Guard!Times
BY DEF Guard!Times

LEMMA SessionsInit == Init => SessionsInv
<1> SUFFICES ASSUME Init PROVE SessionsInv
  OBVIOUS
<1>1. CASE part = "guard"
  <2>1. Guard!Init
    BY <1>1 DEF Init
  <2> QED
    BY <1>1, <2>1, Guard!TypedInit, Guard!HomeInit, Guard!AgesInit DEF SessionsInv
<1>2. CASE part = "rotation"
  <2>1. Rotation!Init
    BY <1>2 DEF Init
  <2> QED
    BY <1>2, <2>1, Rotation!TypedInit, Rotation!HomeInit DEF SessionsInv
<1>3. CASE part \notin {"guard", "rotation"}
  <2>1. Ends!Init
    BY <1>3 DEF Init
  <2> QED
    BY <1>3, <2>1, Ends!TypedInit, Ends!HomeInit DEF SessionsInv
<1> QED
  BY <1>1, <1>2, <1>3

LEMMA SessionsStep == SessionsInv /\ [Next]_vars => SessionsInv'
<1> SUFFICES ASSUME SessionsInv, [Next]_vars PROVE SessionsInv'
  OBVIOUS
<1> USE SessionsAlone
<1>1. CASE part = "guard"
  <2>1. Guard!Typed /\ Guard!HomeOrLost /\ Guard!AgesHold /\ [Guard!Next]_(Guard!vars)
    BY <1>1 DEF SessionsInv
  <2>2. Guard!Typed' /\ Guard!StepMoves
    BY <2>1, Guard!Step
  <2> QED
    BY <1>1, <2>1, <2>2, GuardTimes, Guard!HomeStep, Guard!AgesStep DEF SessionsInv
<1>2. CASE part = "rotation"
  <2>1. Rotation!Typed /\ Rotation!HomeOrLost /\ [Rotation!Next]_(Rotation!vars)
    BY <1>2 DEF SessionsInv
  <2>2. Rotation!Typed' /\ Rotation!StepMoves
    BY <2>1, Rotation!Step
  <2> QED
    BY <1>2, <2>1, <2>2, Rotation!HomeStep DEF SessionsInv
<1>3. CASE part \notin {"guard", "rotation"}
  <2>1. Ends!Typed /\ Ends!HomeOrLost /\ [Ends!Next]_(Ends!vars)
    BY <1>3 DEF SessionsInv
  <2>2. Ends!Typed' /\ Ends!StepMoves
    BY <2>1, Ends!Step
  <2> QED
    BY <1>3, <2>1, <2>2, Ends!HomeStep DEF SessionsInv
<1> QED
  BY <1>1, <1>2, <1>3

\* Whoever the guard admits held the version their token carries, and a membership, less than
\* the cache's age and one read ago (membership.service.ts current, roles.guard.ts).
THEOREM FreshlyAdmitted == Spec => []AdmissionIsFresh
<1>1. SessionsInv => AdmissionIsFresh
  BY GuardTimes, Guard!AgesHolds DEF SessionsInv, AdmissionIsFresh
<1> QED
  BY <1>1, SessionsInit, SessionsStep, PTL DEF Spec

\* A rotation moves a session to another workspace only when the person lost the membership
\* it was made for (auth.service.ts refresh).
THEOREM MovedWhenRemoved == Spec => []MovedOnlyWhenRemoved
<1>1. ASSUME SessionsInv PROVE MovedOnlyWhenRemoved
  <2>1. CASE part = "guard"
    <3>1. Guard!HomeOrLost
      BY <1>1, <2>1 DEF SessionsInv
    <3> QED
      BY <3>1 DEF MovedOnlyWhenRemoved, Rotation!MovedOnlyWhenRemoved, Rotation!Rows,
         Rotation!Held, Rotation!NotMember, Guard!HomeOrLost, Guard!HomeOf, Guard!LostRow,
         Guard!NotMember, Guard!Rows
  <2>2. CASE part = "rotation"
    <3>1. Rotation!HomeOrLost
      BY <1>1, <2>2 DEF SessionsInv
    <3> QED
      BY <3>1 DEF MovedOnlyWhenRemoved, Rotation!MovedOnlyWhenRemoved, Rotation!Rows,
         Rotation!Held, Rotation!HomeOrLost, Rotation!HomeOf, Rotation!LostRow
  <2>3. CASE part \notin {"guard", "rotation"}
    <3>1. Ends!HomeOrLost
      BY <1>1, <2>3 DEF SessionsInv
    <3> QED
      BY <3>1 DEF MovedOnlyWhenRemoved, Rotation!MovedOnlyWhenRemoved, Rotation!Rows,
         Rotation!Held, Rotation!NotMember, Ends!HomeOrLost, Ends!HomeOf, Ends!LostRow,
         Ends!NotMember, Ends!Rows
  <2> QED
    BY <2>1, <2>2, <2>3
<1> QED
  BY <1>1, SessionsInit, SessionsStep, PTL DEF Spec

\* A family that ended stays ended, however its tokens are presented (auth.service.ts refresh,
\* logout, createSession).
THEOREM EndedForGood == Spec => DeadFamilyStaysDead
<1>1. ASSUME SessionsInv, SessionsInv', [Next]_vars
      PROVE  [\A f \in Ends!Rows : Ends!Dead(f) => Ends!Dead(f)']_(Ends!vars)
  <2> USE SessionsAlone
  <2>1. CASE part = "guard"
    <3>1. Guard!Typed /\ Guard!Typed' /\ Guard!StepMoves
      BY <1>1, <2>1, Guard!Step DEF SessionsInv
    <3>2. \A f \in Guard!Rows : Guard!Dead(f) => Guard!Dead(f)'
      BY <3>1, Guard!DeadStays
    <3> QED
      BY <3>2 DEF Guard!Rows, Guard!Dead, Ends!Rows, Ends!Dead
  <2>2. CASE part = "rotation"
    <3>1. Rotation!Typed /\ Rotation!Typed' /\ Rotation!StepMoves
      BY <1>1, <2>2, Rotation!Step DEF SessionsInv
    <3>2. \A f \in Rotation!Rows : Rotation!Dead(f) => Rotation!Dead(f)'
      BY <3>1, Rotation!DeadStays
    <3> QED
      BY <3>2 DEF Rotation!Rows, Rotation!Dead, Ends!Rows, Ends!Dead
  <2>3. CASE part \notin {"guard", "rotation"}
    <3>1. Ends!Typed /\ Ends!Typed' /\ Ends!StepMoves
      BY <1>1, <2>3, Ends!Step DEF SessionsInv
    <3> QED
      BY <3>1, Ends!DeadStays
  <2> QED
    BY <2>1, <2>2, <2>3
<1> QED
  BY <1>1, SessionsInit, SessionsStep, PTL
     DEF Spec, DeadFamilyStaysDead, Ends!DeadFamilyStaysDead

-----------------------------------------------------------------------------
(***************************************************************************)
(* Members: an invitation that was accepted stays accepted, and whoever    *)
(* joins joins through one that carries their address.                     *)
(***************************************************************************)
TeamAddresses == Others \cup {"owner"}
InvitationStates == {"pending", "revoked", "accepted", "expired"}
InvitationRow == [email : TeamAddresses, role : Grants, state : InvitationStates]
MembershipRow == [role : Grants \cup {"OWNER", "none"}, id : Nat]

Accepted(p) == \E i \in Team!Invitations : /\ invitation[i].email = p
                                           /\ invitation[i].state = "accepted"

SeatCounts == {0} \cup {Team!Cardinality(P) : P \in SUBSET TeamAddresses}

TeamTask ==
    [op : {"none", "invite", "changeRole", "remove", "revoke", "accept"},
     pc : {"idle", "count", "limit", "existing", "commit", "insert", "read", "write", "find",
           "create", "mark", "join"},
     by : TeamAddresses \cup {"noone"}, as : Grants \cup {"OWNER", "none"},
     of : TeamAddresses \cup {"noone"}, role : Grants \cup {"none"},
     id : Nat, seats : SeatCounts, seen : SUBSET Nat]

Inviting == {"count", "limit", "existing", "commit", "insert"}

Aimed(x) ==
    /\ x.pc \in Inviting => x.op = "invite" /\ x.role \in Grants /\ x.of \in TeamAddresses
    /\ x.pc = "read" => x.op # "accept" /\ x.of \in TeamAddresses

TeamTyped ==
    /\ invitation \in Seq(InvitationRow)
    /\ row \in [TeamAddresses -> MembershipRow]
    /\ handling \in [Tasks -> TeamTask]
    /\ \A t \in Tasks : Aimed(handling[t])

\* an acceptance under way is of an invitation to its own address
AcceptsOwn ==
    \A t \in Tasks :
        handling[t].op = "accept" => /\ handling[t].id \in Team!Invitations
                                     /\ invitation[handling[t].id].email = handling[t].of

TeamInv == TeamTyped /\ AcceptsOwn /\ MembersWereInvited

LEMMA TeamAlone == [Next]_vars => [Team!Next]_(Team!vars)
BY DEF Next, vars, teamVars, Team!vars

\* what a step may do to the invitations
Grows ==
    \A i \in Team!Invitations :
        /\ i \in Team!Invitations'
        /\ invitation'[i].email = invitation[i].email
        /\ invitation[i].state = "accepted" => invitation'[i].state = "accepted"

LEMMA TeamInit == Init => TeamInv
<1> SUFFICES ASSUME Init PROVE TeamInv
  OBVIOUS
<1>1. Team!Init
  BY DEF Init
<1>2. Team!Idle \in TeamTask /\ Team!Idle.op = "none" /\ Aimed(Team!Idle)
  BY DEF Team!Idle, TeamTask, SeatCounts, Aimed, Inviting
<1>3. invitation \in Seq(InvitationRow)
  BY <1>1 DEF Team!Init
<1> QED
  BY <1>1, <1>2, <1>3 DEF Team!Init, TeamInv, TeamTyped, AcceptsOwn, MembersWereInvited,
     Team!MembersWereInvited, Team!Member, TeamAddresses, MembershipRow

LEMMA InvitationNumbers == TeamTyped => Team!Invitations \subseteq Nat
BY LenProperties DEF TeamTyped, Team!Invitations

LEMMA InvitationTyped ==
    TeamTyped => \A i \in Team!Invitations : invitation[i] \in InvitationRow
BY ElementOfSeq DEF TeamTyped, Team!Invitations

\* the request t becomes y
TeamTurn(t, y) ==
    /\ y \in TeamTask /\ Aimed(y)
    /\ handling' = [handling EXCEPT ![t] = y]
    /\ y.op = "accept" => /\ y.id \in Team!Invitations
                          /\ invitation[y.id].email = y.of

LEMMA TeamTurns ==
    ASSUME TeamInv, Grows, NEW t \in Tasks, NEW y, TeamTurn(t, y),
           invitation' \in Seq(InvitationRow), row' \in [TeamAddresses -> MembershipRow],
           \A p \in TeamAddresses \ {"owner"} :
               row'[p].role # "none" => row[p].role # "none" \/ Accepted(p)'
    PROVE  TeamInv'
<1>1. /\ handling' \in [Tasks -> TeamTask] /\ AcceptsOwn'
      /\ \A u \in Tasks : Aimed(handling'[u])
  BY DEF TeamInv, TeamTyped, TeamTurn, AcceptsOwn, Grows
<1>2. \A p : Accepted(p) => Accepted(p)'
  BY DEF Accepted, Grows
<1>3. MembersWereInvited'
  BY <1>2 DEF TeamInv, MembersWereInvited, Team!MembersWereInvited, Team!Member, Accepted,
     TeamAddresses
<1> QED
  BY <1>1, <1>3 DEF TeamInv, TeamTyped

LEMMA TeamOnlyTurns ==
    ASSUME TeamInv, NEW t \in Tasks, NEW y, TeamTurn(t, y), UNCHANGED <<invitation, row>>
    PROVE  TeamInv'
<1>1. Grows
  BY DEF Grows, Team!Invitations
<1> QED
  BY <1>1, TeamTurns DEF TeamInv, TeamTyped

LEMMA TeamDone ==
    ASSUME TeamInv, NEW t \in Tasks, Team!Done(t)
    PROVE  TeamTurn(t, Team!Idle)
BY DEF TeamTurn, Team!Done, Team!Idle, TeamTask, SeatCounts, Aimed, Inviting

LEMMA TeamGoto ==
    ASSUME TeamInv, NEW t \in Tasks, NEW pc, Team!Goto(t, pc),
           \/ pc \in {"existing", "commit"} /\ handling[t].pc \in Inviting
           \/ pc \in {"create", "mark", "join"}
    PROVE  \E y : TeamTurn(t, y)
<1> DEFINE x == handling[t]
           y == [x EXCEPT !.pc = pc]
<1>1. x \in TeamTask
  BY DEF TeamInv, TeamTyped
<1>2. y \in TeamTask /\ y.op = x.op /\ y.id = x.id /\ y.of = x.of /\ Aimed(y)
  BY <1>1 DEF TeamTask, Aimed, Inviting, TeamInv, TeamTyped
<1>3. handling' = [handling EXCEPT ![t] = y]
  BY DEF Team!Goto
<1> HIDE DEF y
<1> QED
  BY <1>2, <1>3 DEF TeamTurn, TeamInv, AcceptsOwn

\* one invitation's state
LEMMA OneInvitation ==
    ASSUME TeamInv, NEW i, NEW state \in InvitationStates,
           i \in Team!Invitations /\ invitation[i].state = "accepted" => state = "accepted",
           invitation' = [invitation EXCEPT ![i].state = state]
    PROVE  invitation' \in Seq(InvitationRow) /\ Grows
<1>1. /\ invitation \in [Team!Invitations -> InvitationRow]
      /\ Len(invitation) \in Nat /\ Team!Invitations = 1..Len(invitation)
  BY LenProperties DEF TeamInv, TeamTyped, Team!Invitations
<1>2. ASSUME NEW j \in Team!Invitations
      PROVE  /\ [invitation[j] EXCEPT !.state = state] \in InvitationRow
             /\ [invitation[j] EXCEPT !.state = state].email = invitation[j].email
             /\ [invitation[j] EXCEPT !.state = state].state = state
  BY <1>1 DEF InvitationRow
<1>3. /\ invitation' \in [Team!Invitations -> InvitationRow]
      /\ \A j \in Team!Invitations :
            invitation'[j] = IF j = i THEN [invitation[j] EXCEPT !.state = state]
                                      ELSE invitation[j]
  BY <1>1, <1>2
<1>4. invitation' \in Seq(InvitationRow) /\ Len(invitation') = Len(invitation)
  BY <1>1, <1>3, SeqDef, LenProperties
<1> QED
  BY <1>1, <1>2, <1>3, <1>4 DEF Grows, Team!Invitations

LEMMA EnterStep ==
    ASSUME TeamInv, NEW t \in Tasks, NEW c \in TeamAddresses, NEW p \in TeamAddresses, NEW op,
           NEW role \in Grants \cup {"none"}, role \in Grants \/ op = "remove",
           Team!Enter(t, c, op, p, role)
    PROVE  TeamInv'
<1> DEFINE y == [Team!Idle EXCEPT !.op = op, !.by = c, !.as = row[c].role,
                   !.of = p, !.role = role, !.pc = IF op = "invite" THEN "count" ELSE "read"]
<1>1. row[c].role \in Grants \cup {"OWNER", "none"} /\ op \in {"invite", "changeRole", "remove"}
  BY DEF TeamInv, TeamTyped, MembershipRow, Team!Enter
<1>2. y \in TeamTask /\ y.op = op /\ Aimed(y)
  BY <1>1 DEF TeamTask, Team!Idle, SeatCounts, Aimed, Inviting
<1>3. handling' = [handling EXCEPT ![t] = y] /\ UNCHANGED <<invitation, row>>
  BY DEF Team!Enter
<1> HIDE DEF y
<1> QED
  BY <1>1, <1>2, <1>3, TeamOnlyTurns DEF TeamTurn

LEMMA InviteCountStep ==
    ASSUME TeamInv, NEW t \in Tasks, Team!InviteCount(t)
    PROVE  TeamInv'
<1> DEFINE x == handling[t]
           y == [x EXCEPT !.seats = Team!SeatsOfMembers, !.pc = "limit"]
<1>1. x \in TeamTask
  BY DEF TeamInv, TeamTyped
<1>2. y.op = x.op /\ y.id = x.id /\ y.of = x.of /\ Aimed(y) /\ x.pc = "count"
  BY <1>1 DEF TeamTask, Team!InviteCount, Aimed, Inviting, TeamInv, TeamTyped
<1>3. handling' = [handling EXCEPT ![t] = y] /\ UNCHANGED <<invitation, row>>
  BY DEF Team!InviteCount
<1>4. y \in TeamTask
  <2>1. Team!SeatsOfMembers \in SeatCounts
    BY DEF Team!SeatsOfMembers, SeatCounts, TeamAddresses
  <2> QED
    BY <1>1, <2>1 DEF TeamTask
<1> HIDE DEF y
<1> QED
  BY <1>2, <1>3, <1>4, TeamOnlyTurns DEF TeamTurn, TeamInv, AcceptsOwn

LEMMA InviteRetireStep ==
    ASSUME TeamInv, NEW t \in Tasks, Team!InviteRetire(t)
    PROVE  TeamInv'
<1> DEFINE x == handling[t]
           seen == {i \in Team!Pending : invitation[i].email = x.of}
           y == [x EXCEPT !.pc = "insert", !.seen = seen]
<1>1. x \in TeamTask
  BY DEF TeamInv, TeamTyped
<1>2. seen \in SUBSET Nat
  BY InvitationNumbers DEF TeamInv, Team!Pending
<1>3. handling' = [handling EXCEPT ![t] = y] /\ UNCHANGED <<invitation, row>>
  BY DEF Team!InviteRetire
<1> HIDE DEF seen
<1>4. y \in TeamTask /\ y.op = x.op /\ y.id = x.id /\ y.of = x.of /\ Aimed(y)
  BY <1>1, <1>2 DEF TeamTask, Aimed, Inviting, TeamInv, TeamTyped, Team!InviteRetire
<1> HIDE DEF y
<1> QED
  BY <1>3, <1>4, TeamOnlyTurns DEF TeamTurn, TeamInv, AcceptsOwn

LEMMA TargetReadStep ==
    ASSUME TeamInv, NEW t \in Tasks, Team!TargetRead(t)
    PROVE  TeamInv'
<1> DEFINE x == handling[t]
           y == [x EXCEPT !.pc = "write", !.id = row[x.of].id]
<1>1. x \in TeamTask /\ UNCHANGED <<invitation, row>>
  BY DEF TeamInv, TeamTyped, Team!TargetRead
<1>2. CASE Team!Done(t)
  BY <1>1, <1>2, TeamDone, TeamOnlyTurns
<1>3. CASE handling' = [handling EXCEPT ![t] = y]
  <2>1. x.op # "accept" /\ row[x.of].id \in Nat
    BY DEF Team!TargetRead, TeamInv, TeamTyped, Aimed, MembershipRow
  <2>2. y \in TeamTask /\ y.op = x.op /\ Aimed(y)
    BY <1>1, <2>1 DEF TeamTask, Aimed, Inviting
  <2> HIDE DEF y
  <2> QED
    BY <1>1, <1>3, <2>1, <2>2, TeamOnlyTurns DEF TeamTurn
<1> QED
  BY <1>2, <1>3 DEF Team!TargetRead

LEMMA InviteCreateStep ==
    ASSUME TeamInv, NEW t \in Tasks, Team!InviteCreate(t)
    PROVE  TeamInv'
<1> DEFINE x == handling[t]
           new == [email |-> x.of, role |-> x.role, state |-> "pending"]
           old == [i \in Team!Invitations |->
                     IF i \in x.seen /\ Team!Valid(i)
                     THEN [invitation[i] EXCEPT !.state = "revoked"] ELSE invitation[i]]
<1>1. /\ invitation' = Append(old, new) /\ Team!Done(t) /\ UNCHANGED row
      /\ x \in TeamTask /\ x.role \in Grants /\ x.of \in TeamAddresses
  BY DEF Team!InviteCreate, TeamInv, TeamTyped, Aimed, Inviting
<1>2. new \in InvitationRow
  BY <1>1 DEF InvitationRow, InvitationStates
<1>3. Len(invitation) \in Nat /\ Team!Invitations = 1..Len(invitation)
  BY LenProperties DEF TeamInv, TeamTyped, Team!Invitations
<1>4. ASSUME NEW i \in Team!Invitations
      PROVE  /\ old[i] \in InvitationRow /\ old[i].email = invitation[i].email
             /\ invitation[i].state = "accepted" => old[i].state = "accepted"
  <2>1. invitation[i] \in InvitationRow
    BY ElementOfSeq DEF TeamInv, TeamTyped, Team!Invitations
  <2> QED
    BY <2>1 DEF InvitationRow, InvitationStates, Team!Valid
<1>5. old \in [1..Len(invitation) -> InvitationRow]
  BY <1>3, <1>4
<1>6. old \in Seq(InvitationRow) /\ Len(old) = Len(invitation)
  BY <1>3, <1>5, SeqDef, LenProperties
<1> HIDE DEF old, new
<1>7. /\ invitation' \in Seq(InvitationRow) /\ Len(invitation') = Len(invitation) + 1
      /\ \A i \in 1..Len(invitation) : invitation'[i] = old[i]
  BY <1>1, <1>2, <1>6, AppendProperties
<1>8. Grows
  BY <1>3, <1>4, <1>7 DEF Grows, Team!Invitations
<1> QED
  BY <1>1, <1>7, <1>8, TeamDone, TeamTurns DEF TeamInv, TeamTyped

LEMMA MembershipWrites ==
    ASSUME TeamInv, NEW t \in Tasks, Team!ChangeRoleWrite(t) \/ Team!RemoveWrite(t)
    PROVE  TeamInv'
<1> DEFINE x == handling[t]
<1>1. x \in TeamTask /\ Team!Done(t) /\ invitation' = invitation
  BY DEF TeamInv, TeamTyped, Team!ChangeRoleWrite, Team!RemoveWrite
<1>2. PICK role \in Grants \cup {"none"} :
         row' = IF Team!Member(x.of) /\ row[x.of].id = x.id
                THEN [row EXCEPT ![x.of].role = role] ELSE row
  BY <1>1 DEF Team!ChangeRoleWrite, Team!RemoveWrite, TeamTask
<1>3. /\ row' \in [TeamAddresses -> MembershipRow]
      /\ \A p \in TeamAddresses : row'[p].role # "none" => row[p].role # "none"
  BY <1>2 DEF TeamInv, TeamTyped, MembershipRow, Team!Member
<1>4. Grows /\ invitation' \in Seq(InvitationRow)
  BY <1>1 DEF Grows, Team!Invitations, TeamInv, TeamTyped
<1> QED
  BY <1>1, <1>3, <1>4, TeamDone, TeamTurns

LEMMA RevokeReadStep ==
    ASSUME TeamInv, NEW t \in Tasks, NEW c \in TeamAddresses, NEW i \in Team!Invitations,
           Team!RevokeRead(t, c, i)
    PROVE  TeamInv'
<1> DEFINE y == [Team!Idle EXCEPT !.op = "revoke", !.by = c, !.id = i, !.pc = "write"]
<1>1. i \in Nat
  BY InvitationNumbers DEF TeamInv
<1>2. y \in TeamTask /\ y.op = "revoke" /\ Aimed(y)
  BY <1>1 DEF TeamTask, Team!Idle, SeatCounts, Aimed, Inviting
<1>3. handling' = [handling EXCEPT ![t] = y] /\ UNCHANGED <<invitation, row>>
  BY DEF Team!RevokeRead
<1> HIDE DEF y
<1> QED
  BY <1>2, <1>3, TeamOnlyTurns DEF TeamTurn

LEMMA AcceptReadStep ==
    ASSUME TeamInv, NEW t \in Tasks, NEW i \in Team!Invitations, Team!AcceptRead(t, i)
    PROVE  TeamInv'
<1> DEFINE y == [Team!Idle EXCEPT !.op = "accept", !.pc = "find", !.id = i,
                  !.of = invitation[i].email, !.role = invitation[i].role]
<1>1. i \in Nat /\ invitation[i] \in InvitationRow
  BY InvitationNumbers, ElementOfSeq DEF TeamInv, TeamTyped, Team!Invitations
<1>2. y \in TeamTask /\ y.op = "accept" /\ y.id = i /\ y.of = invitation[i].email
      /\ Aimed(y)
  BY <1>1 DEF TeamTask, Team!Idle, InvitationRow, SeatCounts, Aimed, Inviting
<1>3. handling' = [handling EXCEPT ![t] = y] /\ UNCHANGED <<invitation, row>>
  BY DEF Team!AcceptRead
<1> HIDE DEF y
<1> QED
  BY <1>2, <1>3, TeamOnlyTurns DEF TeamTurn

\* the statements that write one invitation's state by id
LEMMA StateWrites ==
    ASSUME TeamInv, NEW t \in Tasks, Team!RevokeWrite(t) \/ Team!AcceptMark(t)
    PROVE  TeamInv'
<1> DEFINE i == handling[t].id
<1>1. Team!Done(t) /\ row' = row
  BY DEF Team!RevokeWrite, Team!AcceptMark
<1>2. PICK state \in InvitationStates :
         /\ i \in Team!Invitations /\ invitation[i].state = "accepted" => state = "accepted"
         /\ invitation' = [invitation EXCEPT ![i].state = state]
  <2>1. CASE Team!AcceptMark(t)
    BY <2>1 DEF Team!AcceptMark, InvitationStates
  <2>2. CASE Team!RevokeWrite(t) /\ invitation[i].state = "accepted"
    BY <2>2 DEF Team!RevokeWrite, InvitationStates
  <2>3. CASE Team!RevokeWrite(t) /\ invitation[i].state # "accepted"
    BY <2>3 DEF Team!RevokeWrite, InvitationStates
  <2> QED
    BY <2>1, <2>2, <2>3
<1> QED
  BY <1>1, <1>2, OneInvitation, TeamDone, TeamTurns DEF TeamInv, TeamTyped

\* the membership comes with the acceptance of the invitation it was made from
LEMMA AcceptJoinStep ==
    ASSUME TeamInv, NEW t \in Tasks, Team!AcceptJoin(t)
    PROVE  TeamInv'
<1> DEFINE x == handling[t]
<1>1. /\ x \in TeamTask /\ x.op = "accept" /\ Team!Done(t)
      /\ x.id \in Team!Invitations /\ invitation[x.id].email = x.of
  BY DEF Team!AcceptJoin, TeamInv, TeamTyped, AcceptsOwn
<1>2. CASE Team!Member(x.of)
  BY <1>1, <1>2, TeamDone, TeamOnlyTurns DEF Team!AcceptJoin
<1>3. CASE ~Team!Member(x.of)
  <2>1. /\ row' = [row EXCEPT ![x.of] = [role |-> x.role, id |-> row[x.of].id + 1]]
        /\ invitation' = [invitation EXCEPT ![x.id].state = "accepted"]
    BY <1>3 DEF Team!AcceptJoin, Team!Stamped
  <2>2. invitation' \in Seq(InvitationRow) /\ Grows
    BY <2>1, OneInvitation DEF InvitationStates
  <2>3. x.of \in TeamAddresses
    BY <1>1, InvitationTyped DEF TeamInv, InvitationRow
  <2>4. row' \in [TeamAddresses -> MembershipRow]
        /\ \A p \in TeamAddresses : p # x.of => row'[p] = row[p]
    BY <1>1, <2>1, <2>3 DEF TeamInv, TeamTyped, MembershipRow, TeamTask
  <2>5. invitation'[x.id].state = "accepted"
    BY <1>1, <2>1, LenProperties DEF TeamInv, TeamTyped, Team!Invitations, InvitationRow
  <2>6. ASSUME NEW p, p = x.of
        PROVE  Accepted(p)'
    BY <1>1, <2>2, <2>5, <2>6 DEF Grows, Accepted
  <2> QED
    BY <1>1, <2>2, <2>4, <2>6, TeamDone, TeamTurns
<1> QED
  BY <1>2, <1>3

LEMMA ExpireStep ==
    ASSUME TeamInv, NEW i \in Team!Invitations, Team!Expire(i)
    PROVE  TeamInv'
<1>1. invitation' \in Seq(InvitationRow) /\ Grows
  BY OneInvitation DEF Team!Expire, Team!Valid, InvitationStates
<1>2. UNCHANGED <<row, handling>>
  BY DEF Team!Expire
<1> QED
  BY <1>1, <1>2 DEF TeamInv, TeamTyped, AcceptsOwn, Grows, MembersWereInvited,
     Team!MembersWereInvited, Team!Member

LEMMA GotoSteps ==
    ASSUME TeamInv, NEW t \in Tasks,
           Team!InviteLimit(t) \/ Team!InviteExisting(t) \/ Team!AcceptFind(t)
              \/ Team!AcceptCreateUser(t)
    PROVE  TeamInv'
<1>1. UNCHANGED <<invitation, row>>
  BY DEF Team!InviteLimit, Team!InviteExisting, Team!AcceptFind, Team!AcceptCreateUser
<1>2. CASE Team!Done(t)
  BY <1>1, <1>2, TeamDone, TeamOnlyTurns
<1>3. ASSUME NEW pc, Team!Goto(t, pc),
             \/ pc \in {"existing", "commit"} /\ handling[t].pc \in Inviting
             \/ pc \in {"create", "mark", "join"}
      PROVE  TeamInv'
  BY <1>1, <1>3, TeamGoto, TeamOnlyTurns
<1> QED
  BY <1>2, <1>3 DEF Team!InviteLimit, Team!InviteExisting, Team!AcceptFind,
     Team!AcceptCreateUser, Inviting

LEMMA TeamStep == TeamInv /\ [Next]_vars => TeamInv'
<1> SUFFICES ASSUME TeamInv, [Team!Next]_(Team!vars) PROVE TeamInv'
  BY TeamAlone
<1>1. CASE UNCHANGED Team!vars
  BY <1>1 DEF Team!vars, TeamInv, TeamTyped, AcceptsOwn, MembersWereInvited, Team!Invitations,
     Team!MembersWereInvited, Team!Member
<1>2. ASSUME NEW t \in Tasks, Team!Step(t)
      PROVE  TeamInv'
  BY <1>2, InviteCountStep, InviteRetireStep, InviteCreateStep, TargetReadStep,
     MembershipWrites, StateWrites, AcceptJoinStep, GotoSteps DEF Team!Step
<1>3. ASSUME NEW t \in Tasks, Team!Start(t)
      PROVE  TeamInv'
  BY <1>3, EnterStep, RevokeReadStep, AcceptReadStep DEF Team!Start, TeamAddresses
<1>4. ASSUME NEW p \in TeamAddresses, Team!Register(p)
      PROVE  TeamInv'
  BY <1>4 DEF Team!Register, TeamInv, TeamTyped, AcceptsOwn, MembersWereInvited,
     Team!Invitations, Team!MembersWereInvited, Team!Member
<1> QED
  BY <1>1, <1>2, <1>3, <1>4, ExpireStep DEF Team!Next, TeamAddresses

\* Everybody but the owner came in through an invitation that is recorded as accepted
\* (auth.service.ts acceptInvitation, members.service.ts).
THEOREM EveryoneWasInvited == Spec => []MembersWereInvited
BY TeamInit, TeamStep, PTL DEF Spec, TeamInv

-----------------------------------------------------------------------------
(***************************************************************************)
(* The second factor: a code that was taken is remembered for as long as   *)
(* it would be accepted, and a recovery code that was redeemed is marked.  *)
(***************************************************************************)
FactorTyped ==
    /\ step \in Nat /\ sets \in Nat
    /\ consumed = [r \in Keepers |-> consumed[r]]
    /\ \A r \in Keepers : \A x \in consumed[r] : x.until \in Int
    /\ codes \subseteq [set : Nat, n : 1..CodeCount, used : BOOLEAN]

RemembersTaken ==
    \A r \in Keepers : \A c :
        <<r, c>> \in taken =>
            /\ c.step \in Int
            /\ c.step + 1 >= step =>
                  \E x \in consumed[r] : x.totp = c /\ x.until > c.step + 1

MarksRedeemed ==
    /\ \A d \in codes : d.set <= sets
    /\ \A c \in redeemed : c.set \in Nat /\ c.set <= sets
    /\ \A d \in codes : Factor!Id(d) \in redeemed => d.used

FactorInv ==
    FactorTyped /\ RemembersTaken /\ MarksRedeemed /\ EachCodeWorksOnce

LEMMA FactorAlone == [Next]_vars => [Factor!Next]_(Factor!vars)
BY DEF Next, vars, mfaVars, Factor!vars, Factor!row, Factor!person, Factor!ghosts,
   Factor!spending

LEMMA FactorInit == Init => FactorInv
BY DEF Init, Factor!Init, FactorInv, FactorTyped, RemembersTaken, MarksRedeemed,
   EachCodeWorksOnce, Factor!EachCodeWorksOnce

\* the variables the invariant speaks of
Codes == <<step, sets, consumed, codes, taken, replayed, redeemed, respent>>

LEMMA CodesStand == FactorInv /\ UNCHANGED Codes => FactorInv'
BY DEF Codes, FactorInv, FactorTyped, RemembersTaken, MarksRedeemed, EachCodeWorksOnce,
   Factor!EachCodeWorksOnce, Factor!Id

\* a code is taken
LEMMA TakesCode ==
    ASSUME FactorInv, NEW r \in Keepers, NEW stored, NEW c, Factor!Accepts(r, stored, c),
           Factor!Consume(r, c), UNCHANGED <<step, sets, codes, redeemed, respent>>
    PROVE  FactorInv'
<1> DEFINE mark == [totp |-> c, until |-> step + Window]
           still == Factor!Remembered(r)
<1>1. step \in Nat /\ c.step \in (step - 1)..(step + 1) /\ \A x \in still : x.totp # c
  BY DEF FactorInv, FactorTyped, Factor!Accepts
<1>2. /\ consumed' = [consumed EXCEPT ![r] = still \cup {mark}]
      /\ taken' = taken \cup {<<r, c>>}
      /\ replayed' = (replayed \/ <<r, c>> \in taken)
  BY DEF Factor!Consume, Factor!Until
<1>3. /\ still \subseteq consumed[r] /\ \A x \in consumed[r] : x.until > step => x \in still
      /\ mark.until = step + Window /\ mark.totp = c
  BY DEF Factor!Remembered
<1> HIDE DEF still, mark
<1>4. /\ consumed' = [s \in Keepers |-> consumed'[s]]
      /\ \A s \in Keepers : consumed'[s] = IF s = r THEN still \cup {mark} ELSE consumed[s]
  BY <1>2 DEF FactorInv, FactorTyped
<1>5. c.step \in Int /\ c.step + 1 >= step /\ mark.until \in Int /\ mark.until > c.step + 1
  BY <1>1, <1>3, WindowAssumption
<1>6. <<r, c>> \notin taken
  <2>1. SUFFICES ASSUME <<r, c>> \in taken PROVE FALSE
    OBVIOUS
  <2>2. PICK x \in consumed[r] : x.totp = c /\ x.until > c.step + 1
    BY <1>5, <2>1 DEF FactorInv, RemembersTaken
  <2>3. x.until > step
    BY <1>1, <1>5, <2>2 DEF FactorInv, FactorTyped
  <2> QED
    BY <1>1, <1>3, <2>2, <2>3
<1>7. FactorTyped'
  BY <1>3, <1>4, <1>5 DEF FactorInv, FactorTyped
<1>8. RemembersTaken'
  <2> SUFFICES ASSUME NEW s \in Keepers, NEW d, <<s, d>> \in taken'
               PROVE  /\ d.step \in Int
                      /\ d.step + 1 >= step' =>
                            \E x \in consumed'[s] : x.totp = d /\ x.until > d.step + 1
    BY DEF RemembersTaken
  <2>1. CASE <<s, d>> = <<r, c>>
    BY <1>3, <1>4, <1>5, <2>1
  <2>2. CASE <<s, d>> \in taken
    <3>1. d.step \in Int /\ (d.step + 1 >= step =>
                               \E x \in consumed[s] : x.totp = d /\ x.until > d.step + 1)
      BY <2>2 DEF FactorInv, RemembersTaken
    <3>2. ASSUME d.step + 1 >= step, NEW x \in consumed[s], x.totp = d, x.until > d.step + 1
          PROVE  x \in consumed'[s]
      <4>1. x.until > step
        BY <1>1, <3>1, <3>2 DEF FactorInv, FactorTyped
      <4> QED
        BY <1>3, <1>4, <4>1
    <3> QED
      BY <3>1, <3>2
  <2> QED
    BY <1>2, <2>1, <2>2
<1>9. MarksRedeemed' /\ EachCodeWorksOnce'
  BY <1>2, <1>6 DEF FactorInv, MarksRedeemed, EachCodeWorksOnce, Factor!EachCodeWorksOnce,
     Factor!Id
<1> QED
  BY <1>7, <1>8, <1>9 DEF FactorInv

LEMMA IssueStep ==
    ASSUME FactorInv, NEW t \in Tasks, Factor!RegenerateIssue(t)
    PROVE  FactorInv'
<1> DEFINE new == {[set |-> sets + 1, n |-> i, used |-> FALSE] : i \in 1..CodeCount}
<1>1. sets \in Nat /\ sets' = sets + 1 /\ codes' \subseteq codes \cup new
  BY DEF FactorInv, FactorTyped, Factor!RegenerateIssue
<1>2. \A d \in new : d \in [set : Nat, n : 1..CodeCount, used : BOOLEAN] /\ d.set = sets + 1
  <2>1. sets + 1 \in Nat
    BY <1>1
  <2>2. ASSUME NEW d \in new
        PROVE  d \in [set : Nat, n : 1..CodeCount, used : BOOLEAN] /\ d.set = sets + 1
    <3>1. PICK i \in 1..CodeCount : d = [set |-> sets + 1, n |-> i, used |-> FALSE]
      OBVIOUS
    <3> QED
      BY <2>1, <3>1
  <2> QED
    BY <2>2
<1>3. \A d \in codes : d.set \in Nat
  BY DEF FactorInv, FactorTyped
<1>4. UNCHANGED <<step, consumed, taken, replayed, redeemed, respent>>
  BY DEF Factor!RegenerateIssue, Factor!ghosts, Factor!spending
<1> HIDE DEF new
<1>5. FactorTyped' /\ RemembersTaken' /\ EachCodeWorksOnce'
  BY <1>1, <1>2, <1>4 DEF FactorInv, FactorTyped, RemembersTaken, EachCodeWorksOnce,
     Factor!EachCodeWorksOnce
<1>6. MarksRedeemed'
  <2>1. \A d \in codes' : d.set <= sets'
    BY <1>1, <1>2, <1>3 DEF FactorInv, MarksRedeemed
  <2>2. \A c \in redeemed' : c.set \in Nat /\ c.set <= sets'
    BY <1>1, <1>4 DEF FactorInv, MarksRedeemed
  <2>3. ASSUME NEW d \in new, Factor!Id(d) \in redeemed
        PROVE  FALSE
    BY <1>1, <1>2, <2>3 DEF FactorInv, MarksRedeemed, Factor!Id
  <2>4. \A d \in codes' : Factor!Id(d) \in redeemed => d.used
    BY <1>1, <2>3 DEF FactorInv, MarksRedeemed
  <2> QED
    BY <1>4, <2>1, <2>2, <2>4 DEF MarksRedeemed, Factor!Id
<1> QED
  BY <1>5, <1>6 DEF FactorInv

LEMMA SpendStep ==
    ASSUME FactorInv, NEW t \in Tasks, Factor!RedeemSpend(t)
    PROVE  FactorInv'
<1> DEFINE c == mfaTask[t].code
<1>1. UNCHANGED <<step, sets, consumed, taken, replayed>>
  BY DEF Factor!RedeemSpend, Factor!ghosts
<1>2. CASE ~Factor!StillUnused(c)
  BY <1>1, <1>2, CodesStand DEF Factor!RedeemSpend, Codes, Factor!spending
<1>3. CASE Factor!StillUnused(c)
  <2>1. PICK d \in codes : ~d.used /\ Factor!Id(d) = c
    BY <1>3 DEF Factor!StillUnused, Factor!Unused
  <2>2. /\ codes' = {IF Factor!Id(e) = c THEN [e EXCEPT !.used = TRUE] ELSE e : e \in codes}
        /\ redeemed' = redeemed \cup {c}
        /\ respent' = (respent \/ c \in redeemed)
    BY <1>3 DEF Factor!RedeemSpend
  <2>3. c \notin redeemed /\ c.set \in Nat /\ c.set <= sets
    BY <2>1 DEF FactorInv, MarksRedeemed, FactorTyped, Factor!Id
  <2> HIDE DEF c
  <2>4. ASSUME NEW e \in codes
        PROVE  LET f == [e EXCEPT !.used = TRUE] IN
               /\ f \in [set : Nat, n : 1..CodeCount, used : BOOLEAN] /\ f.set = e.set
               /\ Factor!Id(f) = Factor!Id(e) /\ f.used
    <3>1. e \in [set : Nat, n : 1..CodeCount, used : BOOLEAN]
      BY DEF FactorInv, FactorTyped
    <3> QED
      BY <3>1 DEF Factor!Id
  <2>5. FactorTyped' /\ RemembersTaken'
    BY <1>1, <2>2, <2>4 DEF FactorInv, FactorTyped, RemembersTaken
  <2>6. MarksRedeemed' /\ EachCodeWorksOnce'
    BY <1>1, <2>2, <2>3, <2>4 DEF FactorInv, MarksRedeemed, EachCodeWorksOnce,
       Factor!EachCodeWorksOnce, Factor!Id
  <2> QED
    BY <2>5, <2>6 DEF FactorInv
<1> QED
  BY <1>2, <1>3

LEMMA TimePasses == FactorInv /\ Factor!Tick => FactorInv'
<1> SUFFICES ASSUME FactorInv, Factor!Tick PROVE FactorInv'
  OBVIOUS
<1>1. /\ step \in Nat /\ step' = step + 1
      /\ UNCHANGED <<sets, consumed, codes, taken, replayed, redeemed, respent>>
  BY DEF FactorInv, FactorTyped, Factor!Tick, Factor!ghosts, Factor!spending
<1>2. FactorTyped' /\ MarksRedeemed' /\ EachCodeWorksOnce'
  BY <1>1 DEF FactorInv, FactorTyped, MarksRedeemed, EachCodeWorksOnce,
     Factor!EachCodeWorksOnce, Factor!Id
<1>3. RemembersTaken'
  BY <1>1 DEF FactorInv, RemembersTaken
<1> QED
  BY <1>2, <1>3 DEF FactorInv

LEMMA DropsCodes ==
    ASSUME FactorInv, codes' = {}, UNCHANGED <<step, sets, consumed, taken, replayed>>,
           UNCHANGED <<redeemed, respent>>
    PROVE  FactorInv'
BY DEF FactorInv, FactorTyped, RemembersTaken, MarksRedeemed, EachCodeWorksOnce,
   Factor!EachCodeWorksOnce, Factor!Id

LEMMA FactorStep == FactorInv /\ [Next]_vars => FactorInv'
<1> SUFFICES ASSUME FactorInv, [Factor!Next]_(Factor!vars) PROVE FactorInv'
  BY FactorAlone
<1> USE DEF Factor!row, Factor!person, Factor!ghosts, Factor!spending, Codes
<1>1. CASE UNCHANGED Factor!vars
  BY <1>1, CodesStand DEF Factor!vars
<1>2. ASSUME NEW t \in Tasks, Factor!Step(t)
      PROVE  FactorInv'
  <2>1. CASE Factor!SetupWrite(t) \/ Factor!EnableWrite(t) \/ Factor!RegenerateDelete(t)
               \/ Factor!DisableWrite(t) \/ Factor!RedeemRead(t)
    BY <2>1, CodesStand DEF Factor!SetupWrite, Factor!EnableWrite, Factor!RegenerateDelete,
       Factor!DisableWrite, Factor!RedeemRead
  <2>2. CASE Factor!DisableRevoke(t)
    BY <2>2, DropsCodes DEF Factor!DisableRevoke
  <2>3. ASSUME NEW r \in Keepers, Factor!DisableCheck(t, r)
        PROVE  FactorInv'
    BY <2>3, CodesStand, TakesCode DEF Factor!DisableCheck
  <2>4. ASSUME NEW r \in Keepers, Factor!LoginTotp(t, r)
        PROVE  FactorInv'
    BY <2>4, CodesStand, TakesCode DEF Factor!LoginTotp
  <2> QED
    BY <1>2, <2>1, <2>2, <2>3, <2>4, IssueStep, SpendStep DEF Factor!Step
<1>3. ASSUME NEW t \in Tasks, Factor!Start(t)
      PROVE  FactorInv'
  <2>1. ASSUME NEW r \in Keepers, NEW c, Factor!EnableCheck(t, r, c)
        PROVE  FactorInv'
    BY <2>1, TakesCode DEF Factor!EnableCheck
  <2>2. CASE Factor!SetupRead(t) \/ Factor!RegenerateRead(t)
    BY <2>2, CodesStand DEF Factor!SetupRead, Factor!RegenerateRead
  <2>3. ASSUME NEW c, NEW code, Factor!DisableRead(t, c) \/ Factor!LoginRead(t, c, code)
        PROVE  FactorInv'
    BY <2>3, CodesStand DEF Factor!DisableRead, Factor!LoginRead
  <2> QED
    BY <1>3, <2>1, <2>2, <2>3 DEF Factor!Start
<1> QED
  BY <1>1, <1>2, <1>3, TimePasses DEF Factor!Next

\* One process accepts a code once, and a recovery code completes one sign-in, for any window
\* at least as long as a code is acceptable (auth.service.ts assertValidMfaCode,
\* backup-codes.service.ts redeem).
THEOREM CodesWorkOnce == Spec => []EachCodeWorksOnce
BY FactorInit, FactorStep, PTL DEF Spec, FactorInv

-----------------------------------------------------------------------------
(***************************************************************************)
(* Connections: between the moment a callback takes the record of a flow   *)
(* and the exchange of its code, nobody else can hold the same flow.       *)
(***************************************************************************)
Platforms == Providers \cup Direct \cup {"none", "x"}
FlowRow == [provider : Providers, browser : Browsers]
ConnectTask ==
    [pc : {"idle", "take", "member", "trade", "forget", "find", "limit", "create", "update"},
     flow : Nat, browser : Browsers \cup {"none"},
     platform : Platforms,
     todo : SUBSET Others, account : Others \cup {"none"}, row : Nat]

ChannelRow == [platform : Platforms, account : Others \cup {"none"}, live : BOOLEAN]

FlowsTyped ==
    /\ flow \in Seq(FlowRow)
    /\ channel \in Seq(ChannelRow)
    /\ traded \in Seq(Nat) /\ Len(traded) = Len(flow)
    /\ kept \subseteq OAuth!Flows
    /\ connecting \in [Tasks -> ConnectTask]

\* a flow whose code is neither exchanged nor to be had any more
Unspent(f) == f \notin kept /\ traded[f] = 0
Holds(x) == x.pc \in {"member", "trade"} /\ x.platform # "x"

Flowing(x) ==
    /\ x.pc \in {"take", "member", "trade", "forget"} =>
          x.flow \in OAuth!Flows /\ flow[x.flow].provider = x.platform
    /\ x.pc \in {"take", "member"} => x.platform # "x"
    /\ x.pc = "forget" => x.platform = "x"
    /\ Holds(x) => Unspent(x.flow)

OneHolder ==
    \A t, u \in Tasks :
        Holds(connecting[t]) /\ Holds(connecting[u]) /\ connecting[t].flow = connecting[u].flow
            => t = u

KeptIsUnspent ==
    \A f \in OAuth!Flows : flow[f].provider # "x" =>
        traded[f] <= 1 /\ (f \in kept => traded[f] = 0)

FlowInv ==
    FlowsTyped /\ OneHolder /\ KeptIsUnspent /\ \A t \in Tasks : Flowing(connecting[t])

LEMMA FlowsAlone == [Next]_vars => [OAuth!Next]_(OAuth!vars)
BY DEF Next, vars, channelVars, OAuth!vars

LEMMA NoFlow ==
    /\ OAuth!Idle \in ConnectTask /\ OAuth!Idle.pc = "idle"
    /\ ~Holds(OAuth!Idle) /\ Flowing(OAuth!Idle)
BY DEF OAuth!Idle, ConnectTask, Platforms, Holds, Flowing

LEMMA FlowInit == Init => FlowInv
<1> SUFFICES ASSUME Init PROVE FlowInv
  OBVIOUS
<1>1. OAuth!Init
  BY DEF Init
<1>2. flow = <<>> /\ traded = <<>> /\ channel = <<>> /\ kept = {}
  BY <1>1 DEF OAuth!Init
<1>3. /\ flow \in Seq(FlowRow) /\ channel \in Seq(ChannelRow) /\ traded \in Seq(Nat)
      /\ Len(flow) = 0 /\ Len(traded) = 0
  BY <1>2
<1>4. connecting = [t \in Tasks |-> OAuth!Idle]
  BY <1>1 DEF OAuth!Init
<1> QED
  BY <1>2, <1>3, <1>4, NoFlow DEF FlowInv, FlowsTyped, OneHolder, KeptIsUnspent, OAuth!Flows

\* a task that holds a flow held it before, or takes it from the record
LEMMA FlowTurn ==
    ASSUME FlowInv, NEW t \in Tasks, NEW y \in ConnectTask,
           connecting' = [connecting EXCEPT ![t] = y],
           UNCHANGED <<flow, traded, channel>>, kept' \subseteq kept,
           y.pc \in {"take", "member", "trade", "forget"} =>
              y.flow \in OAuth!Flows /\ flow[y.flow].provider = y.platform,
           y.pc \in {"take", "member"} => y.platform # "x",
           y.pc = "forget" => y.platform = "x",
           Holds(y) => /\ y.flow \notin kept' /\ traded[y.flow] = 0
                       /\ y.flow \in kept \/ (Holds(connecting[t]) /\ y.flow = connecting[t].flow)
    PROVE  FlowInv'
<1>1. /\ connecting' \in [Tasks -> ConnectTask] /\ connecting'[t] = y
      /\ \A u \in Tasks \ {t} : connecting'[u] = connecting[u]
  BY DEF FlowInv, FlowsTyped
<1>2. \A u \in Tasks : Holds(connecting[u]) => connecting[u].flow \notin kept
  BY DEF FlowInv, Flowing, Unspent
<1>3. OneHolder'
  BY <1>1, <1>2 DEF FlowInv, OneHolder
<1>4. ASSUME NEW u \in Tasks
      PROVE  Flowing(connecting[u])'
  <2>1. CASE u = t
    BY <1>1, <2>1 DEF Flowing, Unspent, OAuth!Flows, Holds
  <2>2. CASE u # t
    BY <1>1, <2>2 DEF FlowInv, Flowing, Unspent, OAuth!Flows, Holds
  <2> QED
    BY <2>1, <2>2
<1>5. KeptIsUnspent' /\ FlowsTyped'
  BY <1>1 DEF FlowInv, FlowsTyped, KeptIsUnspent, OAuth!Flows
<1> QED
  BY <1>3, <1>4, <1>5 DEF FlowInv

\* a task that goes on without a flow
LEMMA LeavesFlow ==
    ASSUME FlowInv, NEW t \in Tasks, NEW y \in ConnectTask,
           connecting' = [connecting EXCEPT ![t] = y],
           y.pc \notin {"take", "member", "trade", "forget"},
           UNCHANGED <<flow, traded, channel>>, kept' \subseteq kept
    PROVE  FlowInv'
BY FlowTurn DEF Holds

LEMMA Responds ==
    ASSUME FlowInv, NEW t \in Tasks, OAuth!Respond(t), UNCHANGED <<flow, traded, channel>>,
           kept' \subseteq kept
    PROVE  FlowInv'
BY NoFlow, LeavesFlow DEF OAuth!Respond

LEMMA ConnectGoto ==
    ASSUME FlowInv, NEW t \in Tasks, NEW pc \in {"member", "trade", "create", "find"},
           OAuth!Goto(t, pc)
    PROVE  \E y \in ConnectTask :
              /\ connecting' = [connecting EXCEPT ![t] = y]
              /\ y.pc = pc /\ y.flow = connecting[t].flow /\ y.platform = connecting[t].platform
<1> DEFINE x == connecting[t]
           y == [x EXCEPT !.pc = pc]
<1>1. x \in ConnectTask
  BY DEF FlowInv, FlowsTyped
<1>2. y \in ConnectTask /\ y.pc = pc /\ y.flow = x.flow /\ y.platform = x.platform
  BY <1>1 DEF ConnectTask
<1>3. connecting' = [connecting EXCEPT ![t] = y]
  BY DEF OAuth!Goto
<1> HIDE DEF y
<1> QED
  BY <1>2, <1>3

LEMMA FlowNumbers ==
    FlowInv => /\ OAuth!Flows \subseteq Nat
               /\ \A f \in OAuth!Flows : flow[f].provider \in Providers
<1> SUFFICES ASSUME FlowInv, NEW f \in OAuth!Flows
             PROVE  f \in Nat /\ flow[f].provider \in Providers
  OBVIOUS
<1>1. flow[f] \in FlowRow
  BY ElementOfSeq DEF FlowInv, FlowsTyped, OAuth!Flows
<1> QED
  BY <1>1, LenProperties DEF FlowInv, FlowsTyped, OAuth!Flows, FlowRow

LEMMA FlowBegins ==
    ASSUME FlowInv, NEW p \in Providers, NEW b \in Browsers,
           flow' = Append(flow, [provider |-> p, browser |-> b]),
           kept' = kept \cup {Len(flow) + 1}, traded' = Append(traded, 0),
           UNCHANGED <<connecting, channel>>
    PROVE  FlowInv'
<1> DEFINE n == Len(flow)
           new == [provider |-> p, browser |-> b]
<1>1. n \in Nat /\ Len(traded) = n /\ new \in FlowRow
  BY LenProperties DEF FlowInv, FlowsTyped, FlowRow
<1>2. /\ flow' \in Seq(FlowRow) /\ Len(flow') = n + 1
      /\ traded' \in Seq(Nat) /\ Len(traded') = n + 1
      /\ \A f \in 1..n : flow'[f] = flow[f] /\ traded'[f] = traded[f]
      /\ flow'[n + 1] = new /\ traded'[n + 1] = 0
  BY <1>1, AppendProperties DEF FlowInv, FlowsTyped
<1>3. OAuth!Flows = 1..n /\ OAuth!Flows' = 1..(n + 1) /\ n + 1 \notin 1..n
      /\ 1..(n + 1) = 1..n \cup {n + 1}
  BY <1>1, <1>2 DEF OAuth!Flows
<1> HIDE DEF n, new
<1>4. kept' = kept \cup {n + 1}
  BY DEF n
<1>5. FlowsTyped'
  BY <1>2, <1>3, <1>4 DEF FlowInv, FlowsTyped
<1>6. KeptIsUnspent'
  <2> SUFFICES ASSUME NEW f \in 1..(n + 1), flow'[f].provider # "x"
               PROVE  traded'[f] <= 1 /\ (f \in kept' => traded'[f] = 0)
    BY <1>3 DEF KeptIsUnspent
  <2>1. CASE f \in 1..n
    BY <1>2, <1>3, <1>4, <2>1 DEF FlowInv, FlowsTyped, KeptIsUnspent
  <2>2. CASE f = n + 1
    BY <1>2, <2>2
  <2> QED
    BY <1>3, <2>1, <2>2
<1>7. ASSUME NEW t \in Tasks
      PROVE  Flowing(connecting[t])'
  <2>1. Flowing(connecting[t])
    BY DEF FlowInv
  <2> QED
    BY <1>2, <1>3, <1>4, <2>1 DEF Flowing, Unspent, Holds
<1> QED
  BY <1>5, <1>6, <1>7 DEF FlowInv, OneHolder, Holds

LEMMA CallbackStep ==
    ASSUME FlowInv, NEW t \in Tasks, NEW f \in OAuth!Flows, NEW b \in Browsers,
           OAuth!Callback(t, f, b)
    PROVE  FlowInv'
<1> DEFINE p == flow[f].provider
           y == [OAuth!Idle EXCEPT !.pc = "take", !.flow = f, !.browser = b, !.platform = p]
<1>1. f \in Nat /\ p \in Providers /\ p # "x"
  BY FlowNumbers DEF OAuth!Callback
<1>2. y \in ConnectTask /\ y.pc = "take" /\ y.flow = f /\ y.platform = p
  BY <1>1, NoFlow DEF ConnectTask, OAuth!Idle, Platforms
<1>3. connecting' = [connecting EXCEPT ![t] = y] /\ UNCHANGED <<flow, kept, channel, traded>>
  BY DEF OAuth!Callback
<1> HIDE DEF y
<1> QED
  BY <1>1, <1>2, <1>3, FlowTurn DEF Holds

LEMMA XCallbackStep ==
    ASSUME FlowInv, NEW t \in Tasks, NEW f \in OAuth!Flows, OAuth!XCallback(t, f)
    PROVE  FlowInv'
<1> DEFINE y == [OAuth!Idle EXCEPT !.pc = "forget", !.flow = f, !.platform = "x"]
<1>1. f \in Nat /\ flow[f].provider = "x"
  BY FlowNumbers DEF OAuth!XCallback
<1>2. y \in ConnectTask /\ y.pc = "forget" /\ y.flow = f /\ y.platform = "x"
  BY <1>1, NoFlow DEF ConnectTask, OAuth!Idle, Platforms
<1>3. connecting' = [connecting EXCEPT ![t] = y] /\ UNCHANGED <<flow, kept, channel, traded>>
  BY DEF OAuth!XCallback
<1> HIDE DEF y
<1> QED
  BY <1>1, <1>2, <1>3, FlowTurn DEF Holds

LEMMA ConnectStep ==
    ASSUME FlowInv, NEW t \in Tasks, NEW p \in Direct, NEW a \in Others, OAuth!Connect(t, p, a)
    PROVE  FlowInv'
<1> DEFINE y == [OAuth!Idle EXCEPT !.pc = "find", !.platform = p, !.todo = {a}]
<1>1. y \in ConnectTask /\ y.pc = "find"
  BY NoFlow DEF ConnectTask, OAuth!Idle, Platforms
<1>2. connecting' = [connecting EXCEPT ![t] = y] /\ UNCHANGED <<flow, kept, channel, traded>>
  BY DEF OAuth!Connect
<1> HIDE DEF y
<1> QED
  BY <1>1, <1>2, LeavesFlow

\* GETDEL: whoever finds the record is the only one who can
LEMMA TakeStep ==
    ASSUME FlowInv, NEW t \in Tasks, OAuth!Take(t)
    PROVE  FlowInv'
<1> DEFINE x == connecting[t]
<1>1. /\ x.pc = "take" /\ kept' = kept \ {x.flow} /\ UNCHANGED <<flow, traded, channel>>
      /\ x.flow \in OAuth!Flows /\ flow[x.flow].provider = x.platform /\ x.platform # "x"
  BY DEF OAuth!Take, OAuth!Taken, FlowInv, Flowing
<1>2. CASE x.flow \notin kept
  BY <1>1, <1>2, Responds DEF OAuth!Take
<1>3. CASE x.flow \in kept
  <2>1. OAuth!Goto(t, "member")
    BY <1>3 DEF OAuth!Take
  <2>2. traded[x.flow] = 0
    BY <1>1, <1>3 DEF FlowInv, KeptIsUnspent
  <2> QED
    BY <1>1, <1>3, <2>1, <2>2, ConnectGoto, FlowTurn
<1> QED
  BY <1>2, <1>3

LEMMA CheckMemberStep ==
    ASSUME FlowInv, NEW t \in Tasks, OAuth!CheckMember(t)
    PROVE  FlowInv'
<1> DEFINE x == connecting[t]
<1>1. /\ x.pc = "member" /\ UNCHANGED <<flow, kept, traded, channel>>
      /\ x.flow \in OAuth!Flows /\ flow[x.flow].provider = x.platform
      /\ Holds(x) /\ Unspent(x.flow)
  BY DEF OAuth!CheckMember, FlowInv, Flowing, Holds
<1>2. CASE OAuth!Respond(t)
  BY <1>1, <1>2, Responds
<1>3. CASE OAuth!Goto(t, "trade")
  BY <1>1, <1>3, ConnectGoto, FlowTurn DEF Unspent
<1> QED
  BY <1>2, <1>3 DEF OAuth!CheckMember

LEMMA XForgetStep ==
    ASSUME FlowInv, NEW t \in Tasks, OAuth!XForget(t)
    PROVE  FlowInv'
<1> DEFINE x == connecting[t]
<1>1. /\ x.pc = "forget" /\ kept' = kept \ {x.flow} /\ UNCHANGED <<flow, traded, channel>>
      /\ OAuth!Goto(t, "trade") /\ x.platform = "x"
      /\ x.flow \in OAuth!Flows /\ flow[x.flow].provider = x.platform
  BY DEF OAuth!XForget, FlowInv, Flowing
<1> QED
  BY <1>1, ConnectGoto, FlowTurn DEF Holds

\* the one exchange of a flow's code
LEMMA TradeStep ==
    ASSUME FlowInv, NEW t \in Tasks, OAuth!Trade(t)
    PROVE  FlowInv'
<1> DEFINE x == connecting[t]
<1>1. /\ x.pc = "trade" /\ UNCHANGED <<flow, kept, channel>>
      /\ traded' = [traded EXCEPT ![x.flow] = traded[x.flow] + 1]
      /\ x.flow \in OAuth!Flows /\ flow[x.flow].provider = x.platform
      /\ Holds(x) => Unspent(x.flow)
  BY DEF OAuth!Trade, FlowInv, Flowing
<1>2. PICK y \in ConnectTask :
         /\ connecting' = [connecting EXCEPT ![t] = y]
         /\ y.pc \notin {"take", "member", "trade", "forget"}
  <2>1. CASE OAuth!Respond(t)
    BY <2>1, NoFlow DEF OAuth!Respond
  <2>2. ASSUME NEW all \in SUBSET Others,
               connecting' = [connecting EXCEPT ![t].pc = "find", ![t].todo = all]
        PROVE  \E y \in ConnectTask :
                  /\ connecting' = [connecting EXCEPT ![t] = y]
                  /\ y.pc \notin {"take", "member", "trade", "forget"}
    <3> DEFINE y == [x EXCEPT !.pc = "find", !.todo = all]
    <3>1. x \in ConnectTask
      BY DEF FlowInv, FlowsTyped
    <3>2. y \in ConnectTask /\ y.pc = "find"
      BY <3>1 DEF ConnectTask
    <3>3. connecting' = [connecting EXCEPT ![t] = y]
      BY <2>2 DEF FlowInv, FlowsTyped
    <3> HIDE DEF y
    <3> QED
      BY <3>2, <3>3
  <2>3. \A p : OAuth!Connectable(p) \subseteq SUBSET Others
    BY DEF OAuth!Connectable
  <2>4. \/ OAuth!Respond(t)
        \/ \E all \in OAuth!Connectable(x.platform) :
              connecting' = [connecting EXCEPT ![t].pc = "find", ![t].todo = all]
    BY DEF OAuth!Trade
  <2> QED
    BY <2>1, <2>2, <2>3, <2>4
<1>3. /\ connecting' \in [Tasks -> ConnectTask] /\ connecting'[t] = y /\ ~Holds(y)
      /\ \A u \in Tasks \ {t} : connecting'[u] = connecting[u]
  BY <1>2 DEF FlowInv, FlowsTyped, Holds
<1>4. /\ traded' \in Seq(Nat) /\ Len(traded') = Len(traded)
      /\ \A f \in OAuth!Flows : traded'[f] = IF f = x.flow THEN traded[f] + 1 ELSE traded[f]
  <2>1. traded[x.flow] + 1 \in Nat /\ x.flow \in 1..Len(traded)
    BY <1>1, ElementOfSeq DEF FlowInv, FlowsTyped, OAuth!Flows
  <2> QED
    BY <1>1, <2>1, ExceptSeq, LenProperties DEF FlowInv, FlowsTyped, OAuth!Flows
<1>5. \A u \in Tasks : u # t /\ Holds(connecting[u]) => connecting[u].flow # x.flow
  BY <1>1 DEF FlowInv, OneHolder, Flowing, Holds
<1>6. ASSUME NEW u \in Tasks
      PROVE  Flowing(connecting[u])'
  <2>1. CASE u = t
    BY <1>2, <1>3, <2>1 DEF Flowing, Holds
  <2>2. CASE u # t
    <3>1. Flowing(connecting[u]) /\ connecting'[u] = connecting[u]
      BY <1>3, <2>2 DEF FlowInv
    <3> QED
      BY <1>1, <1>4, <1>5, <2>2, <3>1 DEF Flowing, Unspent, Holds, OAuth!Flows
  <2> QED
    BY <2>1, <2>2
<1>7. KeptIsUnspent'
  <2> SUFFICES ASSUME NEW f \in OAuth!Flows, flow[f].provider # "x"
               PROVE  traded'[f] <= 1 /\ (f \in kept => traded'[f] = 0)
    BY <1>1 DEF KeptIsUnspent, OAuth!Flows
  <2>1. CASE f = x.flow
    BY <1>1, <1>4, <2>1 DEF Holds, Unspent
  <2>2. CASE f # x.flow
    BY <1>4, <2>2 DEF FlowInv, KeptIsUnspent
  <2> QED
    BY <2>1, <2>2
<1>8. OneHolder' /\ FlowsTyped'
  BY <1>1, <1>3, <1>4 DEF FlowInv, OneHolder, FlowsTyped, OAuth!Flows
<1> QED
  BY <1>6, <1>7, <1>8 DEF FlowInv

LEMMA FindStep ==
    ASSUME FlowInv, NEW t \in Tasks, OAuth!Find(t)
    PROVE  FlowInv'
<1> DEFINE x == connecting[t]
<1>1. x \in ConnectTask /\ UNCHANGED <<flow, kept, traded, channel>>
  BY DEF FlowInv, FlowsTyped, OAuth!Find
<1>2. PICK a \in x.todo : \E r \in OAuth!Found(x.platform, a) :
         connecting' = [connecting EXCEPT ![t] = OAuth!Aiming(x, a, r)]
  BY DEF OAuth!Find
<1>3. PICK r \in OAuth!Found(x.platform, a) :
         connecting' = [connecting EXCEPT ![t] = OAuth!Aiming(x, a, r)]
  BY <1>2
<1> DEFINE y == OAuth!Aiming(x, a, r)
<1>4. a \in Others /\ r \in Nat /\ x.todo \ {a} \in SUBSET Others
  <2>1. OAuth!Found(x.platform, a) \subseteq Nat
    BY LenProperties DEF OAuth!Found, OAuth!Matching, OAuth!Rows, FlowInv, FlowsTyped
  <2> QED
    BY <1>1, <2>1 DEF ConnectTask
<1>5. y \in ConnectTask /\ y.pc \in {"limit", "update"}
  BY <1>1, <1>4 DEF ConnectTask, OAuth!Aiming
<1>6. connecting' = [connecting EXCEPT ![t] = y]
  BY <1>3
<1> HIDE DEF y
<1> QED
  BY <1>1, <1>5, <1>6, LeavesFlow

LEMMA RoomSteps ==
    ASSUME FlowInv, NEW t \in Tasks, OAuth!AssertLimit(t) \/ OAuth!Update(t)
    PROVE  FlowInv'
<1>1. UNCHANGED <<flow, kept, traded, channel>>
  BY DEF OAuth!AssertLimit, OAuth!Update
<1>2. CASE OAuth!Respond(t)
  BY <1>1, <1>2, Responds
<1>3. ASSUME NEW pc \in {"create", "find"}, OAuth!Goto(t, pc)
      PROVE  FlowInv'
  BY <1>1, <1>3, ConnectGoto, LeavesFlow
<1> QED
  BY <1>2, <1>3 DEF OAuth!AssertLimit, OAuth!Update, OAuth!Next1

\* the rows of channels carry no flow
LEMMA ChannelsChange ==
    FlowInv /\ channel' \in Seq(ChannelRow) /\ UNCHANGED <<flow, kept, traded, connecting>>
        => FlowInv'
BY DEF FlowInv, FlowsTyped, OneHolder, KeptIsUnspent, Flowing, Unspent, Holds, OAuth!Flows

LEMMA CreateStep ==
    ASSUME FlowInv, NEW t \in Tasks, OAuth!Create(t)
    PROVE  FlowInv'
<1> DEFINE x == connecting[t]
           new == [platform |-> x.platform, account |-> x.account, live |-> TRUE]
<1>1. /\ x \in ConnectTask /\ UNCHANGED <<flow, kept, traded>> /\ channel' = Append(channel, new)
  BY DEF FlowInv, FlowsTyped, OAuth!Create
<1>2. new \in ChannelRow
  BY <1>1 DEF ConnectTask, ChannelRow
<1>3. channel' \in Seq(ChannelRow)
  BY <1>1, <1>2, AppendProperties DEF FlowInv, FlowsTyped
<1>4. PICK y \in ConnectTask :
         /\ connecting' = [connecting EXCEPT ![t] = y]
         /\ y.pc \notin {"take", "member", "trade", "forget"}
  <2>1. CASE OAuth!Respond(t)
    BY <2>1, NoFlow DEF OAuth!Respond
  <2>2. CASE OAuth!Goto(t, "find")
    BY <2>2, ConnectGoto
  <2> QED
    BY <2>1, <2>2 DEF OAuth!Create, OAuth!Next1
<1>5. /\ connecting' \in [Tasks -> ConnectTask] /\ connecting'[t] = y /\ ~Holds(y)
      /\ \A u \in Tasks \ {t} : connecting'[u] = connecting[u]
  BY <1>4 DEF FlowInv, FlowsTyped, Holds
<1>6. \A u \in Tasks : Flowing(connecting[u])'
  BY <1>1, <1>4, <1>5 DEF FlowInv, Flowing, Unspent, Holds, OAuth!Flows
<1> QED
  BY <1>1, <1>3, <1>5, <1>6 DEF FlowInv, FlowsTyped, OneHolder, KeptIsUnspent, OAuth!Flows

LEMMA RemoveStep ==
    ASSUME FlowInv, NEW i, OAuth!Remove(i)
    PROVE  FlowInv'
<1>1. /\ channel' = [channel EXCEPT ![i].live = FALSE]
      /\ UNCHANGED <<flow, kept, traded, connecting>> /\ i \in 1..Len(channel)
  BY DEF OAuth!Remove, OAuth!Rows
<1>2. channel[i] \in ChannelRow
  BY <1>1, ElementOfSeq DEF FlowInv, FlowsTyped
<1>3. [channel[i] EXCEPT !.live = FALSE] \in ChannelRow
  BY <1>2 DEF ChannelRow
<1>4. channel' \in Seq(ChannelRow)
  BY <1>1, <1>3, ExceptSeq DEF FlowInv, FlowsTyped
<1> QED
  BY <1>1, <1>4, ChannelsChange

LEMMA ExpiryStep ==
    ASSUME FlowInv, NEW f \in OAuth!Flows, OAuth!Expire(f)
    PROVE  FlowInv'
BY DEF OAuth!Expire, FlowInv, FlowsTyped, OneHolder, KeptIsUnspent, Flowing, Unspent, Holds,
   OAuth!Flows

LEMMA FlowStep == FlowInv /\ [Next]_vars => FlowInv'
<1> SUFFICES ASSUME FlowInv, [OAuth!Next]_(OAuth!vars) PROVE FlowInv'
  BY FlowsAlone
<1>1. CASE UNCHANGED OAuth!vars \/ OAuth!RoleChanges
  BY <1>1, ChannelsChange DEF OAuth!vars, OAuth!RoleChanges, FlowInv, FlowsTyped
<1>2. ASSUME NEW b \in Browsers, NEW p \in Providers, OAuth!Issue(b, p)
      PROVE  FlowInv'
  BY <1>2, FlowBegins DEF OAuth!Issue
<1>3. ASSUME NEW b \in Browsers, OAuth!XAuthorize(b)
      PROVE  FlowInv'
  BY <1>3, FlowBegins DEF OAuth!XAuthorize
<1>4. ASSUME NEW t \in Tasks,
             \/ \E f \in OAuth!Flows, b \in Browsers : OAuth!Callback(t, f, b)
             \/ \E f \in OAuth!Flows : OAuth!XCallback(t, f)
             \/ \E p \in Direct, a \in Others : OAuth!Connect(t, p, a)
             \/ OAuth!Take(t) \/ OAuth!CheckMember(t) \/ OAuth!Trade(t) \/ OAuth!XForget(t)
             \/ OAuth!Find(t) \/ OAuth!AssertLimit(t) \/ OAuth!Create(t) \/ OAuth!Update(t)
      PROVE  FlowInv'
  BY <1>4, CallbackStep, XCallbackStep, ConnectStep, TakeStep, CheckMemberStep, TradeStep,
     XForgetStep, FindStep, RoomSteps, CreateStep
<1> QED
  BY <1>1, <1>2, <1>3, <1>4, ExpiryStep, RemoveStep DEF OAuth!Next

\* A flow's code is exchanged at most once, however often and however concurrently its
\* callback is opened (oauth-state.service.ts consume); X's flow is the exception.
THEOREM StatesWorkOnce == Spec => []StateWorksOnce
<1>1. FlowInv => StateWorksOnce
  BY DEF FlowInv, KeptIsUnspent, StateWorksOnce, OAuth!StateWorksOnce
<1> QED
  BY <1>1, FlowInit, FlowStep, PTL DEF Spec

-----------------------------------------------------------------------------
(***************************************************************************)
(* One tab: the token it will send, or has been sent, is always alive.     *)
(***************************************************************************)
Places == Orgs \cup {Home, 0}
TokenEntry == [org : Places, family : Nat, revoked : BOOLEAN]
TabRow == [status : {"loading", "authed", "guest"}, org : Places, good : BOOLEAN]
RefreshRow == [pc : {"none", "sent", "answered"}, sent : Nat, got : Nat]
CallRow ==
    [pc : {"idle", "sent", "wait"}, org : Places, good : BOOLEAN, retry : BOOLEAN,
     to : Orgs \cup {0}]

PageTyped ==
    /\ token \in Seq(TokenEntry) /\ jar \in Nat
    /\ tab \in [{"one"} -> TabRow]
    /\ rotating \in [{"one"} -> RefreshRow]
    /\ call \in [{"one"} -> [Requests -> CallRow]]

Alive(k) == k \in DOMAIN token /\ ~token[k].revoked

\* what is true of a tab that was neither signed out nor lost an answer
Kept ==
    /\ ~alarm /\ leave["one"] = 0 /\ tab["one"].status # "guest" /\ jar \in DOMAIN token
    /\ rotating["one"].pc = "none" => Alive(jar)
    /\ rotating["one"].pc = "sent" => Alive(rotating["one"].sent)
    /\ rotating["one"].pc = "answered" => Alive(rotating["one"].got)

\* what the tab names is in the table
Known == \A k \in {jar, rotating["one"].sent, rotating["one"].got} : k # 0 => k \in DOMAIN token

PageInv == PageTyped /\ Known /\ leave \in [{"one"} -> Nat] /\ (~out /\ ~lost => Kept)

LEMMA PageAlone == [Next]_vars => [Page!Next]_(Page!vars)
BY DEF Next, vars, pageVars, Page!vars

LEMMA TokenKeys ==
    PageTyped => /\ Len(token) \in Nat /\ DOMAIN token = 1..Len(token)
                 /\ \A k \in DOMAIN token : token[k] \in TokenEntry /\ k \in Nat /\ k # 0
BY LenProperties, ElementOfSeq DEF PageTyped

LEMMA PageInit == Init => PageInv
<1> SUFFICES ASSUME Init PROVE PageInv
  OBVIOUS
<1>1. Page!Init
  BY DEF Init
<1> DEFINE first == [org |-> Home, family |-> 1, revoked |-> FALSE]
<1>2. first \in TokenEntry /\ ~first.revoked
  BY DEF TokenEntry, Places
<1>3. token = <<first>> /\ jar = 1
  BY <1>1 DEF Page!Init
<1> HIDE DEF first
<1>4. token \in Seq(TokenEntry) /\ DOMAIN token = 1..1 /\ token[1] = first
  BY <1>2, <1>3
<1>5. Page!NoRefresh \in RefreshRow /\ Page!NoRefresh.pc = "none"
  BY DEF Page!NoRefresh, RefreshRow
<1>6. Page!NoCall \in CallRow
  BY DEF Page!NoCall, CallRow, Places
<1>7. [status |-> "loading", org |-> 0, good |-> FALSE] \in TabRow
  BY DEF TabRow, Places
<1>8. PageTyped
  BY <1>1, <1>3, <1>4, <1>5, <1>6, <1>7 DEF Page!Init, PageTyped
<1>9. Kept
  BY <1>1, <1>2, <1>3, <1>4, <1>5 DEF Page!Init, Kept, Alive
<1>10. Known
  BY <1>1, <1>3, <1>4 DEF Page!Init, Page!NoRefresh, Known
<1> QED
  BY <1>1, <1>8, <1>9, <1>10 DEF PageInv, Page!Init

\* asking for a refresh sends the cookie's token, unless one is under way
LEMMA Asks ==
    ASSUME PageInv, rotating' = Page!Asked("one"),
           UNCHANGED <<token, jar, alarm, leave, out, lost>>,
           tab' \in [{"one"} -> TabRow], tab'["one"].status = tab["one"].status,
           call' \in [{"one"} -> [Requests -> CallRow]]
    PROVE  PageInv'
<1> DEFINE asked == [pc |-> "sent", sent |-> jar, got |-> 0]
<1>1. asked \in RefreshRow
  BY DEF RefreshRow, PageInv, PageTyped
<1>2. rotating' = IF rotating["one"].pc = "none" THEN [rotating EXCEPT !["one"] = asked]
                  ELSE rotating
  BY DEF Page!Asked, Page!AskedAgain
<1>3. asked.pc = "sent" /\ asked.sent = jar /\ asked.got = 0
  OBVIOUS
<1> HIDE DEF asked
<1> QED
  BY <1>1, <1>2, <1>3 DEF PageInv, PageTyped, Kept, Alive, Known

\* a step that leaves the session as it is
LEMMA PageStands ==
    ASSUME PageInv, UNCHANGED <<rotating, token, jar, alarm, leave, out, lost>>,
           tab' \in [{"one"} -> TabRow], tab'["one"].status = tab["one"].status,
           call' \in [{"one"} -> [Requests -> CallRow]]
    PROVE  PageInv'
BY DEF PageInv, PageTyped, Kept, Alive, Known

LEMMA OneCall ==
    ASSUME PageTyped, NEW c \in Requests, NEW x \in CallRow, Page!Set("one", c, x)
    PROVE  call' \in [{"one"} -> [Requests -> CallRow]]
BY DEF PageTyped, Page!Set

LEMMA ServedStep ==
    ASSUME PageInv, NEW c \in Requests, Page!Served("one", c)
    PROVE  PageInv'
<1> DEFINE to == call["one"][c].to
           new == [org |-> to, family |-> Len(token) + 1, revoked |-> FALSE]
           shown == [status |-> "authed", org |-> to, good |-> TRUE]
<1>1. /\ call' \in [{"one"} -> [Requests -> CallRow]] /\ to \in Orgs \cup {0}
      /\ UNCHANGED <<rotating, leave, out, lost, alarm>>
  <2>1. Page!NoCall \in CallRow
    BY DEF Page!NoCall, CallRow, Places
  <2>2. call["one"][c] \in CallRow
    BY DEF PageInv, PageTyped
  <2> QED
    BY <2>1, <2>2, OneCall DEF Page!Served, PageInv, CallRow
<1>2. CASE to = 0
  BY <1>1, <1>2, PageStands DEF Page!Served, PageInv, PageTyped
<1>3. CASE to # 0
  <2>1. /\ token' = Append(token, new) /\ jar' = Len(token) + 1
        /\ tab' = [tab EXCEPT !["one"] = shown]
    BY <1>3 DEF Page!Served
  <2>2. Len(token) \in Nat /\ new \in TokenEntry /\ ~new.revoked
        /\ shown \in TabRow /\ shown.status = "authed"
    BY <1>1, TokenKeys DEF PageInv, TokenEntry, TabRow, Places
  <2> HIDE DEF new, shown
  <2>3. /\ token' \in Seq(TokenEntry) /\ Len(token') = Len(token) + 1
        /\ \A k \in 1..Len(token) : token'[k] = token[k]
        /\ token'[Len(token) + 1] = new
    BY <2>1, <2>2, AppendProperties DEF PageInv, PageTyped
  <2>4. /\ DOMAIN token = 1..Len(token) /\ DOMAIN token' = 1..(Len(token) + 1)
        /\ jar' \in DOMAIN token'
    BY <2>1, <2>2, <2>3, LenProperties, TokenKeys DEF PageInv
  <2>5. \A k : Alive(k) => Alive(k)'
    BY <2>2, <2>3, <2>4 DEF Alive
  <2>6. ~token'[jar'].revoked
    BY <2>1, <2>2, <2>3
  <2>7. tab' \in [{"one"} -> TabRow] /\ tab'["one"].status = "authed"
    BY <2>1, <2>2 DEF PageInv, PageTyped
  <2>8. PageTyped'
    BY <1>1, <2>1, <2>2, <2>3, <2>7 DEF PageInv, PageTyped
  <2> QED
    BY <1>1, <2>2, <2>4, <2>5, <2>6, <2>7, <2>8 DEF PageInv, Kept, Alive, Known
<1> QED
  BY <1>2, <1>3

LEMMA RejectedStep ==
    ASSUME PageInv, NEW c \in Requests, Page!Rejected("one", c)
    PROVE  PageInv'
<1> DEFINE x == call["one"][c]
           waiting == [x EXCEPT !.pc = "wait"]
<1>1. x \in CallRow /\ tab \in [{"one"} -> TabRow]
      /\ UNCHANGED <<token, jar, tab, leave, out, lost, alarm>>
  BY DEF PageInv, PageTyped, Page!Rejected
<1>2. waiting \in CallRow /\ Page!NoCall \in CallRow
  BY <1>1 DEF CallRow, Page!NoCall, Places
<1>3. CASE x.retry
  BY <1>1, <1>2, <1>3, OneCall, PageStands DEF Page!Rejected, PageInv
<1>4. CASE ~x.retry
  BY <1>1, <1>2, <1>4, OneCall, Asks DEF Page!Rejected, PageInv
<1> QED
  BY <1>3, <1>4

LEMMA SendStep ==
    ASSUME PageInv, NEW c \in Requests, NEW to \in Orgs \cup {0}, Page!Send("one", c, to)
    PROVE  PageInv'
<1> DEFINE x == [pc |-> "sent", org |-> tab["one"].org, good |-> tab["one"].good,
                 retry |-> FALSE, to |-> to]
<1>1. tab["one"] \in TabRow
  BY DEF PageInv, PageTyped
<1>2. x \in CallRow
  BY <1>1 DEF CallRow, TabRow
<1>3. Page!Set("one", c, x) /\ UNCHANGED <<token, jar, tab, rotating, leave, out, lost, alarm>>
  BY DEF Page!Send
<1> HIDE DEF x
<1> QED
  BY <1>2, <1>3, OneCall, PageStands DEF PageInv, PageTyped

LEMMA ExpiresStep ==
    ASSUME PageInv, Page!Expires("one")
    PROVE  PageInv'
<1>1. \A x \in CallRow : [x EXCEPT !.good = FALSE] \in CallRow
  BY DEF CallRow
<1>2. \A x \in TabRow : [x EXCEPT !.good = FALSE] \in TabRow
                        /\ [x EXCEPT !.good = FALSE].status = x.status
  BY DEF TabRow
<1>3. /\ tab' = [tab EXCEPT !["one"] = [tab["one"] EXCEPT !.good = FALSE]]
      /\ call' = [call EXCEPT !["one"] =
                    [c \in Requests |-> [call["one"][c] EXCEPT !.good = FALSE]]]
      /\ UNCHANGED <<token, jar, rotating, leave, out, lost, alarm>>
  BY DEF Page!Expires
<1>4. tab' \in [{"one"} -> TabRow] /\ tab'["one"].status = tab["one"].status
  BY <1>2, <1>3 DEF PageInv, PageTyped
<1>5. call' \in [{"one"} -> [Requests -> CallRow]]
  BY <1>1, <1>3 DEF PageInv, PageTyped
<1> QED
  BY <1>3, <1>4, <1>5, PageStands

LEMMA LoadStep == PageInv /\ Page!Load("one") => PageInv'
BY Asks DEF Page!Load, PageInv, PageTyped

\* rotation, or the alarm of a token used before
LEMMA RefreshServedStep ==
    ASSUME PageInv, Page!RefreshServed("one")
    PROVE  PageInv'
<1> DEFINE r == rotating["one"]
           sent == r.sent
           empty == [r EXCEPT !.pc = "answered"]
           full == [r EXCEPT !.pc = "answered", !.got = Len(token) + 1]
           dead == [token EXCEPT ![sent].revoked = TRUE]
           heir == [token[sent] EXCEPT !.revoked = FALSE]
<1>1. r \in RefreshRow /\ r.pc = "sent" /\ UNCHANGED <<jar, tab, call, leave, out, lost>>
  BY DEF PageInv, PageTyped, Page!RefreshServed
<1>2. /\ empty \in RefreshRow /\ empty.pc = "answered" /\ empty.sent = sent /\ empty.got = r.got
  BY <1>1 DEF RefreshRow
<1>3. sent # 0 => sent \in DOMAIN token
  BY DEF PageInv, Known
<1>4. CASE sent = 0
  <2>1. rotating' = [rotating EXCEPT !["one"] = empty] /\ UNCHANGED <<token, alarm>>
    BY <1>4 DEF Page!RefreshServed
  <2>2. ~Alive(sent)
    BY <1>4, TokenKeys DEF PageInv, Alive
  <2> HIDE DEF empty
  <2> QED
    BY <1>1, <1>2, <2>1, <2>2 DEF PageInv, PageTyped, Known, Kept
<1>5. CASE sent # 0 /\ token[sent].revoked
  <2>1. /\ rotating' = [rotating EXCEPT !["one"] = empty]
        /\ token' = [k \in DOMAIN token |->
              IF token[k].family = token[sent].family THEN [token[k] EXCEPT !.revoked = TRUE]
              ELSE token[k]]
    BY <1>5 DEF Page!RefreshServed
  <2>2. \A k \in DOMAIN token : [token[k] EXCEPT !.revoked = TRUE] \in TokenEntry
    BY TokenKeys DEF PageInv, TokenEntry
  <2>3. token' \in Seq(TokenEntry) /\ DOMAIN token' = DOMAIN token
    <3>1. token' \in [1..Len(token) -> TokenEntry]
      BY <2>1, <2>2, TokenKeys DEF PageInv
    <3> QED
      BY <2>1, <3>1, SeqDef, TokenKeys DEF PageInv
  <2>4. out \/ lost
    BY <1>1, <1>5 DEF PageInv, Kept, Alive
  <2> HIDE DEF empty
  <2> QED
    BY <1>1, <1>2, <2>1, <2>3, <2>4 DEF PageInv, PageTyped, Known
<1>6. CASE sent # 0 /\ ~token[sent].revoked
  <2>1. /\ rotating' = [rotating EXCEPT !["one"] = full]
        /\ token' = Append(dead, heir) /\ alarm' = alarm
    BY <1>6 DEF Page!RefreshServed, PageInv, PageTyped
  <2>a. Len(token) \in Nat /\ DOMAIN token = 1..Len(token)
    BY TokenKeys DEF PageInv
  <2>b. /\ full \in RefreshRow /\ full.pc = "answered" /\ full.got = Len(token) + 1
        /\ full.sent = sent
    <3>1. Len(token) + 1 \in Nat
      BY <2>a
    <3>2. rotating["one"] \in RefreshRow
      BY <1>1
    <3> QED
      BY <3>1, <3>2 DEF RefreshRow
  <2>2. /\ Len(token) \in Nat /\ DOMAIN token = 1..Len(token)
        /\ full \in RefreshRow /\ full.pc = "answered" /\ full.got = Len(token) + 1
        /\ full.sent = sent
    BY <2>a, <2>b
  <2>3. token[sent] \in TokenEntry
    BY <1>3, <1>6, TokenKeys DEF PageInv
  <2>4. heir \in TokenEntry /\ ~heir.revoked /\ [token[sent] EXCEPT !.revoked = TRUE] \in TokenEntry
    BY <2>3 DEF TokenEntry
  <2>5. dead \in Seq(TokenEntry) /\ Len(dead) = Len(token)
    BY <1>3, <1>6, <2>2, <2>4, ExceptSeq DEF PageInv, PageTyped
  <2> HIDE DEF dead, heir, full
  <2>6. /\ token' \in Seq(TokenEntry) /\ Len(token') = Len(token) + 1
        /\ token'[Len(token) + 1] = heir
    BY <2>1, <2>4, <2>5, AppendProperties
  <2>7. DOMAIN token' = 1..(Len(token) + 1)
    BY <2>6, LenProperties
  <2>8. rotating' \in [{"one"} -> RefreshRow] /\ rotating'["one"] = full
    BY <2>1, <2>2 DEF PageInv, PageTyped
  <2>9. PageTyped'
    BY <1>1, <2>6, <2>8 DEF PageInv, PageTyped
  <2>10. Known'
    BY <1>1, <1>3, <2>2, <2>7, <2>8 DEF PageInv, Known
  <2>11. Kept => Kept'
    BY <1>1, <2>1, <2>2, <2>4, <2>6, <2>7, <2>8 DEF Kept, Alive
  <2> QED
    BY <1>1, <2>9, <2>10, <2>11 DEF PageInv
<1> QED
  BY <1>4, <1>5, <1>6

\* the answer arrives: with a session, or with none
LEMMA ArrivesWithSession ==
    ASSUME PageInv, NEW got, got # 0, got = rotating["one"].got, rotating["one"].pc = "answered",
           Page!RefreshArrives("one", got), lost' = lost
    PROVE  PageInv'
<1> DEFINE shown == [status |-> "authed", org |-> token[got].org, good |-> TRUE]
<1>1. /\ rotating' = [rotating EXCEPT !["one"] = Page!NoRefresh]
      /\ jar' = got /\ tab' = [tab EXCEPT !["one"] = shown]
      /\ call' = [call EXCEPT !["one"] = [c \in Requests |->
            IF call["one"][c].pc = "wait" THEN Page!Resent(call["one"][c]) ELSE call["one"][c]]]
      /\ UNCHANGED <<token, leave, out, alarm>>
  BY DEF Page!RefreshArrives
<1>2. got \in DOMAIN token /\ token[got] \in TokenEntry /\ got \in Nat
  BY TokenKeys DEF PageInv, Known
<1>3. shown \in TabRow /\ shown.status = "authed"
  BY <1>2 DEF TabRow, TokenEntry
<1>4. \A x \in CallRow : Page!Resent(x) \in CallRow
  BY DEF CallRow, Page!Resent
<1>5. /\ Page!NoRefresh \in RefreshRow /\ Page!NoRefresh.pc = "none"
      /\ Page!NoRefresh.sent = 0 /\ Page!NoRefresh.got = 0
  BY DEF Page!NoRefresh, RefreshRow
<1> HIDE DEF shown
<1>6. call' \in [{"one"} -> [Requests -> CallRow]]
  BY <1>1, <1>4 DEF PageInv, PageTyped
<1>7. PageTyped'
  BY <1>1, <1>2, <1>3, <1>5, <1>6 DEF PageInv, PageTyped
<1> QED
  BY <1>1, <1>2, <1>3, <1>5, <1>7 DEF PageInv, PageTyped, Known, Kept, Alive

LEMMA ArrivesEmpty ==
    ASSUME PageInv, Page!RefreshArrives("one", 0), lost' = TRUE \/ (lost' = lost /\ ~Kept)
    PROVE  PageInv'
<1> DEFINE guest == [status |-> "guest", org |-> 0, good |-> FALSE]
<1>1. /\ rotating' = [rotating EXCEPT !["one"] = Page!NoRefresh]
      /\ tab' = tab \/ tab' = [tab EXCEPT !["one"] = guest]
      /\ call' = [call EXCEPT !["one"] = [c \in Requests |->
            IF call["one"][c].pc = "wait" THEN Page!NoCall ELSE call["one"][c]]]
      /\ UNCHANGED <<token, jar, leave, out, alarm>>
  BY DEF Page!RefreshArrives
<1>2. guest \in TabRow /\ Page!NoCall \in CallRow
  BY DEF TabRow, Page!NoCall, CallRow, Places
<1>3. /\ Page!NoRefresh \in RefreshRow /\ Page!NoRefresh.sent = 0 /\ Page!NoRefresh.got = 0
  BY DEF Page!NoRefresh, RefreshRow
<1> HIDE DEF guest
<1> QED
  BY <1>1, <1>2, <1>3 DEF PageInv, PageTyped, Known

LEMMA RefreshEndsStep ==
    ASSUME PageInv, Page!RefreshEnds("one")
    PROVE  PageInv'
<1>1. CASE Page!RefreshArrives("one", 0) /\ lost' = TRUE
  BY <1>1, ArrivesEmpty
<1>2. CASE /\ rotating["one"].pc = "answered" /\ lost' = lost
           /\ Page!RefreshArrives("one", rotating["one"].got)
  <2>1. CASE rotating["one"].got = 0
    <3>1. ~Kept
      BY <1>2, <2>1, TokenKeys DEF Kept, Alive, PageInv
    <3> QED
      BY <1>2, <2>1, <3>1, ArrivesEmpty
  <2>2. CASE rotating["one"].got # 0
    BY <1>2, <2>2, ArrivesWithSession
  <2> QED
    BY <2>1, <2>2
<1> QED
  BY <1>1, <1>2 DEF Page!RefreshEnds

LEMMA SignOutStep ==
    ASSUME PageInv, Page!SignOut("one")
    PROVE  PageInv'
BY DEF Page!SignOut, PageInv, PageTyped, Known

LEMMA SignedOutStep ==
    ASSUME PageInv, Page!SignedOut("one")
    PROVE  PageInv'
<1> DEFINE guest == [status |-> "guest", org |-> 0, good |-> FALSE]
           k == leave["one"]
<1>1. /\ token' = [token EXCEPT ![k].revoked = TRUE] /\ jar' = 0
      /\ tab' = [tab EXCEPT !["one"] = guest] /\ leave' = [leave EXCEPT !["one"] = 0]
      /\ UNCHANGED <<rotating, call, out, lost, alarm>> /\ k # 0
  BY DEF Page!SignedOut
<1>2. guest \in TabRow
  BY DEF TabRow, Places
<1>3. \A j \in DOMAIN token : [token[j] EXCEPT !.revoked = TRUE] \in TokenEntry
  BY TokenKeys DEF PageInv, TokenEntry
<1>4. token' \in Seq(TokenEntry) /\ DOMAIN token' = DOMAIN token
  <2>1. token' \in [1..Len(token) -> TokenEntry]
    BY <1>1, <1>3, TokenKeys DEF PageInv, PageTyped
  <2> QED
    BY <1>1, <2>1, SeqDef, TokenKeys DEF PageInv
<1>5. out \/ lost
  BY <1>1 DEF PageInv, Kept
<1> HIDE DEF guest
<1> QED
  BY <1>1, <1>2, <1>4, <1>5 DEF PageInv, PageTyped, Known

LEMMA PageStep == PageInv /\ [Next]_vars => PageInv'
<1> SUFFICES ASSUME PageInv, [Page!Next]_(Page!vars) PROVE PageInv'
  BY PageAlone
<1>1. CASE UNCHANGED Page!vars
  BY <1>1, PageStands DEF Page!vars, PageInv, PageTyped
<1> QED
  BY <1>1, LoadStep, ExpiresStep, RefreshServedStep, RefreshEndsStep, SignOutStep,
     SignedOutStep, ServedStep, RejectedStep, SendStep DEF Page!Next

\* A browser with one tab is signed out by nothing but "Sign out" and a lost answer, whatever
\* its requests and switches of workspace do meanwhile (apps/web tryRefresh, auth.service.ts
\* refresh).
THEOREM OneTabStays == Spec => []OneTabStaysSignedIn
<1>1. PageInv => OneTabStaysSignedIn
  BY DEF PageInv, Kept, OneTabStaysSignedIn, Page!OneTabStaysSignedIn
<1> QED
  BY <1>1, PageInit, PageStep, PTL DEF Spec
=============================================================================
