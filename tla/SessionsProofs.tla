--------------------------- MODULE SessionsProofs ---------------------------
(***************************************************************************)
(* Proofs about Sessions, for any workspaces, processes, requests, times   *)
(* and handlers.                                                           *)
(*                                                                         *)
(* What a step does is described once, by MembersMove, RowsMove and        *)
(* TasksMove; the three properties follow from that description and from   *)
(* what it keeps: a cached or found row was held not long ago (HeldOnce),  *)
(* and a family's tokens are of its first token's workspace unless that    *)
(* membership was lost (HomeOrLost).                                       *)
(***************************************************************************)
EXTENDS Sessions, SequenceTheorems, TLAPS

MemberRow == [role : Roles \cup {"none"}, sv : Nat]
PastRow == [row : MemberRow, until : Nat]
TokenRow == [org : Orgs, live : BOOLEAN, era : Nat, family : Nat]
Claims == [org : Orgs, sv : Nat, era : Nat]
Entry == [live : MemberRow, at : Int]
OpName ==
    {"none", "login", "refresh", "switched", "request", "switch", "password", "mfa", "reset",
     "manage"}
Place ==
    {"idle", "current", "fill", "found", "reused", "rotate", "switch", "bump", "invalidate",
     "revoke"}
TaskRow ==
    [op : OpName, pc : Place, rep : Replicas \cup {0}, org : Orgs \cup {0}, sv : Nat,
     tok : Nat, family : Nat, live : MemberRow, since : Nat, era : Nat]

\* where a task has its workspace from the database or from a token
Placed == {"current", "fill", "found"}
\* where a process serves it
Served == Placed \cup {"rotate", "switch", "bump", "invalidate"}

Typed ==
    /\ now \in Nat /\ era \in Nat
    /\ member \in [Orgs -> MemberRow]
    /\ past \in [Orgs -> SUBSET PastRow]
    /\ refresh \in Seq(TokenRow)
    /\ issued \in SUBSET Claims
    /\ cache \in [Replicas -> [Orgs -> Entry]]
    /\ task \in [Tasks -> TaskRow]
    /\ \A t \in Tasks : task[t].pc \in Placed => task[t].org \in Orgs
    /\ \A t \in Tasks : task[t].pc \in Served => task[t].rep \in Replicas

-----------------------------------------------------------------------------
(* What a step does *)

\* a membership that changes is kept in past with the time of the change
MembersMove ==
    \A o \in Orgs :
       /\ past[o] \subseteq past'[o]
       /\ member'[o] = member[o] \/ [row |-> member[o], until |-> now] \in past'[o]

\* tokens are only added, one at a time, by a task that found its membership
RowsKept ==
    \A k \in Rows :
       /\ k \in Rows'
       /\ refresh'[k].org = refresh[k].org /\ refresh'[k].family = refresh[k].family
       /\ refresh'[k].live => refresh[k].live

Adds(t) ==
    LET id == Len(refresh) + 1 IN
    /\ task[t].pc = "found"
    /\ Rows' = Rows \cup {id} /\ id \notin Rows
    /\ refresh'[id].org = task[t].org
    /\ refresh'[id].family = IF task[t].op = "refresh" THEN task[t].family ELSE id

RowsMove == RowsKept /\ (Rows' = Rows \/ \E t \in Tasks : Adds(t))

Same(x, y) == y.op = x.op /\ y.org = x.org /\ y.family = x.family

Begins(x, y) ==
    /\ x = Idle /\ y.op # "refresh" /\ y.family = 0 /\ y.pc \notin {"fill", "found"}

Presents(x, y) ==
    \E k \in Rows :
       /\ x = Idle /\ y.op = "refresh" /\ y.family = refresh[k].family
       /\ y.org = Scope(refresh[k])
       /\ y.pc = IF refresh[k].live THEN "rotate" ELSE "reused"

GoesOn(x, y) ==
    /\ x.pc # "reused" /\ y.pc \notin {"fill", "found"}
    /\ Same(x, y) \/ (y.op = "switched" /\ y.family = x.family)

Reads(x, y) ==
    /\ x.pc = "current" /\ Same(x, y)
    /\ \/ y.pc = "fill" /\ y.live = member[x.org] /\ y.since = now
       \/ LET hit == cache[x.rep][x.org] IN
          y.pc = "found" /\ y.live = hit.live /\ hit # NotCached /\ Fresh(hit)

Fills(x, y) ==
    /\ x.pc = "fill" /\ y.pc = "found" /\ Same(x, y) /\ y.live = x.live

Moves(x, y) ==
    \/ y = x \/ y = Idle
    \/ Begins(x, y) \/ Presents(x, y) \/ GoesOn(x, y) \/ Reads(x, y) \/ Fills(x, y)

TasksMove == \A t \in Tasks : Moves(task[t], task'[t])

\* an entry of a cache stays, goes, or is what a read brought
CacheMoves ==
    \A r \in Replicas, o \in Orgs :
       \/ cache'[r][o] = cache[r][o] \/ cache'[r][o] = NotCached
       \/ \E t \in Tasks : /\ task[t].pc = "fill" /\ task[t].org = o
                           /\ cache'[r][o] = [live |-> task[t].live, at |-> now]

Passes ==
    /\ now' = now + 1
    /\ UNCHANGED <<member, refresh, cache, task, past>>
    /\ \A t \in Tasks : /\ task[t].pc # "found"
                        /\ task[t].pc = "fill" => now - task[t].since < MaxRead

StepMoves ==
    Passes \/ (now' = now /\ MembersMove /\ RowsMove /\ TasksMove /\ CacheMoves)

-----------------------------------------------------------------------------
LEMMA Unheld == NotMember \in MemberRow /\ NotCached \in Entry
<1>1. NotMember \in MemberRow
  BY DEF NotMember, MemberRow
<1> QED
  BY <1>1 DEF NotCached, Entry

LEMMA IdleRow == Idle \in TaskRow /\ Idle.pc = "idle" /\ Idle.op = "none" /\ Idle.family = 0
BY Unheld DEF Idle, TaskRow, OpName, Place

LEMMA TypedInit ==
    ASSUME Roles # {}, Init
    PROVE  Typed
<1>1. (CHOOSE r \in Roles : TRUE) \in Roles
  OBVIOUS
<1>2. [role |-> CHOOSE r \in Roles : TRUE, sv |-> 0] \in MemberRow
  BY <1>1 DEF MemberRow
<1>3. refresh \in Seq(TokenRow)
  BY DEF Init
<1> QED
  BY <1>2, <1>3, IdleRow, Unheld DEF Init, Typed, Placed, Served

LEMMA FirstIsHeld == FirstWorkspace \in Held \cup {0}
BY DEF FirstWorkspace

LEMMA HeldIn == Held \subseteq Orgs
BY DEF Held

\* Replacing one task by a row of the right type.
LEMMA TaskChange ==
    ASSUME Typed, NEW t \in Tasks, NEW y \in TaskRow, task' = [task EXCEPT ![t] = y],
           y.pc \in Placed => y.org \in Orgs,
           y.pc \in Served => y.rep \in Replicas,
           Moves(task[t], y)
    PROVE  /\ task' \in [Tasks -> TaskRow]
           /\ \A u \in Tasks : task'[u].pc \in Placed => task'[u].org \in Orgs
           /\ \A u \in Tasks : task'[u].pc \in Served => task'[u].rep \in Replicas
           /\ task'[t] = y
           /\ TasksMove
<1>1. /\ task' \in [Tasks -> TaskRow] /\ task'[t] = y
      /\ \A u \in Tasks \ {t} : task'[u] = task[u]
  BY DEF Typed
<1>2. TasksMove
  BY <1>1 DEF TasksMove, Moves
<1> QED
  BY <1>1, <1>2 DEF Typed

Standing == UNCHANGED <<member, refresh, issued, cache, now, era, past>>

LEMMA OnlyTask ==
    ASSUME Typed, NEW t \in Tasks, NEW y \in TaskRow, task' = [task EXCEPT ![t] = y],
           y.pc \in Placed => y.org \in Orgs,
           y.pc \in Served => y.rep \in Replicas,
           Moves(task[t], y), Standing
    PROVE  Typed' /\ StepMoves
<1>1. MembersMove /\ RowsMove /\ CacheMoves
  BY DEF Standing, MembersMove, RowsMove, RowsKept, CacheMoves, Rows
<1> QED
  BY <1>1, TaskChange DEF Typed, Standing, StepMoves

\* the tasks that end, begin, or go on to the next statement
LEMMA EndsTask ==
    ASSUME Typed, NEW t \in Tasks, Done(t)
    PROVE  /\ task' = [task EXCEPT ![t] = Idle] /\ Idle \in TaskRow /\ Moves(task[t], Idle)
           /\ Idle.pc \notin Served
BY IdleRow DEF Done, Moves, Placed, Served

LEMMA GoesTo ==
    ASSUME Typed, NEW t \in Tasks, NEW pc \in Place, Goto(t, pc),
           pc \notin {"fill", "found"}, task[t].pc # "reused",
           pc \in Placed => task[t].org \in Orgs, pc \in Served => task[t].rep \in Replicas
    PROVE  \E y \in TaskRow :
              /\ task' = [task EXCEPT ![t] = y] /\ Moves(task[t], y)
              /\ y.pc \in Placed => y.org \in Orgs
              /\ y.pc \in Served => y.rep \in Replicas
<1> DEFINE y == [task[t] EXCEPT !.pc = pc]
<1>1. task[t] \in TaskRow
  BY DEF Typed
<1>2. /\ y \in TaskRow /\ Same(task[t], y) /\ y.pc = pc /\ y.org = task[t].org
      /\ y.rep = task[t].rep
  BY <1>1 DEF TaskRow, Place, Same
<1>3. task' = [task EXCEPT ![t] = y]
  BY DEF Goto
<1> HIDE DEF y
<1> QED
  BY <1>2, <1>3 DEF Moves, GoesOn, Placed, Served

LEMMA CurrentStep ==
    ASSUME Typed, NEW t \in Tasks, Current(t)
    PROVE  Typed' /\ StepMoves
<1> DEFINE x == task[t]
           hit == cache[x.rep][x.org]
<1>1. x \in TaskRow /\ x.org \in Orgs /\ x.rep \in Replicas /\ x.pc = "current"
  BY DEF Current, Typed, Placed, Served
<1>2. hit \in Entry /\ member[x.org] \in MemberRow /\ now \in Nat
  BY <1>1 DEF Typed
<1>3. Standing
  BY DEF Current, Standing
<1>4. CASE hit # NotCached /\ Fresh(hit)
  <2> DEFINE y == [x EXCEPT !.live = hit.live, !.pc = "found"]
  <2>1. hit.live \in MemberRow
    BY <1>2 DEF Entry
  <2>2. /\ y \in TaskRow /\ Same(x, y) /\ y.pc = "found" /\ y.live = hit.live
        /\ y.org = x.org /\ y.rep = x.rep
    BY <1>1, <2>1 DEF TaskRow, Place, Same
  <2>3. task' = [task EXCEPT ![t] = y]
    BY <1>4 DEF Current
  <2> HIDE DEF y
  <2>4. Moves(x, y)
    BY <1>1, <1>4, <2>2 DEF Moves, Reads
  <2> QED
    BY <1>1, <1>3, <2>2, <2>3, <2>4, OnlyTask
<1>5. CASE ~(hit # NotCached /\ Fresh(hit))
  <2> DEFINE y == [x EXCEPT !.live = member[x.org], !.pc = "fill", !.since = now]
  <2>1. /\ y \in TaskRow /\ Same(x, y) /\ y.pc = "fill" /\ y.live = member[x.org]
        /\ y.since = now /\ y.org = x.org /\ y.rep = x.rep
    BY <1>1, <1>2 DEF TaskRow, Place, Same
  <2>2. task' = [task EXCEPT ![t] = y]
    BY <1>5 DEF Current
  <2> HIDE DEF y
  <2>3. Moves(x, y)
    BY <1>1, <2>1 DEF Moves, Reads
  <2> QED
    BY <1>1, <1>3, <2>1, <2>2, <2>3, OnlyTask
<1> QED
  BY <1>4, <1>5

LEMMA FillStep ==
    ASSUME Typed, NEW t \in Tasks, FillCache(t)
    PROVE  Typed' /\ StepMoves
<1> DEFINE x == task[t]
           y == [x EXCEPT !.pc = "found", !.since = 0]
           entry == [live |-> x.live, at |-> now]
<1>1. x \in TaskRow /\ x.org \in Orgs /\ x.rep \in Replicas /\ x.pc = "fill"
  BY DEF FillCache, Typed, Placed, Served
<1>2. /\ y \in TaskRow /\ Same(x, y) /\ y.pc = "found" /\ y.live = x.live
      /\ y.org = x.org /\ y.rep = x.rep
  BY <1>1 DEF TaskRow, Place, Same
<1>3. entry \in Entry
  BY <1>1 DEF TaskRow, Entry, Typed
<1>4. /\ task' = [task EXCEPT ![t] = y]
      /\ cache' = [cache EXCEPT ![x.rep][x.org] = entry]
      /\ UNCHANGED <<member, refresh, issued, now, era, past>>
  BY DEF FillCache
<1> HIDE DEF y
<1>5. /\ cache' \in [Replicas -> [Orgs -> Entry]]
      /\ \A r \in Replicas, o \in Orgs :
           cache'[r][o] = IF r = x.rep /\ o = x.org THEN entry ELSE cache[r][o]
  BY <1>1, <1>3, <1>4 DEF Typed
<1>6. CacheMoves
  BY <1>1, <1>5 DEF CacheMoves
<1>7. Moves(x, y)
  BY <1>1, <1>2 DEF Moves, Fills
<1>8. MembersMove /\ RowsMove
  BY <1>4 DEF MembersMove, RowsMove, RowsKept, Rows
<1> QED
  BY <1>1, <1>2, <1>4, <1>5, <1>6, <1>7, <1>8, TaskChange DEF Typed, StepMoves

\* invalidate empties entries of one process and goes on
LEMMA InvalidateStep ==
    ASSUME Typed, NEW t \in Tasks, Invalidate(t)
    PROVE  Typed' /\ StepMoves
<1> DEFINE x == task[t]
           dropped == IF x.op = "manage" THEN {x.org} ELSE Orgs
           left == [o \in Orgs |-> IF o \in dropped THEN NotCached ELSE cache[x.rep][o]]
<1>1. x \in TaskRow /\ x.rep \in Replicas /\ x.pc = "invalidate"
  BY DEF Invalidate, Typed, Served
<1>2. /\ cache' = [cache EXCEPT ![x.rep] = left]
      /\ UNCHANGED <<member, refresh, issued, now, era, past>>
  BY DEF Invalidate
<1>3. left \in [Orgs -> Entry]
  BY <1>1, Unheld DEF Typed
<1>4. cache' \in [Replicas -> [Orgs -> Entry]] /\ CacheMoves
  <2>1. \A r \in Replicas : cache'[r] = IF r = x.rep THEN left ELSE cache[r]
    BY <1>1, <1>2 DEF Typed
  <2>2. \A o \in Orgs : left[o] = NotCached \/ left[o] = cache[x.rep][o]
    OBVIOUS
  <2> HIDE DEF left
  <2>3. cache' \in [Replicas -> [Orgs -> Entry]]
    BY <1>1, <1>2, <1>3 DEF Typed
  <2> QED
    BY <2>1, <2>2, <2>3 DEF CacheMoves
<1>5. MembersMove /\ RowsMove
  BY <1>2 DEF MembersMove, RowsMove, RowsKept, Rows
<1>6. CASE x.op = "mfa"
  <2>1. Done(t)
    BY <1>6 DEF Invalidate, Done
  <2> QED
    BY <1>2, <1>4, <1>5, <2>1, EndsTask, TaskChange DEF Typed, StepMoves, Served
<1>7. CASE x.op # "mfa"
  <2>1. Goto(t, "revoke")
    BY <1>7 DEF Invalidate, Goto
  <2>2. PICK y \in TaskRow :
           /\ task' = [task EXCEPT ![t] = y] /\ Moves(task[t], y)
           /\ y.pc \in Placed => y.org \in Orgs
           /\ y.pc \in Served => y.rep \in Replicas
    BY <1>1, <2>1, GoesTo DEF Placed, Served, Place
  <2> QED
    BY <1>2, <1>4, <1>5, <2>2, TaskChange DEF Typed, StepMoves
<1> QED
  BY <1>6, <1>7

-----------------------------------------------------------------------------
(* Changes of memberships *)

\* a workspace's row before and after a change of it
LEMMA OneChange ==
    ASSUME Typed, NEW o \in Orgs, NEW row \in MemberRow,
           member' = [member EXCEPT ![o] = row], past' = [past EXCEPT ![o] = Ended(o)]
    PROVE  /\ member' \in [Orgs -> MemberRow] /\ past' \in [Orgs -> SUBSET PastRow]
           /\ MembersMove
<1>1. [row |-> member[o], until |-> now] \in PastRow
  BY DEF Typed, PastRow
<1>2. Ended(o) \in SUBSET PastRow /\ past[o] \subseteq Ended(o)
      /\ [row |-> member[o], until |-> now] \in Ended(o)
  BY <1>1 DEF Ended, Typed
<1> HIDE DEF Ended
<1> QED
  BY <1>2 DEF Typed, MembersMove

LEMMA BumpStep ==
    ASSUME Typed, NEW t \in Tasks, Bump(t)
    PROVE  Typed' /\ StepMoves
<1>1. /\ task[t] \in TaskRow /\ task[t].pc = "bump" /\ Goto(t, "invalidate")
      /\ member' = [o \in Orgs |-> Bumped(o)]
      /\ past' = [o \in Orgs |-> IF o \in Held THEN Ended(o) ELSE past[o]]
      /\ UNCHANGED <<refresh, issued, cache, now, era>>
  BY DEF Bump, Typed
<1>2. \A o \in Orgs : /\ Bumped(o) \in MemberRow
                      /\ o \notin Held => Bumped(o) = member[o]
  <2>1. ASSUME NEW o \in Orgs, o \in Held
        PROVE  Bumped(o) \in MemberRow
    <3>1. member[o] \in MemberRow
      BY DEF Typed
    <3> QED
      BY <2>1, <3>1 DEF Bumped, MemberRow
  <2>2. ASSUME NEW o \in Orgs, o \notin Held
        PROVE  Bumped(o) = NotMember /\ member[o] = NotMember
    BY <2>2 DEF Bumped, Held
  <2> QED
    BY <2>1, <2>2, Unheld
<1>3. \A o \in Orgs : /\ [row |-> member[o], until |-> now] \in PastRow
                      /\ Ended(o) = past[o] \cup {[row |-> member[o], until |-> now]}
  BY DEF Typed, PastRow, Ended
<1>4. \A o \in Orgs : Ended(o) \in SUBSET PastRow /\ past[o] \subseteq Ended(o)
                      /\ [row |-> member[o], until |-> now] \in Ended(o)
  BY <1>3 DEF Typed
<1> HIDE DEF Bumped, Ended, Held
<1>5. member' \in [Orgs -> MemberRow] /\ past' \in [Orgs -> SUBSET PastRow] /\ MembersMove
  BY <1>1, <1>2, <1>4 DEF Typed, MembersMove
<1>6. RowsMove /\ CacheMoves
  BY <1>1 DEF RowsMove, RowsKept, Rows, CacheMoves
<1> QED
  <2>1. task[t].rep \in Replicas
    BY <1>1 DEF Typed, Served
  <2> QED
    BY <1>1, <1>5, <1>6, <2>1, GoesTo, TaskChange DEF Typed, StepMoves, Placed, Served, Place

\* ChangeRole and Remove: one row, and the task that will invalidate and revoke
LEMMA ManageStep ==
    ASSUME Typed, NEW t \in Tasks, NEW r \in Replicas, NEW o \in Orgs, NEW row \in MemberRow,
           task[t] = Idle,
           member' = [member EXCEPT ![o] = row], past' = [past EXCEPT ![o] = Ended(o)],
           task' = [task EXCEPT ![t] = [Idle EXCEPT !.op = "manage", !.pc = "invalidate",
                                                    !.rep = r, !.org = o]],
           UNCHANGED <<refresh, issued, cache, now, era>>
    PROVE  Typed' /\ StepMoves
<1> DEFINE y == [Idle EXCEPT !.op = "manage", !.pc = "invalidate", !.rep = r, !.org = o]
<1>1. y \in TaskRow /\ y.op = "manage" /\ y.pc = "invalidate" /\ y.family = 0 /\ y.rep = r
  BY IdleRow DEF TaskRow, OpName, Place
<1>2. task' = [task EXCEPT ![t] = y]
  OBVIOUS
<1> HIDE DEF y
<1>3. Moves(task[t], y)
  BY <1>1 DEF Moves, Begins
<1>4. RowsMove /\ CacheMoves
  BY DEF RowsMove, RowsKept, Rows, CacheMoves
<1> QED
  BY <1>1, <1>2, <1>3, <1>4, OneChange, TaskChange DEF Typed, StepMoves, Placed, Served

LEMMA ChangeRoleStep ==
    ASSUME Typed, NEW o \in Orgs, NEW role \in Roles, NEW t \in Tasks, NEW r \in Replicas,
           ChangeRole(t, r, o, role)
    PROVE  Typed' /\ StepMoves
<1>1. member[o] \in MemberRow
  BY DEF Typed
<1>2. [role |-> role, sv |-> member[o].sv + 1] \in MemberRow
  BY <1>1 DEF MemberRow
<1> QED
  BY <1>2, ManageStep DEF ChangeRole

LEMMA RemoveStep ==
    ASSUME Typed, NEW o \in Orgs, NEW t \in Tasks, NEW r \in Replicas, Remove(t, r, o)
    PROVE  Typed' /\ StepMoves
BY Unheld, ManageStep DEF Remove

LEMMA RejoinStep ==
    ASSUME Typed, NEW o \in Orgs, NEW role \in Roles, Rejoin(o, role)
    PROVE  Typed' /\ StepMoves
<1>1. [role |-> role, sv |-> 0] \in MemberRow
  BY DEF MemberRow
<1>2. /\ member' = [member EXCEPT ![o] = [role |-> role, sv |-> 0]]
      /\ past' = [past EXCEPT ![o] = Ended(o)]
      /\ UNCHANGED <<refresh, issued, cache, task, now, era>>
  BY DEF Rejoin
<1>3. RowsMove /\ CacheMoves /\ TasksMove
  BY <1>2 DEF RowsMove, RowsKept, Rows, CacheMoves, TasksMove, Moves
<1> QED
  BY <1>1, <1>2, <1>3, OneChange DEF Typed, StepMoves

-----------------------------------------------------------------------------
(* Tasks that begin *)

\* a task that begins with something else than a refresh
LEMMA BeginStep ==
    ASSUME Typed, NEW t \in Tasks, NEW y \in TaskRow, task[t] = Idle,
           task' = [task EXCEPT ![t] = y],
           y.op # "refresh", y.family = 0, y.pc \notin {"fill", "found"},
           y.pc \in Placed => y.org \in Orgs, y.rep \in Replicas, Standing
    PROVE  Typed' /\ StepMoves
<1>1. Moves(task[t], y)
  BY DEF Moves, Begins
<1> QED
  BY <1>1, OnlyTask

LEMMA LoginStep ==
    ASSUME Typed, NEW t \in Tasks, NEW r \in Replicas, Login(t, r)
    PROVE  Typed' /\ StepMoves
<1> DEFINE y == [Idle EXCEPT !.op = "login", !.pc = "current", !.rep = r,
                             !.org = FirstWorkspace, !.era = era]
<1>1. FirstWorkspace \in Orgs
  BY FirstIsHeld, HeldIn DEF Login
<1> HIDE DEF FirstWorkspace
<1>2. /\ y \in TaskRow /\ y.op = "login" /\ y.pc = "current" /\ y.family = 0
      /\ y.rep = r /\ y.org \in Orgs
  BY <1>1, IdleRow DEF TaskRow, OpName, Place, Typed
<1>3. task[t] = Idle /\ task' = [task EXCEPT ![t] = y] /\ Standing
  BY DEF Login, Standing
<1> HIDE DEF y
<1> QED
  BY <1>2, <1>3, BeginStep

LEMMA RequestStep ==
    ASSUME Typed, NEW t \in Tasks, NEW r \in Replicas, NEW a \in issued, NEW op \in Ops,
           NEW k \in {0} \cup Rows, Request(t, r, a, op, k)
    PROVE  Typed' /\ StepMoves
<1> DEFINE y == [Idle EXCEPT !.op = op, !.pc = "current", !.rep = r, !.org = a.org,
                             !.sv = a.sv, !.tok = k]
<1>1. a \in Claims /\ k \in Nat
  BY LenProperties DEF Typed, Rows
<1>2. op \in {"request", "switch", "password", "mfa"}
  BY DEF Request, Guarded
<1>3. /\ y \in TaskRow /\ y.op = op /\ y.pc = "current" /\ y.family = 0 /\ y.rep = r
      /\ y.org \in Orgs
  BY <1>1, <1>2, IdleRow DEF TaskRow, OpName, Place, Claims
<1>4. task[t] = Idle /\ task' = [task EXCEPT ![t] = y] /\ Standing
  BY DEF Request, Standing
<1> HIDE DEF y
<1> QED
  BY <1>2, <1>3, <1>4, BeginStep

LEMMA ResetStep ==
    ASSUME Typed, NEW t \in Tasks, NEW r \in Replicas, ResetConsumed(t, r)
    PROVE  Typed' /\ StepMoves
<1> DEFINE y == [Idle EXCEPT !.op = "reset", !.pc = "revoke", !.rep = r]
<1>1. y \in TaskRow /\ y.op = "reset" /\ y.pc = "revoke" /\ y.family = 0 /\ y.rep = r
  BY IdleRow DEF TaskRow, OpName, Place
<1>2. task[t] = Idle /\ task' = [task EXCEPT ![t] = y] /\ Standing
  BY DEF ResetConsumed, Standing
<1> HIDE DEF y
<1> QED
  BY <1>1, <1>2, BeginStep DEF Placed

LEMMA RefreshStep ==
    ASSUME Typed, NEW t \in Tasks, NEW r \in Replicas, NEW k \in Rows, RefreshRead(t, r, k)
    PROVE  Typed' /\ StepMoves
<1> DEFINE y == [Idle EXCEPT !.op = "refresh", !.rep = r, !.tok = k,
                   !.pc = IF Reused(refresh[k]) THEN "reused" ELSE "rotate",
                   !.org = Scope(refresh[k]), !.family = refresh[k].family,
                   !.era = refresh[k].era]
<1>1. refresh[k] \in TokenRow /\ k \in Nat
  BY ElementOfSeq, LenProperties DEF Typed, Rows
<1>2. Scope(refresh[k]) \in Orgs \cup {0}
  BY FirstIsHeld, HeldIn DEF Scope
<1> HIDE DEF Scope
<1>3. /\ y \in TaskRow /\ y.op = "refresh" /\ y.rep = r
      /\ y.pc = (IF refresh[k].live THEN "rotate" ELSE "reused")
      /\ y.org = Scope(refresh[k]) /\ y.family = refresh[k].family
  BY <1>1, <1>2, IdleRow DEF TaskRow, OpName, Place, TokenRow, Reused
<1>4. task[t] = Idle /\ task' = [task EXCEPT ![t] = y] /\ Standing
  BY DEF RefreshRead, Standing
<1> HIDE DEF y
<1>5. Moves(task[t], y)
  BY <1>3, <1>4 DEF Moves, Presents
<1> QED
  BY <1>3, <1>4, <1>5, OnlyTask DEF Placed

-----------------------------------------------------------------------------
(* Tokens *)

\* rows of the same number with the same workspaces and families, none alive again
LEMMA RowsChange ==
    ASSUME Typed, refresh' = [k \in Rows |-> refresh'[k]],
           \A k \in Rows : /\ refresh'[k] \in TokenRow
                           /\ refresh'[k].org = refresh[k].org
                           /\ refresh'[k].family = refresh[k].family
                           /\ refresh'[k].live => refresh[k].live
    PROVE  refresh' \in Seq(TokenRow) /\ RowsMove
<1>1. Len(refresh) \in Nat
  BY LenProperties DEF Typed
<1>2. refresh' \in [1..Len(refresh) -> TokenRow]
  BY DEF Rows
<1>3. refresh' \in Seq(TokenRow) /\ Len(refresh') = Len(refresh)
  BY <1>1, <1>2, SeqDef, LenProperties
<1> QED
  BY <1>3 DEF RowsMove, RowsKept, Rows

LEMMA TokenEnds ==
    ASSUME NEW row \in TokenRow
    PROVE  /\ [row EXCEPT !.live = FALSE] \in TokenRow
           /\ [row EXCEPT !.live = FALSE].org = row.org
           /\ [row EXCEPT !.live = FALSE].family = row.family
           /\ ~[row EXCEPT !.live = FALSE].live
BY DEF TokenRow

LEMMA RowTyped == Typed => \A k \in Rows : refresh[k] \in TokenRow
BY ElementOfSeq DEF Typed, Rows

\* one token that is ended, whether or not it was alive
LEMMA OneEnds ==
    ASSUME Typed, NEW k \in Nat, refresh' = [refresh EXCEPT ![k].live = FALSE]
    PROVE  refresh' \in Seq(TokenRow) /\ RowsMove
<1>1. refresh = [j \in Rows |-> refresh[j]]
  BY DEF Typed, Rows
<1>2. /\ refresh' = [j \in Rows |-> refresh'[j]]
      /\ \A j \in Rows : refresh'[j] = IF j = k THEN [refresh[j] EXCEPT !.live = FALSE]
                                        ELSE refresh[j]
  BY <1>1
<1> QED
  BY <1>2, RowTyped, TokenEnds, RowsChange

LEMMA RevokeFamilyStep ==
    ASSUME Typed, NEW t \in Tasks, RevokeFamily(t)
    PROVE  Typed' /\ StepMoves
<1>1. /\ refresh' = [k \in Rows |-> IF refresh[k].family = task[t].family
                                     THEN [refresh[k] EXCEPT !.live = FALSE] ELSE refresh[k]]
      /\ Done(t) /\ UNCHANGED <<member, issued, cache, now, era, past>>
  BY DEF RevokeFamily
<1>2. /\ refresh' = [k \in Rows |-> refresh'[k]]
      /\ \A k \in Rows : refresh'[k] = IF refresh[k].family = task[t].family
                                        THEN [refresh[k] EXCEPT !.live = FALSE] ELSE refresh[k]
  BY <1>1
<1>3. refresh' \in Seq(TokenRow) /\ RowsMove
  BY <1>2, RowTyped, TokenEnds, RowsChange
<1>4. MembersMove /\ CacheMoves
  BY <1>1 DEF MembersMove, CacheMoves
<1> QED
  BY <1>1, <1>3, <1>4, EndsTask, TaskChange DEF Typed, StepMoves, Served

LEMMA RotateStep ==
    ASSUME Typed, NEW t \in Tasks, Rotate(t)
    PROVE  Typed' /\ StepMoves
<1>1. /\ task[t] \in TaskRow /\ task[t].pc = "rotate" /\ task[t].rep \in Replicas
      /\ refresh' = [refresh EXCEPT ![task[t].tok].live = FALSE]
      /\ UNCHANGED <<member, issued, cache, now, era, past>>
  BY DEF Rotate, Typed, Served
<1>2. task[t].tok \in Nat
  BY <1>1 DEF TaskRow
<1>3. refresh' \in Seq(TokenRow) /\ RowsMove
  BY <1>1, <1>2, OneEnds
<1>4. MembersMove /\ CacheMoves
  BY <1>1 DEF MembersMove, CacheMoves
<1>5. CASE task[t].org = 0
  <2>1. Done(t)
    BY <1>5 DEF Rotate
  <2> QED
    BY <1>1, <1>3, <1>4, <2>1, EndsTask, TaskChange DEF Typed, StepMoves, Served
<1>6. CASE task[t].org # 0
  <2>1. Goto(t, "current") /\ task[t].org \in Orgs
    BY <1>1, <1>6 DEF Rotate, TaskRow
  <2>2. PICK y \in TaskRow :
           /\ task' = [task EXCEPT ![t] = y] /\ Moves(task[t], y)
           /\ y.pc \in Placed => y.org \in Orgs
           /\ y.pc \in Served => y.rep \in Replicas
    BY <1>1, <2>1, GoesTo DEF Place
  <2> QED
    BY <1>1, <1>3, <1>4, <2>2, TaskChange DEF Typed, StepMoves
<1> QED
  BY <1>5, <1>6

LEMMA LogoutStep ==
    ASSUME Typed, NEW k \in Rows, Logout(k)
    PROVE  Typed' /\ StepMoves
<1>1. /\ refresh' = [refresh EXCEPT ![k].live = FALSE]
      /\ UNCHANGED <<member, issued, cache, task, now, era, past>>
  BY DEF Logout
<1>2. k \in Nat
  BY LenProperties DEF Rows, Typed
<1>3. refresh' \in Seq(TokenRow) /\ RowsMove
  BY <1>1, <1>2, OneEnds
<1>4. MembersMove /\ CacheMoves /\ TasksMove
  BY <1>1 DEF MembersMove, CacheMoves, TasksMove, Moves
<1> QED
  BY <1>1, <1>3, <1>4 DEF Typed, StepMoves

LEMMA RevokeStep ==
    ASSUME Typed, NEW t \in Tasks, RevokeSessions(t)
    PROVE  Typed' /\ StepMoves
<1> DEFINE kept(k) == [refresh[k] EXCEPT !.era = IF k = task[t].tok THEN era + 1
                                                 ELSE refresh[k].era]
           ended(k) == [refresh[k] EXCEPT !.live = FALSE]
<1>1. /\ refresh' = [k \in Rows |-> IF k \in Doomed(task[t]) THEN ended(k) ELSE kept(k)]
      /\ era' = (IF task[t].op = "manage" THEN era ELSE era + 1)
      /\ Done(t) /\ UNCHANGED <<member, issued, cache, now, past>>
  BY DEF RevokeSessions
<1>2. /\ refresh' = [k \in Rows |-> refresh'[k]]
      /\ \A k \in Rows : refresh'[k] = ended(k) \/ refresh'[k] = kept(k)
  BY <1>1
<1>3. ASSUME NEW k \in Rows
      PROVE  /\ kept(k) \in TokenRow /\ kept(k).org = refresh[k].org
             /\ kept(k).family = refresh[k].family /\ kept(k).live = refresh[k].live
  <2>1. refresh[k] \in TokenRow /\ era + 1 \in Nat
    BY RowTyped DEF Typed
  <2> QED
    BY <2>1 DEF TokenRow
<1>4. ASSUME NEW k \in Rows
      PROVE  /\ ended(k) \in TokenRow /\ ended(k).org = refresh[k].org
             /\ ended(k).family = refresh[k].family /\ ~ended(k).live
  BY RowTyped, TokenEnds
<1> HIDE DEF kept, ended
<1>5. refresh' \in Seq(TokenRow) /\ RowsMove
  BY <1>2, <1>3, <1>4, RowsChange
<1>6. MembersMove /\ CacheMoves /\ era' \in Nat
  BY <1>1 DEF MembersMove, CacheMoves, Typed
<1> QED
  BY <1>1, <1>5, <1>6, EndsTask, TaskChange DEF Typed, StepMoves, Served

LEMMA CreateStep ==
    ASSUME Typed, NEW t \in Tasks, CreateSession(t)
    PROVE  Typed' /\ StepMoves
<1> DEFINE x == task[t]
           id == Len(refresh) + 1
           row == [org |-> x.org, live |-> TRUE, era |-> x.era,
                   family |-> IF x.op = "refresh" THEN x.family ELSE id]
           claim == [org |-> x.org, sv |-> x.live.sv, era |-> x.era]
<1>1. x \in TaskRow /\ x.pc = "found" /\ x.org \in Orgs
  BY DEF CreateSession, Typed, Placed
<1>2. id \in Nat /\ Len(refresh) \in Nat
  BY LenProperties DEF Typed
<1>3. /\ row \in TokenRow /\ row.org = x.org
      /\ row.family = IF x.op = "refresh" THEN x.family ELSE id
  BY <1>1, <1>2 DEF TaskRow, TokenRow
<1>4. claim \in Claims
  <2>1. x.live \in MemberRow /\ x.era \in Nat
    BY <1>1 DEF TaskRow
  <2>2. x.live.sv \in Nat
    BY <2>1 DEF MemberRow
  <2> QED
    BY <1>1, <2>1, <2>2 DEF Claims
<1>5. /\ refresh' = Append(refresh, row) /\ issued' = issued \cup {claim}
      /\ Done(t) /\ UNCHANGED <<member, cache, now, era, past>>
  BY DEF CreateSession
<1> HIDE DEF row, claim
<1>6. /\ refresh' \in Seq(TokenRow) /\ Len(refresh') = id
      /\ \A k \in 1..Len(refresh) : refresh'[k] = refresh[k]
      /\ refresh'[id] = row
  BY <1>3, <1>5, AppendProperties DEF Typed
<1>7. RowsKept /\ Adds(t)
  <2>1. Rows' = Rows \cup {id} /\ id \notin Rows
    BY <1>2, <1>6 DEF Rows
  <2>2. RowsKept
    BY <1>6, <2>1 DEF RowsKept, Rows
  <2> QED
    BY <1>1, <1>3, <1>6, <2>1, <2>2 DEF Adds
<1>8. MembersMove /\ CacheMoves
  BY <1>5 DEF MembersMove, CacheMoves
<1>9. issued' \in SUBSET Claims
  BY <1>4, <1>5 DEF Typed
<1> QED
  BY <1>5, <1>6, <1>7, <1>8, <1>9, EndsTask, TaskChange DEF Typed, StepMoves, RowsMove, Served

-----------------------------------------------------------------------------
(* The rest *)

LEMMA GuardStep ==
    ASSUME Typed, NEW t \in Tasks, Guard(t)
    PROVE  Typed' /\ StepMoves
<1>1. /\ task[t] \in TaskRow /\ task[t].pc = "found" /\ task[t].rep \in Replicas
      /\ Standing
  BY DEF Guard, Typed, Placed, Served, Standing
<1>2. CASE Done(t)
  BY <1>1, <1>2, EndsTask, OnlyTask DEF Served
<1>3. ASSUME NEW pc \in {"switch", "bump"}, Goto(t, pc)
      PROVE  Typed' /\ StepMoves
  BY <1>1, <1>3, GoesTo, OnlyTask DEF Place, Placed, Served
<1> QED
  BY <1>2, <1>3 DEF Guard

LEMMA SwitchStep ==
    ASSUME Typed, NEW t \in Tasks, NEW o \in Orgs, SwitchOrg(t, o)
    PROVE  Typed' /\ StepMoves
<1> DEFINE x == task[t]
           y == [x EXCEPT !.op = "switched", !.pc = "current", !.org = o, !.era = era]
<1>1. x \in TaskRow /\ x.pc = "switch" /\ x.rep \in Replicas /\ era \in Nat /\ Standing
  BY DEF SwitchOrg, Typed, Served, Standing
<1>2. CASE o \notin Held
  <2>1. Done(t)
    BY <1>2 DEF SwitchOrg, Done
  <2> QED
    BY <1>1, <2>1, EndsTask, OnlyTask DEF Served
<1>3. CASE o \in Held
  <2>1. task' = [task EXCEPT ![t] = y]
    BY <1>3 DEF SwitchOrg
  <2>2. /\ y \in TaskRow /\ y.op = "switched" /\ y.pc = "current" /\ y.org = o
        /\ y.rep = x.rep /\ y.family = x.family
    BY <1>1 DEF TaskRow, OpName, Place
  <2> HIDE DEF y
  <2>3. Moves(x, y)
    BY <1>1, <2>2 DEF Moves, GoesOn
  <2> QED
    BY <1>1, <2>1, <2>2, <2>3, OnlyTask
<1> QED
  BY <1>2, <1>3

LEMMA Step ==
    ASSUME Typed, [Next]_vars
    PROVE  Typed' /\ StepMoves
<1>1. CASE UNCHANGED vars
  BY <1>1 DEF vars, Typed, StepMoves, MembersMove, RowsMove, RowsKept, Rows, TasksMove, Moves,
              CacheMoves
<1>2. CASE Tick
  BY <1>2 DEF Tick, Typed, StepMoves, Passes
<1>3. ASSUME NEW t \in Tasks, TaskStep(t)
      PROVE  Typed' /\ StepMoves
  BY <1>3, CurrentStep, FillStep, InvalidateStep, BumpStep, RevokeFamilyStep, RotateStep,
     CreateStep, GuardStep, RevokeStep, SwitchStep DEF TaskStep
<1>4. ASSUME NEW t \in Tasks, TaskStart(t)
      PROVE  Typed' /\ StepMoves
  BY <1>4, LoginStep, RefreshStep, RequestStep, ResetStep, ChangeRoleStep,
     RemoveStep DEF TaskStart
<1> QED
  BY <1>1, <1>2, <1>3, <1>4, LogoutStep, RejoinStep DEF Next

-----------------------------------------------------------------------------
(***************************************************************************)
(* How old an admission is.                                                *)
(***************************************************************************)
\* live is a membership's row or a past one of it that ended at from or later
HeldOnce(row, earlier, live, from) ==
    live = row \/ \E h \in earlier : h.row = live /\ h.until >= from

AgesHold ==
    /\ \A r \in Replicas, o \in Orgs :
          LET e == cache[r][o] IN
          e = NotCached \/ (e.at \in 0..now /\ HeldOnce(member[o], past[o], e.live, e.at - MaxRead))
    /\ \A t \in Tasks :
          LET x == task[t] IN
          x.pc = "fill" => /\ x.since \in 0..now /\ now - x.since <= MaxRead
                           /\ HeldOnce(member[x.org], past[x.org], x.live, x.since)
    /\ \A t \in Tasks :
          LET x == task[t] IN
          x.pc = "found" =>
             HeldOnce(member[x.org], past[x.org], x.live, now + 1 - CacheTtl - MaxRead)

Times == CacheTtl \in Nat \ {0} /\ MaxRead \in Nat /\ Roles # {}

LEMMA AgesInit == Init => AgesHold
BY IdleRow DEF Init, AgesHold

LEMMA HeldOnceStays ==
    ASSUME Typed, MembersMove, NEW o \in Orgs, NEW live, NEW from \in Int, from <= now,
           HeldOnce(member[o], past[o], live, from)
    PROVE  HeldOnce(member'[o], past'[o], live, from)
<1>1. CASE live = member[o]
  <2>1. CASE member'[o] = member[o]
    BY <1>1, <2>1 DEF HeldOnce
  <2>2. CASE [row |-> member[o], until |-> now] \in past'[o]
    BY <1>1, <2>2 DEF HeldOnce
  <2> QED
    BY <2>1, <2>2 DEF MembersMove
<1>2. ASSUME NEW h \in past[o], h.row = live, h.until >= from
      PROVE  HeldOnce(member'[o], past'[o], live, from)
  BY <1>2 DEF HeldOnce, MembersMove
<1> QED
  BY <1>1, <1>2 DEF HeldOnce

LEMMA HeldOnceLater ==
    ASSUME Typed, NEW o \in Orgs, NEW live, NEW from \in Int, NEW other \in Int,
           other <= from, HeldOnce(member[o], past[o], live, from)
    PROVE  HeldOnce(member[o], past[o], live, other)
<1>1. \A h \in past[o] : h.until \in Int
  BY DEF Typed, PastRow
<1> QED
  BY <1>1 DEF HeldOnce

LEMMA AgesPass ==
    ASSUME Times, Typed, AgesHold, Passes
    PROVE  AgesHold'
<1>1. \A o, live, from :
         HeldOnce(member'[o], past'[o], live, from) <=> HeldOnce(member[o], past[o], live, from)
  BY DEF Passes, HeldOnce
<1>2. ASSUME NEW r \in Replicas, NEW o \in Orgs
      PROVE  LET e == cache'[r][o] IN
             e = NotCached \/ (/\ e.at \in 0..now'
                                /\ HeldOnce(member'[o], past'[o], e.live, e.at - MaxRead))
  BY <1>1 DEF AgesHold, Passes, Typed
<1>3. ASSUME NEW t \in Tasks, task'[t].pc = "fill"
      PROVE  /\ task'[t].since \in 0..now' /\ now' - task'[t].since <= MaxRead
             /\ HeldOnce(member'[task'[t].org], past'[task'[t].org], task'[t].live,
                           task'[t].since)
  BY <1>1, <1>3 DEF AgesHold, Passes, Typed, Times
<1> QED
  BY <1>2, <1>3 DEF AgesHold, Passes

LEMMA AgesStep ==
    ASSUME Times, Typed, AgesHold, StepMoves
    PROVE  AgesHold'
<1>1. CASE Passes
  BY <1>1, AgesPass
<1>2. CASE now' = now /\ MembersMove /\ RowsMove /\ TasksMove /\ CacheMoves
  <2> USE <1>2
  <2>1. \A x \in TaskRow : x.since \in Nat
    BY DEF TaskRow
  <2>2. ASSUME NEW r \in Replicas, NEW o \in Orgs
        PROVE  LET e == cache'[r][o] IN
               e = NotCached \/ (/\ e.at \in 0..now'
                                /\ HeldOnce(member'[o], past'[o], e.live, e.at - MaxRead))
    <3>1. CASE cache'[r][o] = cache[r][o]
      <4> DEFINE e == cache[r][o]
      <4>1. e = NotCached
            \/ (e.at \in 0..now /\ HeldOnce(member[o], past[o], e.live, e.at - MaxRead))
        BY DEF AgesHold
      <4>2. CASE e # NotCached
        <5>1. e.at - MaxRead \in Int /\ e.at - MaxRead <= now
          BY <4>1, <4>2 DEF Times, Typed
        <5> QED
          BY <3>1, <4>1, <4>2, <5>1, HeldOnceStays
      <4> QED
        BY <3>1, <4>2
    <3>2. ASSUME NEW t \in Tasks, task[t].pc = "fill", task[t].org = o,
                 cache'[r][o] = [live |-> task[t].live, at |-> now]
          PROVE  LET e == cache'[r][o] IN
                 e.at \in 0..now' /\ HeldOnce(member'[o], past'[o], e.live, e.at - MaxRead)
      <4>1. /\ task[t].since \in 0..now /\ now - task[t].since <= MaxRead
            /\ HeldOnce(member[o], past[o], task[t].live, task[t].since)
        BY <3>2 DEF AgesHold
      <4>2. HeldOnce(member[o], past[o], task[t].live, now - MaxRead)
        BY <4>1, HeldOnceLater DEF Times, Typed
      <4>3. HeldOnce(member'[o], past'[o], task[t].live, now - MaxRead)
        BY <4>2, HeldOnceStays DEF Times, Typed
      <4> QED
        BY <3>2, <4>3 DEF Typed
    <3> QED
      BY <3>1, <3>2 DEF CacheMoves
  <2>3. ASSUME NEW t \in Tasks, task'[t].pc = "fill"
        PROVE  /\ task'[t].since \in 0..now' /\ now' - task'[t].since <= MaxRead
               /\ HeldOnce(member'[task'[t].org], past'[task'[t].org], task'[t].live,
                           task'[t].since)
    <3> DEFINE x == task[t]
               y == task'[t]
    <3>1. CASE y = x
      <4>1. /\ x.since \in 0..now /\ now - x.since <= MaxRead
            /\ HeldOnce(member[x.org], past[x.org], x.live, x.since) /\ x.org \in Orgs
        BY <2>3, <3>1 DEF AgesHold, Typed, Placed
      <4> QED
        BY <3>1, <4>1, HeldOnceStays DEF Typed
    <3>2. CASE Reads(x, y)
      <4>1. y.live = member[x.org] /\ y.since = now /\ y.org = x.org /\ x.org \in Orgs
        BY <2>3, <3>2 DEF Reads, Same, Typed, Placed
      <4>2. HeldOnce(member[y.org], past[y.org], y.live, y.since)
        BY <4>1 DEF HeldOnce
      <4> QED
        BY <4>1, <4>2, HeldOnceStays DEF Typed, Times
    <3> QED
      BY <2>3, <3>1, <3>2, IdleRow
         DEF TasksMove, Moves, Begins, Presents, GoesOn, Fills
  <2>4. ASSUME NEW t \in Tasks, task'[t].pc = "found"
        PROVE  HeldOnce(member'[task'[t].org], past'[task'[t].org], task'[t].live,
                        now' + 1 - CacheTtl - MaxRead)
    <3> DEFINE x == task[t]
               y == task'[t]
               from == now + 1 - CacheTtl - MaxRead
    <3>1. from \in Int /\ from <= now
      BY DEF Times, Typed
    <3>2. ASSUME x.org \in Orgs, y.org = x.org, HeldOnce(member[x.org], past[x.org], y.live, from)
          PROVE  HeldOnce(member'[y.org], past'[y.org], y.live, from)
      BY <3>1, <3>2, HeldOnceStays
    <3>3. CASE y = x
      BY <2>4, <3>2, <3>3 DEF AgesHold, Typed, Placed
    <3>4. CASE Reads(x, y)
      <4> DEFINE hit == cache[x.rep][x.org]
      <4>1. /\ y.live = hit.live /\ hit # NotCached /\ now - hit.at < CacheTtl
            /\ y.org = x.org /\ x.org \in Orgs /\ x.rep \in Replicas
        BY <2>4, <3>4 DEF Reads, Same, Fresh, Typed, Placed, Served
      <4>2. hit.at \in 0..now /\ HeldOnce(member[x.org], past[x.org], hit.live, hit.at - MaxRead)
        BY <4>1 DEF AgesHold
      <4>3. HeldOnce(member[x.org], past[x.org], hit.live, from)
        <5>1. from <= hit.at - MaxRead /\ hit.at - MaxRead \in Int
          BY <4>1, <4>2 DEF Times, Typed
        <5> HIDE DEF from, hit
        <5> QED
          BY <3>1, <4>1, <4>2, <5>1, HeldOnceLater
      <4> QED
        BY <3>2, <4>1, <4>3
    <3>5. CASE Fills(x, y)
      <4>1. /\ x.since \in 0..now /\ now - x.since <= MaxRead
            /\ HeldOnce(member[x.org], past[x.org], x.live, x.since) /\ x.org \in Orgs
            /\ y.org = x.org /\ y.live = x.live
        BY <3>5 DEF AgesHold, Fills, Same, Typed, Placed
      <4>2. HeldOnce(member[x.org], past[x.org], x.live, from)
        <5>1. from <= x.since
          BY <4>1 DEF Times, Typed
        <5> HIDE DEF from
        <5> QED
          BY <3>1, <4>1, <5>1, HeldOnceLater
      <4> QED
        BY <3>2, <4>1, <4>2
    <3>6. y = x \/ Reads(x, y) \/ Fills(x, y)
      BY <2>4, IdleRow DEF TasksMove, Moves, Begins, Presents, GoesOn
    <3> QED
      BY <3>3, <3>4, <3>5, <3>6
  <2> QED
    BY <2>2, <2>3, <2>4 DEF AgesHold
<1> QED
  BY <1>1, <1>2 DEF StepMoves

LEMMA AgesHolds ==
    ASSUME Times, Typed, AgesHold
    PROVE  AdmissionIsFresh
<1> SUFFICES ASSUME NEW t \in Tasks, task[t].pc = "found", Admitted(task[t])
             PROVE  HeldLately(task[t].org, task[t].sv)
  BY DEF AdmissionIsFresh
<1> DEFINE o == task[t].org
           live == task[t].live
<1>1. o \in Orgs /\ live # NotMember /\ live.sv = task[t].sv
  BY DEF Typed, Placed, Admitted
<1>2. HeldOnce(member[o], past[o], live, now + 1 - CacheTtl - MaxRead)
  BY DEF AgesHold
<1>3. \A h \in past[o] : h.until \in Int
  BY <1>1 DEF Typed, PastRow
<1> QED
  BY <1>1, <1>2, <1>3 DEF HeldOnce, HeldLately, Held, Times, Typed

\* Whoever is admitted held that version and a membership less than the cache's age plus one
\* read ago, for any processes, requests, workspaces and times (membership.service.ts current,
\* roles.guard.ts canActivate).
THEOREM AdmittedHeldLately ==
    ASSUME Times
    PROVE  Spec => []AdmissionIsFresh
<1>1. Init => Typed /\ AgesHold
  BY TypedInit, AgesInit DEF Times
<1>2. Typed /\ AgesHold /\ [Next]_vars => (Typed /\ AgesHold)'
  BY Step, AgesStep
<1>3. Typed /\ AgesHold => AdmissionIsFresh
  BY AgesHolds
<1> QED
  BY <1>1, <1>2, <1>3, PTL DEF Spec

-----------------------------------------------------------------------------
(***************************************************************************)
(* Families that ended.                                                    *)
(***************************************************************************)
LEMMA DeadStays ==
    ASSUME Typed, Typed', StepMoves, NEW f \in Rows, Dead(f)
    PROVE  Dead(f)'
<1>1. CASE Passes
  BY <1>1 DEF Passes, Dead, Rows
<1>2. CASE now' = now /\ MembersMove /\ RowsMove /\ TasksMove /\ CacheMoves
  <2> USE <1>2
  <2>1. ASSUME NEW k \in Rows', refresh'[k].family = f
        PROVE  ~refresh'[k].live
    <3>1. CASE k \in Rows
      BY <2>1, <3>1 DEF RowsMove, RowsKept, Dead
    <3>2. ASSUME NEW t \in Tasks, Adds(t), k \notin Rows
          PROVE  FALSE
      <4>1. k = Len(refresh) + 1 /\ f # k /\ task[t].pc = "found"
        BY <3>2 DEF Adds
      <4>2. task[t].family = f
        BY <2>1, <3>2, <4>1 DEF Adds
      <4> QED
        BY <4>1, <4>2 DEF Dead, Typed
    <3> QED
      BY <3>1, <3>2 DEF RowsMove
  <2>2. ASSUME NEW t \in Tasks, task'[t].family = f
        PROVE  task'[t].pc = "reused"
    <3> DEFINE x == task[t]
               y == task'[t]
    <3>1. x.family = f => x.pc = "reused"
      BY DEF Dead, Typed
    <3>2. f # 0
      BY LenProperties DEF Typed, Rows
    <3>3. y # Idle /\ ~Begins(x, y)
      BY <2>2, <3>2, IdleRow DEF Begins
    <3>4. ~GoesOn(x, y) /\ ~Reads(x, y) /\ ~Fills(x, y)
      BY <2>2, <3>1 DEF GoesOn, Reads, Fills, Same
    <3>5. CASE Presents(x, y)
      BY <2>2, <3>5 DEF Presents, Dead
    <3> QED
      BY <2>2, <3>1, <3>3, <3>4, <3>5 DEF TasksMove, Moves
  <2> QED
    BY <2>1, <2>2 DEF Dead, Typed
<1> QED
  BY <1>1, <1>2 DEF StepMoves

\* A family that ended stays ended, however its tokens are presented and however requests
\* interleave (auth.service.ts refresh, logout, createSession).
THEOREM EndedForGood ==
    ASSUME Roles # {}
    PROVE  Spec => DeadFamilyStaysDead
<1>1. Init => Typed
  BY TypedInit
<1>2. Typed /\ [Next]_vars => Typed'
  BY Step
<1>3. Typed /\ [Next]_vars => [\A f \in Rows : Dead(f) => Dead(f)']_vars
  BY Step, DeadStays
<1> QED
  BY <1>1, <1>2, <1>3, PTL DEF Spec, DeadFamilyStaysDead

-----------------------------------------------------------------------------
(***************************************************************************)
(* Sessions that change workspace.                                         *)
(***************************************************************************)
\* a membership the person does not have, or was without at some time
LostRow(row, earlier) == row = NotMember \/ \E h \in earlier : h.row = NotMember
HomeOf(k) == refresh[refresh[k].family].org

HomeOrLost ==
    /\ \A k \in Rows : /\ refresh[k].family \in Rows
                       /\ refresh[k].org = HomeOf(k) \/ LostRow(member[HomeOf(k)], past[HomeOf(k)])
    /\ \A t \in Tasks :
          LET home == refresh[task[t].family].org IN
          task[t].op = "refresh" => /\ task[t].family \in Rows
                                    /\ task[t].org = home \/ LostRow(member[home], past[home])

LEMMA HomeInit == Init => HomeOrLost
BY IdleRow DEF Init, HomeOrLost, Rows

LEMMA LostStays ==
    ASSUME MembersMove, NEW o \in Orgs, LostRow(member[o], past[o])
    PROVE  LostRow(member'[o], past'[o])
<1>1. CASE member[o] = NotMember
  <2>1. CASE member'[o] = member[o]
    BY <1>1, <2>1 DEF LostRow
  <2>2. CASE [row |-> member[o], until |-> now] \in past'[o]
    BY <1>1, <2>2 DEF LostRow
  <2> QED
    BY <2>1, <2>2 DEF MembersMove
<1>2. ASSUME NEW h \in past[o], h.row = NotMember
      PROVE  LostRow(member'[o], past'[o])
  BY <1>2 DEF LostRow, MembersMove
<1> QED
  BY <1>1, <1>2 DEF LostRow

LEMMA HomeStep ==
    ASSUME Typed, HomeOrLost, StepMoves
    PROVE  HomeOrLost'
<1>1. CASE Passes
  BY <1>1 DEF Passes, HomeOrLost, HomeOf, Rows, LostRow
<1>2. CASE now' = now /\ MembersMove /\ RowsMove /\ TasksMove /\ CacheMoves
  <2> USE <1>2
  <2>1. \A k \in Rows : /\ k \in Rows' /\ refresh'[k].org = refresh[k].org
                       /\ refresh'[k].family = refresh[k].family
                       /\ refresh[k].org \in Orgs
    BY RowTyped DEF RowsMove, RowsKept, TokenRow
  \* what a row or a task said of its family still holds after the step
  <2>2. ASSUME NEW f \in Rows, NEW org,
               org = refresh[f].org \/ LostRow(member[refresh[f].org], past[refresh[f].org])
        PROVE  org = refresh'[f].org \/ LostRow(member'[refresh'[f].org], past'[refresh'[f].org])
    BY <2>1, <2>2, LostStays
  <2>3. ASSUME NEW t \in Tasks, task'[t].op = "refresh"
        PROVE  LET home == refresh[task'[t].family].org IN
               /\ task'[t].family \in Rows
               /\ task'[t].org = home \/ LostRow(member[home], past[home])
    <3> DEFINE x == task[t]
               y == task'[t]
    <3>1. CASE y = x \/ Same(x, y)
      BY <2>3, <3>1 DEF HomeOrLost, Same
    <3>2. ASSUME NEW k \in Rows, y.family = refresh[k].family, y.org = Scope(refresh[k])
          PROVE  LET home == refresh[y.family].org IN
                 y.family \in Rows /\ (y.org = home \/ LostRow(member[home], past[home]))
      <4> DEFINE home == HomeOf(k)
      <4>1. /\ refresh[k].family \in Rows
            /\ refresh[k].org = home \/ LostRow(member[home], past[home])
        BY DEF HomeOrLost
      <4>2. CASE refresh[k].org \in Held
        BY <3>2, <4>1, <4>2 DEF Scope, HomeOf
      <4>3. CASE refresh[k].org \notin Held
        BY <2>1, <3>2, <4>1, <4>3 DEF Held, LostRow, HomeOf
      <4> QED
        BY <4>2, <4>3
    <3> QED
      BY <2>3, <3>1, <3>2, IdleRow DEF TasksMove, Moves, Begins, Presents, GoesOn, Reads, Fills
  <2>4. ASSUME NEW t \in Tasks, task'[t].op = "refresh"
        PROVE  LET home == refresh'[task'[t].family].org IN
               /\ task'[t].family \in Rows'
               /\ task'[t].org = home \/ LostRow(member'[home], past'[home])
    BY <2>1, <2>2, <2>3, <2>4
  <2>5. ASSUME NEW k \in Rows'
        PROVE  LET home == refresh'[refresh'[k].family].org IN
               /\ refresh'[k].family \in Rows'
               /\ refresh'[k].org = home \/ LostRow(member'[home], past'[home])
    <3>1. CASE k \in Rows
      <4> DEFINE f == refresh[k].family
                 org == refresh[k].org
      <4>1. /\ f \in Rows
            /\ org = refresh[f].org \/ LostRow(member[refresh[f].org], past[refresh[f].org])
        BY <3>1 DEF HomeOrLost, HomeOf
      <4>2. refresh'[k].family = f /\ refresh'[k].org = org /\ f \in Rows'
        BY <2>1, <3>1, <4>1
      <4> HIDE DEF f, org
      <4>3. org = refresh'[f].org \/ LostRow(member'[refresh'[f].org], past'[refresh'[f].org])
        BY <2>2, <4>1
      <4> QED
        BY <4>2, <4>3
    <3>2. ASSUME NEW t \in Tasks, Adds(t), k \notin Rows
          PROVE  LET home == refresh'[refresh'[k].family].org IN
                 /\ refresh'[k].family \in Rows'
                 /\ refresh'[k].org = home \/ LostRow(member'[home], past'[home])
      <4>1. k = Len(refresh) + 1 /\ refresh'[k].org = task[t].org
        BY <3>2 DEF Adds
      <4>2. CASE task[t].op # "refresh"
        BY <3>2, <4>1, <4>2 DEF Adds
      <4>3. CASE task[t].op = "refresh"
        <5>1. LET home == refresh[task[t].family].org IN
              /\ task[t].family \in Rows
              /\ task[t].org = home \/ LostRow(member[home], past[home])
          BY <4>3 DEF HomeOrLost
        <5>2. refresh'[k].family = task[t].family
          BY <3>2, <4>1, <4>3 DEF Adds
        <5> QED
          BY <2>1, <2>2, <4>1, <5>1, <5>2
      <4> QED
        BY <4>2, <4>3
    <3> QED
      BY <3>1, <3>2 DEF RowsMove
  <2> QED
    BY <2>4, <2>5 DEF HomeOrLost, HomeOf
<1> QED
  BY <1>1, <1>2 DEF StepMoves

\* A rotation moves a session to another workspace only when the person lost the one it was
\* made for (auth.service.ts refresh).
THEOREM MovedWhenRemoved ==
    ASSUME Roles # {}
    PROVE  Spec => []MovedOnlyWhenRemoved
<1>1. Init => Typed /\ HomeOrLost
  BY TypedInit, HomeInit
<1>2. Typed /\ HomeOrLost /\ [Next]_vars => (Typed /\ HomeOrLost)'
  BY Step, HomeStep
<1>3. Typed /\ HomeOrLost => MovedOnlyWhenRemoved
  BY RowTyped DEF HomeOrLost, HomeOf, MovedOnlyWhenRemoved, LostRow, Held, TokenRow
<1> QED
  BY <1>1, <1>2, <1>3, PTL DEF Spec
=============================================================================
