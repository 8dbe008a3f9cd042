------------------------------ MODULE Realtime ------------------------------
(***************************************************************************)
(* RealtimeGateway: one person's sockets into one workspace, one on each   *)
(* API process, while the membership they were opened under changes.       *)
(*                                                                         *)
(* Time passes in ticks, and no check is under way while it does: a check  *)
(* takes milliseconds.  The token a socket is opened with carries the      *)
(* session version of its day; the token's own expiry is Sessions'.        *)
(***************************************************************************)
EXTENDS Integers, FiniteSets

CONSTANTS
    Replicas,
    CacheTtl,       \* CACHE_TTL_MS
    Every,          \* REVALIDATE_MS
    MaxAge,         \* MAX_SOCKET_LIFETIME_MS
    MaxVersion, MaxChanges  \* bounds

RealtimeAssumption == {CacheTtl, Every, MaxAge} \subseteq Nat \ {0}

VARIABLES
    right,      \* the Membership row: whether it is there, its session version
    cache,      \* of each process: the answer it keeps, and for how long yet
    socket,     \* of each process: none, being checked, or joined; and its age
    look,       \* of each process: the membership look-up under way
    timer,      \* ticks to the next revalidation
    notice,     \* processes a disconnect is on its way to
    ending,     \* the process about to close the sockets, or none
    changes,
    without     \* ghost: ticks each socket has lived without the right to

vars == <<right, cache, socket, look, timer, notice, ending, changes, without>>

Gone == -1
NoCache == [value |-> Gone, left |-> 0]
NoSocket == [pc |-> "none", version |-> 0, age |-> 0]
NoLook == [by |-> "none", value |-> Gone]
Nobody == "nobody"

Init ==
    /\ right = [member |-> TRUE, version |-> 0]
    /\ cache = [r \in Replicas |-> NoCache]
    /\ socket = [r \in Replicas |-> NoSocket]
    /\ look = [r \in Replicas |-> NoLook]
    /\ timer = [r \in Replicas |-> Every]
    /\ notice = {} /\ ending = Nobody /\ changes = 0
    /\ without = [r \in Replicas |-> 0]

Row == IF right.member THEN right.version ELSE Gone

-----------------------------------------------------------------------------
\* handleConnection, with a token of any day; useRealtime closes the last socket
Connect(r, version) ==
    /\ look[r] = NoLook /\ version <= MaxVersion
    /\ socket' = [socket EXCEPT ![r] = [pc |-> "asking", version |-> version, age |-> 0]]
    /\ without' = [without EXCEPT ![r] = 0]
    /\ look' = [look EXCEPT ![r].by = "handshake"]
    /\ UNCHANGED <<right, cache, timer, notice, ending, changes>>

\* the timer fires
Revalidate(r) ==
    /\ timer[r] = 0 /\ look[r] = NoLook
    /\ timer' = [timer EXCEPT ![r] = Every]
    /\ IF socket[r].pc = "joined" /\ socket[r].age <= MaxAge
       THEN look' = [look EXCEPT ![r].by = "timer"] /\ UNCHANGED socket
       ELSE socket' = [socket EXCEPT ![r] = NoSocket] /\ UNCHANGED look
    /\ UNCHANGED <<right, cache, notice, ending, changes, without>>

\* MembershipService.current: kept for a while, else read, and kept when it is back
Read(r) ==
    /\ look[r].by \in {"handshake", "timer"} /\ cache[r].left = 0
    /\ look' = [look EXCEPT ![r] =
          [by |-> IF @.by = "timer" THEN "timerRead" ELSE "handshakeRead", value |-> Row]]
    /\ UNCHANGED <<right, cache, socket, timer, notice, ending, changes, without>>

FitsAnyMember(s, value) == value # Gone
Fits(s, value) == value = s.version

Decide(r, value) ==
    /\ socket' = [socket EXCEPT ![r] =
           IF socket[r].pc # "none" /\ Fits(socket[r], value) THEN [@ EXCEPT !.pc = "joined"]
           ELSE NoSocket]
    /\ look' = [look EXCEPT ![r] = NoLook]
    /\ UNCHANGED <<right, timer, notice, ending, changes, without>>

AnsweredFromCache(r) ==
    /\ look[r].by \in {"handshake", "timer"} /\ cache[r].left > 0
    /\ Decide(r, cache[r].value)
    /\ UNCHANGED cache

Answered(r) ==
    /\ look[r].by \in {"handshakeRead", "timerRead"}
    /\ cache' = [cache EXCEPT ![r] = [value |-> look[r].value, left |-> CacheTtl]]
    /\ Decide(r, look[r].value)

-----------------------------------------------------------------------------
\* the row as it becomes gives their right back to the sockets it fits
Since(to) ==
    [r \in Replicas |-> IF to.member /\ socket[r].version = to.version THEN 0 ELSE without[r]]

\* changeRole and remove on process r: the row, then its own cache ...
Changes(r, to) ==
    /\ changes < MaxChanges /\ right.member /\ ending = Nobody
    /\ right' = to /\ changes' = changes + 1
    /\ cache' = [cache EXCEPT ![r] = NoCache]
    /\ ending' = r
    /\ without' = Since(to)
    /\ UNCHANGED <<socket, look, timer, notice>>

ChangeRole(r) == Changes(r, [right EXCEPT !.version = @ + 1])
Remove(r) == Changes(r, [right EXCEPT !.member = FALSE])

\* ... then revokeSessions: its own room, and a message to the others that may be lost
Disconnect ==
    /\ ending # Nobody
    /\ socket' = [socket EXCEPT ![ending] = IF @.pc = "joined" THEN NoSocket ELSE @]
    /\ \E reached \in SUBSET (Replicas \ {ending}) : notice' = notice \cup reached
    /\ ending' = Nobody
    /\ UNCHANGED <<right, cache, look, timer, changes, without>>

\* the process dies between the two, and its sockets with it
Crash ==
    /\ ending # Nobody
    /\ socket' = [socket EXCEPT ![ending] = NoSocket]
    /\ cache' = [cache EXCEPT ![ending] = NoCache]
    /\ look' = [look EXCEPT ![ending] = NoLook]
    /\ timer' = [timer EXCEPT ![ending] = Every]
    /\ ending' = Nobody
    /\ UNCHANGED <<right, notice, changes, without>>

Delivered(r) ==
    /\ r \in notice
    /\ socket' = [socket EXCEPT ![r] = IF @.pc = "joined" THEN NoSocket ELSE @]
    /\ notice' = notice \ {r}
    /\ UNCHANGED <<right, cache, look, timer, ending, changes, without>>

\* a new invitation: the row starts at version 0 again, and fits sockets of the first
Rejoin ==
    /\ ~right.member
    /\ right' = [member |-> TRUE, version |-> 0]
    /\ without' = Since(right')
    /\ UNCHANGED <<cache, socket, look, timer, notice, ending, changes>>

\* a row changed "by a migration or by hand"
ByHand ==
    /\ changes < MaxChanges /\ right.member
    /\ right' = [right EXCEPT !.member = FALSE] /\ changes' = changes + 1
    /\ UNCHANGED <<cache, socket, look, timer, notice, ending, without>>

Tick ==
    /\ \A r \in Replicas : look[r] = NoLook /\ timer[r] > 0
    /\ ending = Nobody
    /\ timer' = [r \in Replicas |-> timer[r] - 1]
    /\ cache' = [r \in Replicas |-> [cache[r] EXCEPT !.left = IF @ > 0 THEN @ - 1 ELSE 0]]
    /\ socket' = [r \in Replicas |->
          [socket[r] EXCEPT !.age = IF socket[r].pc = "none" THEN 0 ELSE @ + 1]]
    /\ without' = [r \in Replicas |-> IF socket[r].pc = "joined" /\ socket[r].version # Row
                                      THEN without[r] + 1 ELSE 0]
    /\ UNCHANGED <<right, look, notice, ending, changes>>

Next ==
    \/ Disconnect \/ Crash \/ Rejoin \/ ByHand \/ Tick
    \/ \E r \in Replicas :
         \/ Revalidate(r) \/ Read(r) \/ AnsweredFromCache(r) \/ Answered(r) \/ Delivered(r)
         \/ ChangeRole(r) \/ Remove(r)
         \/ \E version \in 0..right.version : Connect(r, version)

Spec == Init /\ [][Next]_vars

-----------------------------------------------------------------------------
\* S-17: no socket goes on receiving a workspace's events for longer than one
\* revalidation and one cached answer after the right to them ended, and none is older
\* than a token and one revalidation, whichever messages were lost.
NoSocketOutlivesItsRight ==
    \A r \in Replicas : without[r] <= Every + CacheTtl /\ socket[r].age <= MaxAge + Every
=============================================================================
