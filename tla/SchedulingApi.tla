--------------------------- MODULE SchedulingApi ---------------------------
(***************************************************************************)
(* The publish pipeline together with the API handlers that touch the same *)
(* rows (apps/api, scheduling/scheduling.service.ts).  A handler reads the *)
(* row, refuses some statuses, and then updates by id without looking      *)
(* again: the read and the write are two steps, and the engine may run in  *)
(* between.                                                                *)
(***************************************************************************)
EXTENDS PublishPipeline

CONSTANTS
    Ops,        \* the handlers clients call in this instance
    PlanPosts   \* the posts an autopilot plan booked

ASSUME ApiAssumption ==
    /\ Ops \subseteq {"cancel", "edit", "retry", "replan"}
    /\ PlanPosts \subseteq Posts

VARIABLE calls  \* handlers between their read and their write

apiVars == <<vars, calls>>

Calls == [op : {"cancel", "edit", "retry"}, post : Posts]

\* A slip: an edit is refused while the post is publishing, and not afterwards.
AcceptsPublished(op) ==
    IF op = "cancel" THEN {"PENDING"}
    ELSE IF op = "retry" THEN {"FAILED"}
    ELSE PostStatuses \ {"PROCESSING"}

\* The statuses each handler accepts when it reads the row.
Accepts(op) ==
    IF op = "cancel" THEN {"PENDING"}
    ELSE IF op = "retry" THEN {"FAILED"}
    ELSE PostStatuses \ {"PUBLISHED", "PROCESSING"}

ApiInit == Init /\ calls = {}

\* cancel, editPending and retry read the row and let it pass.
ApiRead(op, p) ==
    /\ op \in Ops
    /\ post[p].status \in Accepts(op)
    /\ [op |-> op, post |-> p] \notin calls
    /\ calls' = calls \cup {[op |-> op, post |-> p]}
    /\ Upset
    /\ UNCHANGED <<now, dispatchedAt, post, rowVars, gateVars, outbox, queue, pc,
                   job, reaping, accepted, risk>>

ApiWrite(c, row) ==
    /\ c \in calls
    /\ calls' = calls \ {c}
    /\ post' = [post EXCEPT ![c.post] = row]
    /\ IF post[c.post].status \in Accepts(c.op) THEN risk' = risk
       ELSE Blame(c.post, "blind")
    /\ UNCHANGED <<now, dispatchedAt, rowVars, gateVars, outbox, queue, pc, job,
                   reaping, upsets, accepted>>

\* cancel's update leaves lockedAt alone.
CancelWrite(c) ==
    /\ c.op = "cancel"
    /\ ApiWrite(c, [post[c.post] EXCEPT !.status = "CANCELLED"])

\* A slip: the lock is not cleared.
RequeuedWithLock(p, when) ==
    [post[p] EXCEPT !.status = "PENDING", !.scheduledAt = when, !.attempts = 0]

\* The row editPending and retry leave behind.
Requeued(p, when) ==
    [status |-> "PENDING", lockedAt |-> NoLock, scheduledAt |-> when, attempts |-> 0]

\* editPending re-queues the post, at a new time if one was given.
EditWrite(c) ==
    /\ c.op = "edit"
    /\ \E when \in DueTimes \cup {post[c.post].scheduledAt} :
         ApiWrite(c, Requeued(c.post, when))

RetryWrite(c) ==
    /\ c.op = "retry"
    /\ ApiWrite(c, Requeued(c.post, post[c.post].scheduledAt))

\* updatePlan with a new timing: one conditional update over the plan's posts.
Replan ==
    LET upcoming == {p \in PlanPosts :
                        post[p].status = "PENDING" /\ post[p].scheduledAt > now}
    IN
    /\ "replan" \in Ops
    /\ upcoming # {}
    /\ post' = [p \in Posts |-> IF p \in upcoming
                                THEN [post[p] EXCEPT !.status = "CANCELLED"]
                                ELSE post[p]]
    /\ Upset
    /\ UNCHANGED <<now, dispatchedAt, rowVars, gateVars, outbox, queue, pc, job,
                   reaping, accepted, risk, calls>>

\* A request lasts milliseconds: the clock does not move inside one.
ApiNext ==
    \/ Next /\ UNCHANGED calls /\ (calls # {} => now' = now)
    \/ \E op \in {"cancel", "edit", "retry"}, p \in Posts : ApiRead(op, p)
    \/ \E c \in calls : CancelWrite(c) \/ EditWrite(c) \/ RetryWrite(c)
    \/ Replan

ApiSpec == ApiInit /\ [][ApiNext]_apiVars
----------------------------------------------------------------------------
(***************************************************************************)
(* Correctness.                                                            *)
(***************************************************************************)

\* Types of all variables.
TypeOK ==
    /\ now \in Nat /\ dispatchedAt \in Nat \cup {-1}
    /\ post \in [Posts -> Rows]
    /\ content \in [Contents -> ContentStatuses]
    /\ channel \in [Channels -> ChannelStatuses]
    /\ media \in [Contents -> MediaStates]
    /\ requireApproval \subseteq Orgs /\ locked \subseteq Orgs
    /\ outbox \subseteq Messages /\ queue \subseteq Messages
    /\ pc \in [Workers -> Live \cup {"idle", "done"}]
    /\ job \in [Workers -> Jobs]
    /\ \A w \in Workers : Busy(w) => job[w].post \in Posts
    /\ reaping \subseteq Messages
    /\ upsets \in Nat
    /\ accepted \in [Posts -> Nat]
    /\ risk \in [Posts -> SUBSET Risks]
    /\ calls \subseteq Calls

\* A post carries a lock exactly while it is claimed, so a claim nobody resolves
\* is always visible to reap_stuck_posts, and the stale-lock branch of
\* due_posts_query never finds a row: recovery rests on the reaper alone.
LockMeansClaimed ==
    \A p \in Posts :
        /\ post[p].status = "PROCESSING" => post[p].lockedAt \in 0..now
        /\ post[p].status = "PENDING" => post[p].lockedAt = NoLock

\* The lease.  A copy of publish_post that starts early enough for its hard limit
\* to fall inside the reaper's window owns its row until it resolves it: the row
\* stays PROCESSING under that copy's claim, whatever the reaper, the dispatcher,
\* older copies and redelivered messages do, unless somebody wrote to the row
\* without looking.
LeaseHeld ==
    \A w \in Workers :
        LET p == job[w].post IN
        pc[w] \in Live /\ Timely(job[w].began, job[w].claim) /\ "blind" \notin risk[p]
            => Holds(p, job[w].claim)

\* The platform accepts a post once, unless a copy started too late for its lease,
\* somebody wrote to the row without looking, or an acceptance was never recorded.
AtMostOnce ==
    \A p \in Posts : risk[p] = {} => accepted[p] <= 1

\* An acceptance that is recorded stays recorded: nothing re-opens the post.
AcceptedStaysPublished ==
    \A p \in Posts :
        risk[p] = {} /\ accepted[p] > 0 =>
            \/ post[p].status = "PUBLISHED"
            \/ \E w \in Workers : job[w].post = p /\ pc[w] = "accepted"

\* The retry budget: a post that is still going to be attempted has attempts left,
\* so no sequence of transient and unclassified failures makes it loop.
RetryBudget ==
    \A p \in Posts :
        risk[p] = {} /\ post[p].status \in {"PENDING", "PROCESSING"} =>
            post[p].attempts < MaxAttempts

\* What the pipeline shows of a post, for PostPromise.
Outward(p) ==
    IF \E w \in Workers : job[w].post = p /\ pc[w] = "accepted" THEN "sent"
    ELSE CASE post[p].status = "PENDING"    -> "waiting"
           [] post[p].status = "PROCESSING" -> "claimed"
           [] post[p].status = "PUBLISHED"  -> "published"
           [] post[p].status = "FAILED"     -> "failed"
           [] post[p].status = "CANCELLED"  -> "cancelled"

Promise == INSTANCE PostPromise WITH
    state <- [p \in Posts |-> Outward(p)],
    sends <- accepted,
    loose <- {p \in Posts : risk[p] # {}}

\* The pipeline and the API together implement PostPromise: dispatching, redelivery,
\* crashes, the reaper and the retries show outside as a post that is sent once and
\* whose recorded outcome stands.
PromiseKept == Promise!Spec

\* PUBLISHED, FAILED and CANCELLED are left only by a user who edits or retries the
\* post: no copy of publish_post, no sweep and no cancelled request re-opens it or
\* overwrites the verdict.
VerdictStands ==
    [][\A p \in Posts :
         /\ post[p].status \in {"PUBLISHED", "FAILED", "CANCELLED"}
         /\ post'[p].status # post[p].status
         /\ risk'[p] = {}
         => \E c \in calls \ calls' : c.post = p /\ c.op \in {"edit", "retry"}]_apiVars
=============================================================================
