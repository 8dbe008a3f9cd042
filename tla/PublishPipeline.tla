-------------------------- MODULE PublishPipeline --------------------------
(***************************************************************************)
(* The publish pipeline of the engine (apps/engine, tasks/scheduler.py):   *)
(* beat claims due ScheduledPost rows, Celery carries one message per      *)
(* claim to a worker, the worker calls the platform and records what came  *)
(* of it, and a reaper takes back claims that nobody resolved.             *)
(*                                                                         *)
(* Every row write here is what the code does: an UPDATE by primary key    *)
(* that re-checks nothing, in a transaction of its own.  One step of this  *)
(* module is one such transaction, one broker operation or one platform    *)
(* call, so another process may run between any two of them.               *)
(*                                                                         *)
(* Time is counted in ticks.  A tick is at least CLAIM_TOLERANCE_SEC and   *)
(* at most one beat of the dispatcher, so the comparison of a message's    *)
(* claimed_at with lockedAt is equality of ticks.                          *)
(***************************************************************************)
EXTENDS Integers, FiniteSets

CONSTANTS
    Posts,          \* ScheduledPost rows
    Orgs,           \* workspaces
    Contents,       \* ContentItem rows, shared by sibling posts
    Channels,       \* SocialConnection rows
    Workers,        \* Celery worker slots consuming the publish queue
    NoPost,         \* what an idle slot works on
    OrgOf, ContentOf, ChannelOf,    \* the foreign keys of a post
    PhotoChannels,  \* channels on MEDIA_REQUIRED_PLATFORMS
    MaxAttempts,    \* MAX_ATTEMPTS
    RetryDelay,     \* RETRY_DELAY_MINUTES
    LockTimeout,    \* LOCK_TIMEOUT_MINUTES
    StuckAfter,     \* STUCK_POST_MINUTES
    HardLimit,      \* PUBLISH_HARD_LIMIT_SEC
    ImageWait,      \* IMAGE_WAIT_MINUTES
    DispatchBatch,  \* DISPATCH_BATCH
    PerOrgPerTick,  \* PER_ORG_PER_TICK
    CallTries,      \* attempts BasePublisher.publish makes inside one call
    DueTimes,       \* scheduledAt values of the instance
    InitialContent, \* content statuses a booked post may start from
    InitialMedia,   \* media states a booked post may start from
    MaxTime,        \* bound: the last tick of the clock
    MaxUpsets       \* bound: crashes, lost messages, exceptions, setting changes

ASSUME KeysAssumption ==
    /\ OrgOf \in [Posts -> Orgs]
    /\ ContentOf \in [Posts -> Contents]
    /\ ChannelOf \in [Posts -> Channels]
    /\ PhotoChannels \subseteq Channels
    /\ NoPost \notin Posts

ASSUME TimesAssumption ==
    /\ {MaxAttempts, RetryDelay, LockTimeout, StuckAfter, HardLimit, ImageWait,
        DispatchBatch, PerOrgPerTick, CallTries, MaxTime, MaxUpsets} \subseteq Nat
    /\ DueTimes \subseteq Nat
    /\ MaxAttempts > 0

PostStatuses == {"PENDING", "PROCESSING", "PUBLISHED", "FAILED", "CANCELLED"}
ContentStatuses ==
    {"DRAFT", "PENDING_APPROVAL", "APPROVED", "SCHEDULED", "PUBLISHED", "ARCHIVED"}
ApprovalSatisfied == {"APPROVED", "SCHEDULED", "PUBLISHED"}
\* DISCONNECTED and REVOKED are refused exactly as EXPIRED is: one value
\* stands for the three, and ACTIVE for EXPIRING_SOON, which is attempted.
ChannelStatuses == {"ACTIVE", "ERROR", "EXPIRED"}
\* Whether a content item has a MediaAsset, or an IMAGE AgentRun that is
\* QUEUED or RUNNING, or neither.
MediaStates == {"none", "coming", "ready"}
NoLock == -1

ASSUME InitialAssumption ==
    /\ InitialContent \subseteq ContentStatuses
    /\ InitialMedia \subseteq MediaStates

VARIABLES
    now,            \* utcnow()
    dispatchedAt,   \* the last tick at which the dispatcher claimed anything
    post,           \* ScheduledPost: status, lockedAt, scheduledAt, attempts
    content,        \* ContentItem.status
    channel,        \* SocialConnection.status
    media,          \* MediaAsset and AgentRun rows of a content item
    requireApproval,\* the organisations with the approval gate on
    locked,         \* the organisations locked_org_ids returns
    outbox,         \* claims committed whose publish_post.delay has not run
    queue,          \* messages the broker holds, redelivered ones included
    pc,             \* where each worker slot is in publish_post
    job,            \* the locals of that publish_post
    reaping,        \* rows reap_stuck_posts selected and has not updated
    upsets,         \* how many upsets happened (bounds the exploration)
    accepted,       \* history: how often the platform accepted the post, up to 2
    risk            \* history: the ways a post left the protocol's hands

rowVars  == <<content, channel, media>>
gateVars == <<requireApproval, locked>>
vars == <<now, dispatchedAt, post, content, channel, media, requireApproval,
          locked, outbox, queue, pc, job, reaping, upsets, accepted, risk>>

Rows == [status : PostStatuses, lockedAt : Nat \cup {NoLock},
         scheduledAt : Nat, attempts : Nat]
Messages == [post : Posts, claim : Nat]
\* claimed      the row was read and is this message's claim
\* refused      the channel cannot publish, _finish(error) is next
\* plain        no media was found, the image check is next
\* releasing    the image is coming, _release_claim is next
\* calling      publisher.publish
\* accepted     the platform took it, _finish is next
\* failing      publish raised, _record_failure is next
\* raised       an exception escaped, _fail_unclassified is next
\* recording    _fail_unclassified read the row, _record_failure is next
\* done         publish_post returned, the message is not acked yet
Live == {"claimed", "refused", "plain", "releasing", "calling", "accepted",
         "failing", "raised", "recording"}
Verdicts == {"retry", "fail", "fault"}
Jobs == [post : Posts \cup {NoPost}, claim : Nat, began : Nat, due : Nat,
         attempts : Nat, tries : Nat, bare : BOOLEAN, verdict : Verdicts]
NoJob == [post |-> NoPost, claim |-> 0, began |-> 0, due |-> 0, attempts |-> 0,
          tries |-> 0, bare |-> FALSE, verdict |-> "retry"]
Risks == {"late", "blind", "unrecorded"}
----------------------------------------------------------------------------
\* A row as schedule() and cancel() leave it.
Row(status, due) ==
    [status |-> status, lockedAt |-> NoLock, scheduledAt |-> due, attempts |-> 0]

StartWith(rows, used) ==
    /\ now = 0
    /\ dispatchedAt = -1
    /\ post = rows
    /\ content \in [Contents -> InitialContent]
    /\ channel = [k \in Channels |-> "ACTIVE"]
    /\ media \in [Contents -> InitialMedia]
    /\ requireApproval = {} /\ locked = {}
    /\ outbox = {} /\ queue = {}
    /\ pc = [w \in Workers |-> "idle"]
    /\ job = [w \in Workers |-> NoJob]
    /\ reaping = {}
    /\ upsets = used
    /\ accepted = [p \in Posts |-> 0]
    /\ risk = [p \in Posts |-> {}]

Init ==
    \E due \in [Posts -> DueTimes] : StartWith([p \in Posts |-> Row("PENDING", due[p])], 0)

Busy(w) == pc[w] # "idle"

\* A slip: the message is read after the slot was cleared.
MessageOfClearedSlot(w) == [post |-> NoPost, claim |-> job[w].claim]

\* The message a slot works on, which the broker still has until the ack.
Message(w) == [post |-> job[w].post, claim |-> job[w].claim]
Upset == upsets < MaxUpsets /\ upsets' = upsets + 1

(***************************************************************************)
(* A write is blind when the row it lands on is no longer the claim its    *)
(* writer checked.                                                         *)
(***************************************************************************)
\* The row is still the claim c.
Holds(p, c) == post[p].status = "PROCESSING" /\ post[p].lockedAt = c

\* A row as a claim leaves it, and as the end of a claim leaves it.
Claimed(p) == [post[p] EXCEPT !.status = "PROCESSING", !.lockedAt = now]
Released(p, status) == [post[p] EXCEPT !.status = status, !.lockedAt = NoLock]

Blame(p, why) == risk' = [risk EXCEPT ![p] = @ \cup {why}]

WriteRow(w, row) ==
    LET p == job[w].post IN
    /\ post' = [post EXCEPT ![p] = row]
    /\ IF Holds(p, job[w].claim) THEN risk' = risk ELSE Blame(p, "blind")

Step(w, to) == pc' = [pc EXCEPT ![w] = to]

\* The attempt failed, with this count and this verdict.
Judge(w, attempts, v) ==
    job' = [job EXCEPT ![w] = [@ EXCEPT !.attempts = attempts, !.verdict = v]]
----------------------------------------------------------------------------
(***************************************************************************)
(* dispatch_due_posts                                                      *)
(***************************************************************************)
\* A slip: the status condition is lost, so the lock alone protects a row.
DueWhateverStatus(p) ==
    /\ post[p].scheduledAt <= now
    /\ post[p].lockedAt = NoLock \/ post[p].lockedAt < now - LockTimeout
    /\ OrgOf[p] \notin locked

\* A slip: failed posts are swept up with the pending ones.
DueOrFailed(p) ==
    /\ post[p].status \in {"PENDING", "FAILED"}
    /\ post[p].scheduledAt <= now
    /\ OrgOf[p] \notin locked

\* The WHERE clause of due_posts_query.
Due(p) ==
    /\ post[p].status = "PENDING"
    /\ post[p].scheduledAt <= now
    /\ post[p].lockedAt = NoLock \/ post[p].lockedAt < now - LockTimeout
    /\ OrgOf[p] \in requireApproval => content[ContentOf[p]] \in ApprovalSatisfied
    /\ OrgOf[p] \notin locked

\* The posts that rank within PER_ORG_PER_TICK in their workspace, oldest
\* first; posts due at the same tick rank in any order.
Fair(S) ==
    /\ \A p \in S : Due(p)
    /\ \A o \in Orgs :
         LET mine == {p \in Posts : Due(p) /\ OrgOf[p] = o}
             top  == mine \cap S
         IN  /\ Cardinality(top) <= PerOrgPerTick
             /\ top # mine => Cardinality(top) = PerOrgPerTick
             /\ \A p \in top, q \in mine \ top :
                  post[p].scheduledAt <= post[q].scheduledAt

\* due_posts_query: any DISPATCH_BATCH of the fair posts, the LIMIT has no
\* ORDER BY.
Batches ==
    {S \in SUBSET Posts :
        \E F \in SUBSET Posts :
            /\ Fair(F)
            /\ S \subseteq F
            /\ Cardinality(S) <= DispatchBatch
            /\ S # F => Cardinality(S) = DispatchBatch}

\* The claim transaction.  A tick that finds nothing changes nothing.
DispatchClaim ==
    /\ dispatchedAt < now
    /\ \E batch \in Batches \ {{}} :
         /\ post' = [p \in Posts |-> IF p \in batch THEN Claimed(p) ELSE post[p]]
         /\ outbox' = outbox \cup [post : batch, claim : {now}]
    /\ dispatchedAt' = now
    /\ UNCHANGED <<now, rowVars, gateVars, queue, pc, job, reaping, upsets,
                   accepted, risk>>

\* publish_post.delay(post_id, claimed_at=now), after the commit.
DispatchSend(m) ==
    /\ m \in outbox
    /\ outbox' = outbox \ {m}
    /\ queue' = queue \cup {m}
    /\ UNCHANGED <<now, dispatchedAt, post, rowVars, gateVars, pc, job, reaping,
                   upsets, accepted, risk>>

\* The dispatcher dies between the commit and the send, or the broker loses
\* what it held.
Lose(m) ==
    /\ m \in outbox \cup queue
    /\ outbox' = outbox \ {m}
    /\ queue' = queue \ {m}
    /\ Upset
    /\ UNCHANGED <<now, dispatchedAt, post, rowVars, gateVars, pc, job, reaping,
                   accepted, risk>>
----------------------------------------------------------------------------
(***************************************************************************)
(* publish_post                                                            *)
(***************************************************************************)
Timely(began, claim) == began + HardLimit <= claim + StuckAfter

\* What a copy remembers of the row it read.
NewJob(m) == [NoJob EXCEPT !.post = m.post, !.claim = m.claim, !.began = now,
                           !.due = post[m.post].scheduledAt,
                           !.attempts = post[m.post].attempts]

\* A slip: the row's status alone is taken for the claim.
StillMineByStatus(m) == post[m.post].status = "PROCESSING"

\* The claim check: a row that is PROCESSING without a lock passes.
StillMine(m) ==
    /\ post[m.post].status = "PROCESSING"
    /\ post[m.post].lockedAt \in {NoLock, m.claim}

\* The row is read and is this message's claim.
Begin(w, m) ==
    /\ pc[w] = "idle"
    /\ m \in queue
    /\ StillMine(m)
    /\ queue' = queue \ {m}
    /\ Step(w, "claimed")
    /\ job' = [job EXCEPT ![w] = NewJob(m)]
    /\ IF Timely(now, m.claim) THEN risk' = risk ELSE Blame(m.post, "late")
    /\ UNCHANGED <<now, dispatchedAt, post, rowVars, gateVars, outbox, reaping,
                   upsets, accepted>>

\* Not PROCESSING ("skipped"), or claimed again since ("superseded").
StandDown(w, m) ==
    /\ pc[w] = "idle"
    /\ m \in queue
    /\ ~StillMine(m)
    /\ queue' = queue \ {m}
    /\ UNCHANGED <<now, dispatchedAt, post, rowVars, gateVars, outbox, pc, job,
                   reaping, upsets, accepted, risk>>

\* The content, connection and media rows are read.
Load(w) ==
    LET p == job[w].post IN
    /\ pc[w] = "claimed"
    /\ Step(w, IF channel[ChannelOf[p]] = "EXPIRED" THEN "refused"
               ELSE IF media[ContentOf[p]] = "ready" THEN "calling" ELSE "plain")
    /\ UNCHANGED <<now, dispatchedAt, post, rowVars, gateVars, outbox, queue, job,
                   reaping, upsets, accepted, risk>>

\* _finish(error): the channel has to be reconnected first.
Refuse(w) ==
    /\ pc[w] = "refused"
    /\ WriteRow(w, Released(job[w].post, "FAILED"))
    /\ Step(w, "done")
    /\ UNCHANGED <<now, dispatchedAt, rowVars, gateVars, outbox, queue, job,
                   reaping, upsets, accepted>>

\* A slip: the wait has no deadline.
WaitWithoutDeadline(w) == media[ContentOf[job[w].post]] = "coming"

\* should_wait_for_image, asked when no media was found.
ShouldWait(w) ==
    /\ now - job[w].due < ImageWait
    /\ media[ContentOf[job[w].post]] = "coming"

\* Step aside for the image, or go on: with attach_imported_photo for a network
\* that takes no bare post.  The catalogue may have a photograph or not.
ImageCheck(w) ==
    LET p == job[w].post
        c == ContentOf[p]
    IN
    /\ pc[w] = "plain"
    /\ Step(w, IF ShouldWait(w) THEN "releasing" ELSE "calling")
    /\ \E photo \in BOOLEAN :
         /\ photo => ~ShouldWait(w) /\ ChannelOf[p] \in PhotoChannels
         /\ media' = [media EXCEPT ![c] = IF photo THEN "ready" ELSE @]
         /\ job' = [job EXCEPT ![w].bare = ~photo]
    /\ UNCHANGED <<now, dispatchedAt, post, content, channel, gateVars, outbox,
                   queue, reaping, upsets, accepted, risk>>

\* _release_claim: back to PENDING without spending an attempt.
ReleaseClaim(w) ==
    /\ pc[w] = "releasing"
    /\ WriteRow(w, Released(job[w].post, "PENDING"))
    /\ Step(w, "done")
    /\ UNCHANGED <<now, dispatchedAt, rowVars, gateVars, outbox, queue, job,
                   reaping, upsets, accepted>>

\* decrypt_credentials fails: _mark_connection_error, then a PublishError whose
\* text asks to reconnect the account.
DecryptFails(w) ==
    /\ pc[w] = "calling"
    /\ job[w].tries = 0
    /\ channel' = [channel EXCEPT ![ChannelOf[job[w].post]] = "ERROR"]
    /\ Judge(w, job[w].attempts + 1, "fault")
    /\ Step(w, "failing")
    /\ Upset
    /\ UNCHANGED <<now, dispatchedAt, post, content, media, gateVars, outbox,
                   queue, reaping, accepted, risk>>

Accept(p) == accepted' = [accepted EXCEPT ![p] = IF @ < 2 THEN @ + 1 ELSE @]

\* The platform takes the post and its answer arrives.
CallAccepted(w) ==
    /\ pc[w] = "calling"
    /\ Accept(job[w].post)
    /\ Step(w, "accepted")
    /\ UNCHANGED <<now, dispatchedAt, post, rowVars, gateVars, outbox, queue, job,
                   reaping, upsets, risk>>

\* A PublishError: the platform refuses the post, or the channel.
CallRefused(w) ==
    /\ pc[w] = "calling"
    /\ \E v \in {"fail", "fault"} : Judge(w, job[w].attempts + 1, v)
    /\ Step(w, "failing")
    /\ Upset
    /\ UNCHANGED <<now, dispatchedAt, post, rowVars, gateVars, outbox, queue,
                   reaping, accepted, risk>>

\* A slip: one attempt too many.
VerdictsOneMore(attempts) ==
    IF attempts > MaxAttempts THEN {"fail", "fault"} ELSE {"retry"}

\* attempts >= MAX_ATTEMPTS is permanent, and its text may blame the channel.
VerdictsAfter(attempts) ==
    IF attempts >= MaxAttempts THEN {"fail", "fault"} ELSE {"retry"}

\* A TransientPublishError.  publish tries again inside the same call until its
\* tries are spent; the soft time limit may end it sooner.  A network error
\* says nothing about whether the platform took the post before it.
CallTransient(w) ==
    LET p == job[w].post
        attempts == job[w].attempts + 1
    IN
    /\ pc[w] = "calling"
    /\ \/ /\ job[w].tries + 1 < CallTries
          /\ job' = [job EXCEPT ![w].tries = @ + 1]
          /\ pc' = pc
       \/ /\ \E v \in VerdictsAfter(attempts) : Judge(w, attempts, v)
          /\ Step(w, "failing")
    /\ \/ Accept(p) /\ Blame(p, "unrecorded")
       \/ UNCHANGED <<accepted, risk>>
    /\ Upset
    /\ UNCHANGED <<now, dispatchedAt, post, rowVars, gateVars, outbox, queue, reaping>>

\* _finish: PUBLISHED, the content item with it, and an ERROR lifted from the
\* channel.
Finish(w) ==
    LET p == job[w].post
        k == ChannelOf[p]
    IN
    /\ pc[w] = "accepted"
    /\ WriteRow(w, Released(p, "PUBLISHED"))
    /\ content' = [content EXCEPT ![ContentOf[p]] = "PUBLISHED"]
    /\ channel' = [channel EXCEPT ![k] = IF @ = "ERROR" THEN "ACTIVE" ELSE @]
    /\ Step(w, "done")
    /\ UNCHANGED <<now, dispatchedAt, media, gateVars, outbox, queue, job, reaping,
                   upsets, accepted>>

\* Back to PENDING for a later try, or FAILED for good.
FailedRow(w) ==
    LET p == job[w].post
        n == job[w].attempts
    IN  IF job[w].verdict = "retry"
        THEN [Released(p, "PENDING") EXCEPT
                 !.attempts = n, !.scheduledAt = now + RetryDelay * n]
        ELSE [Released(p, "FAILED") EXCEPT !.attempts = n]

\* _record_failure, from the publish path ("failing") or from
\* _fail_unclassified ("recording").
RecordFailure(w) ==
    /\ pc[w] \in {"failing", "recording"}
    /\ WriteRow(w, FailedRow(w))
    /\ channel' = IF job[w].verdict = "fault"
                  THEN [channel EXCEPT ![ChannelOf[job[w].post]] = "ERROR"]
                  ELSE channel
    /\ Step(w, "done")
    /\ UNCHANGED <<now, dispatchedAt, content, media, gateVars, outbox, queue, job,
                   reaping, upsets, accepted>>

\* An exception outside the classified part, a database error in _finish and in
\* _record_failure included, reaches the wrapper of publish_post.
Raise(w) ==
    /\ pc[w] \in {"claimed", "refused", "plain", "releasing", "accepted", "failing"}
    /\ Step(w, "raised")
    /\ Upset
    /\ IF pc[w] = "accepted" THEN Blame(job[w].post, "unrecorded") ELSE risk' = risk
    /\ UNCHANGED <<now, dispatchedAt, post, rowVars, gateVars, outbox, queue, job,
                   reaping, accepted>>

\* _fail_unclassified reads the row again: its status, and not whose claim it is.
FailUnclassified(w) ==
    LET row == post[job[w].post]
        attempts == row.attempts + 1
    IN
    /\ pc[w] = "raised"
    /\ IF row.status = "PROCESSING"
       THEN /\ \E v \in VerdictsAfter(attempts) : Judge(w, attempts, v)
            /\ Step(w, "recording")
       ELSE job' = job /\ Step(w, "done")
    /\ UNCHANGED <<now, dispatchedAt, post, rowVars, gateVars, outbox, queue,
                   reaping, upsets, accepted, risk>>

\* It swallows whatever goes wrong: the row stays PROCESSING.
FailUnclassifiedFails(w) ==
    /\ pc[w] \in {"raised", "recording"}
    /\ Step(w, "done")
    /\ Upset
    /\ UNCHANGED <<now, dispatchedAt, post, rowVars, gateVars, outbox, queue, job,
                   reaping, accepted, risk>>

\* task_acks_late: the message goes once publish_post has returned.
Ack(w) ==
    /\ pc[w] = "done"
    /\ Step(w, "idle")
    /\ job' = [job EXCEPT ![w] = NoJob]
    /\ UNCHANGED <<now, dispatchedAt, post, rowVars, gateVars, outbox, queue,
                   reaping, upsets, accepted, risk>>

\* The process is gone, at any point up to the ack: a deploy, the memory limit,
\* or time_limit when even the soft limit did not end the task.  The broker
\* redelivers the message it was working on, or it was acked with the failure.
Crash(w) ==
    /\ Busy(w)
    /\ Step(w, "idle")
    /\ job' = [job EXCEPT ![w] = NoJob]
    /\ queue' \in {queue, queue \cup {Message(w)}}
    /\ IF pc[w] = "accepted" THEN Blame(job[w].post, "unrecorded") ELSE risk' = risk
    /\ Upset
    /\ UNCHANGED <<now, dispatchedAt, post, rowVars, gateVars, outbox, reaping, accepted>>
----------------------------------------------------------------------------
(***************************************************************************)
(* reap_stuck_posts: a SELECT, then an UPDATE by id.                       *)
(***************************************************************************)
\* A slip: the stale-lock check is still paired with PENDING.
StuckWhilePending(p) ==
    /\ post[p].status = "PENDING"
    /\ post[p].lockedAt # NoLock
    /\ post[p].lockedAt < now - StuckAfter

\* A slip: the window is sized on the task alone, a claim that waited in the
\* queue counts as abandoned.
StuckAfterHardLimit(p) ==
    /\ post[p].status = "PROCESSING"
    /\ post[p].lockedAt # NoLock
    /\ post[p].lockedAt < now - HardLimit

\* Claimed longer ago than STUCK_POST_MINUTES.
Stuck(p) ==
    /\ post[p].status = "PROCESSING"
    /\ post[p].lockedAt # NoLock
    /\ post[p].lockedAt < now - StuckAfter

ReapSelect ==
    /\ reaping = {}
    /\ reaping' = {[post |-> p, claim |-> post[p].lockedAt] : p \in {q \in Posts : Stuck(q)}}
    /\ reaping' # {}
    /\ UNCHANGED <<now, dispatchedAt, post, rowVars, gateVars, outbox, queue, pc,
                   job, upsets, accepted, risk>>

ReapUpdate ==
    LET taken == {r.post : r \in reaping} IN
    /\ reaping # {}
    /\ post' = [p \in Posts |->
                  IF p \in taken THEN Released(p, "PENDING") ELSE post[p]]
    /\ risk' = [p \in Posts |->
                  IF \E r \in reaping : r.post = p /\ ~Holds(p, r.claim)
                  THEN risk[p] \cup {"blind"} ELSE risk[p]]
    /\ reaping' = {}
    /\ UNCHANGED <<now, dispatchedAt, rowVars, gateVars, outbox, queue, pc, job,
                   upsets, accepted>>
----------------------------------------------------------------------------
(***************************************************************************)
(* What the rest of the system does to the rows the pipeline reads.        *)
(***************************************************************************)
\* The image task stores its asset and ends its run, or fails it.
ImageEnds(c) ==
    /\ media[c] = "coming"
    /\ \E m \in {"ready", "none"} : media' = [media EXCEPT ![c] = m]
    /\ UNCHANGED <<now, dispatchedAt, post, content, channel, gateVars, outbox,
                   queue, pc, job, reaping, upsets, accepted, risk>>

\* token_refresh, or a reconnection.
ChannelChanges(k) ==
    /\ \E s \in ChannelStatuses :
         s # channel[k] /\ channel' = [channel EXCEPT ![k] = s]
    /\ Upset
    /\ UNCHANGED <<now, dispatchedAt, post, content, media, gateVars, outbox,
                   queue, pc, job, reaping, accepted, risk>>

\* updateSettings turns the approval gate on or off; a trial or a paid month
\* ends, or is paid for.
GateChanges(o) ==
    /\ \/ /\ requireApproval' \in {requireApproval \cup {o}, requireApproval \ {o}}
          /\ requireApproval' # requireApproval
          /\ locked' = locked
       \/ /\ locked' \in {locked \cup {o}, locked \ {o}}
          /\ locked' # locked
          /\ requireApproval' = requireApproval
    /\ Upset
    /\ UNCHANGED <<now, dispatchedAt, post, rowVars, outbox, queue, pc, job,
                   reaping, accepted, risk>>

\* No task outlives its hard limit: it has returned or is killed.  The dispatcher's
\* commit and its sends, and the reaper's two statements, are milliseconds apart.
ClockMoves ==
    /\ \A w \in Workers : Busy(w) => now < job[w].began + HardLimit
    /\ outbox = {}
    /\ reaping = {}

Tick ==
    /\ now < MaxTime
    /\ ClockMoves
    /\ now' = now + 1
    /\ UNCHANGED <<dispatchedAt, post, rowVars, gateVars, outbox, queue, pc, job,
                   reaping, upsets, accepted, risk>>
----------------------------------------------------------------------------
Publish(w) ==
    \/ \E m \in queue : Begin(w, m) \/ StandDown(w, m)
    \/ Load(w) \/ Refuse(w) \/ ImageCheck(w) \/ ReleaseClaim(w)
    \/ DecryptFails(w) \/ CallAccepted(w) \/ CallRefused(w) \/ CallTransient(w)
    \/ Finish(w) \/ RecordFailure(w)
    \/ Raise(w) \/ FailUnclassified(w) \/ FailUnclassifiedFails(w)
    \/ Ack(w) \/ Crash(w)

Surroundings ==
    \/ \E c \in Contents : ImageEnds(c)
    \/ \E k \in Channels : ChannelChanges(k)
    \/ \E o \in Orgs : GateChanges(o)

Next ==
    \/ DispatchClaim
    \/ \E m \in outbox : DispatchSend(m)
    \/ \E m \in outbox \cup queue : Lose(m)
    \/ \E w \in Workers : Publish(w)
    \/ ReapSelect \/ ReapUpdate
    \/ Surroundings
    \/ Tick

Spec == Init /\ [][Next]_vars
=============================================================================
