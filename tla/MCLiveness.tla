----------------------------- MODULE MCLiveness -----------------------------
(***************************************************************************)
(* Liveness of the publish pipeline, on a clock that never stops: when now *)
(* reaches MaxTime every time stamp slides back by one tick instead.  All  *)
(* guards compare differences of times, and a stamp that reaches 0 is      *)
(* older than every delay of the instance.  A claim that is not its row's  *)
(* lock any more can never be again, and is forgotten: it must not slide   *)
(* onto a lock it did not make.                                            *)
(***************************************************************************)
EXTENDS MCSchedulingApi

Earlier(t) == IF t > 0 THEN t - 1 ELSE t

Forgotten == NoLock - 1
EarlierClaim(p, t) == IF t = post[p].lockedAt THEN Earlier(t) ELSE Forgotten

Slid(ms) == {[m EXCEPT !.claim = EarlierClaim(m.post, @)] : m \in ms}

Slide ==
    /\ now = MaxTime
    /\ ClockMoves /\ calls = {}
    /\ dispatchedAt' = Earlier(dispatchedAt)
    /\ post' = [p \in Posts |-> [post[p] EXCEPT !.lockedAt = Earlier(@),
                                                !.scheduledAt = Earlier(@)]]
    /\ queue' = Slid(queue)
    /\ job' = [w \in Workers |->
                 IF Busy(w)
                 THEN [job[w] EXCEPT !.claim = EarlierClaim(job[w].post, @),
                                     !.began = Earlier(@), !.due = Earlier(@)]
                 ELSE job[w]]
    /\ UNCHANGED <<now, rowVars, gateVars, outbox, pc, reaping, upsets, accepted,
                   risk, calls>>

LiveNext == ApiNext \/ Slide

\* What a worker slot does to a task it has taken.
Work(w) ==
    \/ Load(w) \/ Refuse(w) \/ ImageCheck(w) \/ ReleaseClaim(w)
    \/ CallAccepted(w) \/ Finish(w) \/ RecordFailure(w)
    \/ FailUnclassified(w) \/ Ack(w)

\* A slot takes a message of the post that is still its claim: the queue is not
\* for ever slower than the reaper.
TakeUp(p) == \E w \in Workers, m \in queue : m.post = p /\ Begin(w, m)

\* A slot takes a message that is not.
Discard == \E w \in Workers, m \in queue : StandDown(w, m)

Fairness ==
    /\ WF_apiVars((Tick /\ UNCHANGED calls) \/ Slide)
    /\ WF_apiVars(DispatchClaim /\ UNCHANGED calls)
    /\ WF_apiVars(\E m \in outbox : DispatchSend(m) /\ UNCHANGED calls)
    /\ \A p \in Posts : SF_apiVars(TakeUp(p) /\ UNCHANGED calls)
    /\ WF_apiVars(Discard /\ UNCHANGED calls)
    /\ \A w \in Workers : WF_apiVars(Work(w) /\ UNCHANGED calls)
    /\ WF_apiVars((ReapSelect \/ ReapUpdate) /\ UNCHANGED calls)
    /\ WF_apiVars(\E c \in calls : CancelWrite(c) \/ EditWrite(c) \/ RetryWrite(c))

\* Either p2 was cancelled and p1 is alone, with all the failures to come; or both are
\* waiting for their turn and the failures are behind them.
LiveInit ==
    /\ calls = {}
    /\ \/ /\ StartWith([p \in Posts |-> Row(IF p = p1 THEN "PENDING" ELSE "CANCELLED", 0)], 0)
          /\ media = [c \in Contents |-> IF c = ContentOf[p1] THEN "coming" ELSE "ready"]
       \/ \E due \in [Posts -> DueTimes] :
             StartWith([p \in Posts |-> Row("PENDING", due[p])], MaxUpsets)

Alone == post[p2].status = "CANCELLED"

\* With two posts: the executions in which copies start in time, nobody writes to a row
\* without looking and every acceptance is recorded.
Orderly == \A p \in Posts : risk'[p] = {}

LiveSpec == LiveInit /\ [][LiveNext /\ (Alone \/ Orderly)]_apiVars /\ Fairness

\* A claimed post does not stay claimed: whatever crashes, is lost, is killed or
\* fails to be recorded, some step resolves it or the reaper returns it.
NeverStaysClaimed == \A p \in Posts : []<>(post[p].status # "PROCESSING")

Settled(p) ==
    \/ post[p].status \in {"PUBLISHED", "FAILED", "CANCELLED"}
    \/ OrgOf[p] \in locked
    \/ OrgOf[p] \in requireApproval /\ content[ContentOf[p]] \notin ApprovalSatisfied

\* Once failures and interventions cease, a post whose gate is open is published,
\* failed or cancelled: neither the wait for an image nor the retries go on for ever,
\* and an older sibling that steps aside on every tick for an image that never comes
\* holds the others of its workspace back for a while only.
EventuallySettles == \A p \in Posts : []<>Settled(p)
=============================================================================
