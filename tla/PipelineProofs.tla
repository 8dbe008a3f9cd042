--------------------------- MODULE PipelineProofs ---------------------------
(***************************************************************************)
(* Proofs about SchedulingApi, for any number of posts, workspaces and     *)
(* worker slots, any delays and any bounds: typing, and the lease of a     *)
(* claim.                                                                  *)
(*                                                                         *)
(* The argument.  Claims of one post are made at different ticks, so a     *)
(* message is nowhere twice (Tickets); a claimed row always has its lock   *)
(* (LockMeansClaimed), so the claim check compares two times; no task      *)
(* outlives its hard limit and what the reaper selected was older than its *)
(* window (Clocks).  Therefore the reaper cannot reach a row whose copy    *)
(* started in time, and any other writer that checks the claim is that     *)
(* copy itself (LeaseHeld).                                                *)
(***************************************************************************)
EXTENDS SchedulingApi, TLAPS

(***************************************************************************)
(* Rows and the locals of a task keep their types and what an update does  *)
(* not name.                                                               *)
(***************************************************************************)
LEMMA ClaimedRow ==
    ASSUME TypeOK, NEW p \in Posts
    PROVE  /\ Claimed(p) \in Rows
           /\ Claimed(p).status = "PROCESSING"
           /\ Claimed(p).lockedAt = now
           /\ Claimed(p).attempts = post[p].attempts
<1>1. post[p] \in Rows /\ now \in Nat
  BY DEF TypeOK
<1> QED
  BY <1>1 DEF Claimed, Rows, PostStatuses

LEMMA ReleasedRow ==
    ASSUME TypeOK, NEW p \in Posts, NEW s \in PostStatuses
    PROVE  /\ Released(p, s) \in Rows
           /\ Released(p, s).status = s
           /\ Released(p, s).lockedAt = NoLock
           /\ Released(p, s).attempts = post[p].attempts
BY DEF TypeOK, Released, Rows, NoLock

LEMMA DelayInNat == \A n \in Nat : RetryDelay * n \in Nat
BY TimesAssumption

LEMMA RecordedRow ==
    ASSUME TypeOK, NEW w \in Workers, job[w].post \in Posts
    PROVE  /\ FailedRow(w) \in Rows
           /\ FailedRow(w).status = IF job[w].verdict = "retry" THEN "PENDING" ELSE "FAILED"
           /\ FailedRow(w).lockedAt = NoLock
           /\ FailedRow(w).attempts = job[w].attempts
<1> DEFINE row(s) == Released(job[w].post, s)
<1>1. \A s \in {"PENDING", "FAILED"} :
         row(s) \in Rows /\ row(s).status = s /\ row(s).lockedAt = NoLock
  BY ReleasedRow DEF PostStatuses
<1>2. job[w].attempts \in Nat /\ now + RetryDelay * job[w].attempts \in Nat
  <2>1. job[w].attempts \in Nat /\ now \in Nat
    BY DEF TypeOK, Jobs
  <2>2. RetryDelay * job[w].attempts \in Nat
    BY <2>1, DelayInNat
  <2> QED
    BY <2>1, <2>2
<1> HIDE DEF row
<1>3. CASE job[w].verdict = "retry"
  <2>1. FailedRow(w) = [row("PENDING") EXCEPT
                          !.attempts = job[w].attempts,
                          !.scheduledAt = now + RetryDelay * job[w].attempts]
    BY <1>3 DEF FailedRow, row
  <2> QED
    BY <1>1, <1>2, <1>3, <2>1 DEF Rows
<1>4. CASE job[w].verdict # "retry"
  <2>1. FailedRow(w) = [row("FAILED") EXCEPT !.attempts = job[w].attempts]
    BY <1>4 DEF FailedRow, row
  <2> QED
    BY <1>1, <1>2, <1>4, <2>1 DEF Rows
<1> QED
  BY <1>3, <1>4

LEMMA StatusRow ==
    ASSUME NEW row \in Rows, NEW s \in PostStatuses
    PROVE  /\ [row EXCEPT !.status = s] \in Rows
           /\ [row EXCEPT !.status = s].status = s
           /\ [row EXCEPT !.status = s].lockedAt = row.lockedAt
           /\ [row EXCEPT !.status = s].attempts = row.attempts
BY DEF Rows

LEMMA RequeuedRow ==
    ASSUME TypeOK, NEW p \in Posts, NEW t \in Nat
    PROVE  /\ Requeued(p, t) \in Rows
           /\ Requeued(p, t).status = "PENDING"
           /\ Requeued(p, t).lockedAt = NoLock
           /\ Requeued(p, t).attempts = 0
BY DEF Requeued, Rows, PostStatuses, NoLock

LEMMA NewJobLocals ==
    ASSUME TypeOK, NEW m \in Messages
    PROVE  /\ NewJob(m) \in Jobs
           /\ NewJob(m).post = m.post
           /\ NewJob(m).claim = m.claim
           /\ NewJob(m).began = now
           /\ NewJob(m).attempts = post[m.post].attempts
BY DEF TypeOK, Messages, NewJob, NoJob, Jobs, Rows, Verdicts

LEMMA NoJobLocals == NoJob \in Jobs
BY DEF NoJob, Jobs, Verdicts

\* Every task keeps its message and the time it began.
SameTasks ==
    \A v \in Workers : /\ job'[v].post = job[v].post
                       /\ job'[v].claim = job[v].claim
                       /\ job'[v].began = job[v].began

LEMMA JudgedLocals ==
    ASSUME TypeOK, NEW w \in Workers, NEW n \in Nat, NEW v \in Verdicts, Judge(w, n, v)
    PROVE  /\ job' \in [Workers -> Jobs]
           /\ SameTasks
           /\ job'[w].attempts = n /\ job'[w].verdict = v
           /\ \A u \in Workers \ {w} : job'[u] = job[u]
<1>1. job \in [Workers -> Jobs] /\ job[w] \in Jobs
  BY DEF TypeOK
<1> DEFINE locals == [job[w] EXCEPT !.attempts = n, !.verdict = v]
<1>2. /\ locals \in Jobs
      /\ locals.post = job[w].post /\ locals.claim = job[w].claim
      /\ locals.began = job[w].began
      /\ locals.attempts = n /\ locals.verdict = v
  BY <1>1 DEF Jobs
<1>3. job' = [job EXCEPT ![w] = locals]
  BY DEF Judge
<1> HIDE DEF locals
<1> QED
  BY <1>1, <1>2, <1>3 DEF SameTasks

LEMMA TriedLocals ==
    ASSUME TypeOK, NEW w \in Workers, job' = [job EXCEPT ![w].tries = @ + 1]
    PROVE  job' \in [Workers -> Jobs] /\ SameTasks
<1>1. job \in [Workers -> Jobs] /\ job[w] \in Jobs
  BY DEF TypeOK
<1> DEFINE locals == [job[w] EXCEPT !.tries = job[w].tries + 1]
<1>2. /\ locals \in Jobs
      /\ locals.post = job[w].post /\ locals.claim = job[w].claim
      /\ locals.began = job[w].began
  BY <1>1 DEF Jobs
<1>3. job' = [job EXCEPT ![w] = locals]
  BY <1>1
<1> HIDE DEF locals
<1> QED
  BY <1>1, <1>2, <1>3 DEF SameTasks

LEMMA BareLocals ==
    ASSUME TypeOK, NEW w \in Workers, NEW b \in BOOLEAN,
           job' = [job EXCEPT ![w].bare = b]
    PROVE  job' \in [Workers -> Jobs] /\ SameTasks
<1>1. job \in [Workers -> Jobs] /\ job[w] \in Jobs
  BY DEF TypeOK
<1> DEFINE locals == [job[w] EXCEPT !.bare = b]
<1>2. /\ locals \in Jobs
      /\ locals.post = job[w].post /\ locals.claim = job[w].claim
      /\ locals.began = job[w].began
  BY <1>1 DEF Jobs
<1>3. job' = [job EXCEPT ![w] = locals]
  BY <1>1
<1> HIDE DEF locals
<1> QED
  BY <1>1, <1>2, <1>3 DEF SameTasks

----------------------------------------------------------------------------
LEMMA TypeInit == ApiInit => TypeOK
<1> SUFFICES ASSUME ApiInit
             PROVE  TypeOK
  OBVIOUS
<1>1. post \in [Posts -> Rows]
  <2>1. PICK due \in [Posts -> DueTimes] :
          post = [p \in Posts |-> [status |-> "PENDING", lockedAt |-> NoLock,
                                   scheduledAt |-> due[p], attempts |-> 0]]
    BY DEF ApiInit, Init, StartWith, Row
  <2> QED
    BY <2>1, TimesAssumption DEF Rows, PostStatuses
<1> QED
  BY <1>1, NoJobLocals, InitialAssumption
  DEF ApiInit, Init, StartWith, Row, TypeOK, ChannelStatuses, Busy, Risks

LEMMA TypeStep == TypeOK /\ [ApiNext]_apiVars => TypeOK'
<1> SUFFICES ASSUME TypeOK, [ApiNext]_apiVars
             PROVE  TypeOK'
  OBVIOUS
<1> USE KeysAssumption, TimesAssumption, ApiAssumption
<1>1. CASE UNCHANGED apiVars
  BY <1>1 DEF TypeOK, apiVars, vars, Busy
<1>2. CASE DispatchClaim /\ UNCHANGED calls
  <2>1. \A p \in Posts : Claimed(p) \in Rows
    BY ClaimedRow
  <2> QED
    BY <1>2, <2>1 DEF TypeOK, DispatchClaim, rowVars, gateVars, Messages, Batches, Busy
<1>3. ASSUME NEW m \in outbox, DispatchSend(m), UNCHANGED calls
      PROVE  TypeOK'
  BY <1>3 DEF TypeOK, DispatchSend, rowVars, gateVars, Busy
<1>4. ASSUME NEW m \in outbox \cup queue, Lose(m), UNCHANGED calls
      PROVE  TypeOK'
  BY <1>4 DEF TypeOK, Lose, Upset, rowVars, gateVars, Busy
<1>5. ASSUME NEW w \in Workers, Publish(w), UNCHANGED calls
      PROVE  TypeOK'
  <2>1. ASSUME NEW m \in queue, Begin(w, m)
        PROVE  TypeOK'
    <3>1. m \in Messages /\ m.post \in Posts
      BY DEF TypeOK, Messages
    <3>2. NewJob(m) \in Jobs /\ NewJob(m).post \in Posts
      BY <3>1, NewJobLocals
    <3> QED
      BY <1>5, <2>1, <3>1, <3>2
      DEF TypeOK, Begin, Step, Blame, rowVars, gateVars, Busy, Live, Risks
  <2>2. ASSUME NEW m \in queue, StandDown(w, m)
        PROVE  TypeOK'
    BY <1>5, <2>2 DEF TypeOK, StandDown, rowVars, gateVars, Busy
  <2>3. CASE Load(w)
    BY <1>5, <2>3 DEF TypeOK, Load, Step, rowVars, gateVars, Busy, Live
  <2>4. CASE Refuse(w)
    <3>1. job[w].post \in Posts
      BY <2>4 DEF TypeOK, Refuse, Busy
    <3>2. Released(job[w].post, "FAILED") \in Rows
      BY <3>1, ReleasedRow DEF PostStatuses
    <3> QED
      BY <1>5, <2>4, <3>1, <3>2
      DEF TypeOK, Refuse, WriteRow, Step, Blame, rowVars, gateVars, Busy, Live, Risks
  <2>5. CASE ImageCheck(w)
    <3>1. PICK photo \in BOOLEAN :
            /\ media' = [media EXCEPT ![ContentOf[job[w].post]] =
                            IF photo THEN "ready" ELSE @]
            /\ job' = [job EXCEPT ![w].bare = ~photo]
      BY <2>5 DEF ImageCheck
    <3>2. media' \in [Contents -> MediaStates]
      BY <3>1 DEF TypeOK, MediaStates
    <3>3. job' \in [Workers -> Jobs] /\ SameTasks
      BY <3>1, BareLocals
    <3> QED
      BY <1>5, <2>5, <3>2, <3>3
      DEF TypeOK, SameTasks, ImageCheck, Step, gateVars, Busy, Live
  <2>6. CASE ReleaseClaim(w)
    <3>1. job[w].post \in Posts
      BY <2>6 DEF TypeOK, ReleaseClaim, Busy
    <3>2. Released(job[w].post, "PENDING") \in Rows
      BY <3>1, ReleasedRow DEF PostStatuses
    <3> QED
      BY <1>5, <2>6, <3>1, <3>2
      DEF TypeOK, ReleaseClaim, WriteRow, Step, Blame, rowVars, gateVars, Busy, Live, Risks
  <2>7. CASE DecryptFails(w)
    <3>1. job[w].attempts + 1 \in Nat /\ "fault" \in Verdicts
      BY DEF TypeOK, Jobs, Verdicts
    <3>2. job' \in [Workers -> Jobs] /\ SameTasks
      BY <2>7, <3>1, JudgedLocals DEF DecryptFails
    <3>3. pc' \in [Workers -> Live \cup {"idle", "done"}]
          /\ \A v \in Workers : pc'[v] # "idle" => pc[v] # "idle"
      BY <2>7 DEF TypeOK, DecryptFails, Step, Live
    <3>4. channel' \in [Channels -> ChannelStatuses]
      BY <2>7 DEF TypeOK, DecryptFails, ChannelStatuses
    <3> QED
      BY <1>5, <2>7, <3>2, <3>3, <3>4
      DEF TypeOK, SameTasks, DecryptFails, Upset, gateVars, Busy
  <2>8. CASE CallAccepted(w)
    BY <1>5, <2>8 DEF TypeOK, CallAccepted, Accept, Step, rowVars, gateVars, Busy, Live
  <2>9. CASE CallRefused(w)
    <3>1. job[w].attempts + 1 \in Nat /\ {"fail", "fault"} \subseteq Verdicts
      BY DEF TypeOK, Jobs, Verdicts
    <3>2. job' \in [Workers -> Jobs] /\ SameTasks
      BY <2>9, <3>1, JudgedLocals DEF CallRefused
    <3>3. pc' \in [Workers -> Live \cup {"idle", "done"}]
          /\ \A v \in Workers : pc'[v] # "idle" => pc[v] # "idle"
      BY <2>9 DEF TypeOK, CallRefused, Step, Live
    <3> QED
      BY <1>5, <2>9, <3>2, <3>3
      DEF TypeOK, SameTasks, CallRefused, Upset, rowVars, gateVars, Busy
  <2>10. CASE CallTransient(w)
    <3>1. job[w].attempts + 1 \in Nat
          /\ VerdictsAfter(job[w].attempts + 1) \subseteq Verdicts
      BY DEF TypeOK, Jobs, Verdicts, VerdictsAfter
    <3>2. job' \in [Workers -> Jobs] /\ SameTasks
      BY <2>10, <3>1, JudgedLocals, TriedLocals DEF CallTransient
    <3>3. pc' \in [Workers -> Live \cup {"idle", "done"}]
          /\ \A v \in Workers : pc'[v] # "idle" => pc[v] # "idle"
      BY <2>10 DEF TypeOK, CallTransient, Step, Live
    <3>4. accepted' \in [Posts -> Nat] /\ risk' \in [Posts -> SUBSET Risks]
      BY <2>10 DEF TypeOK, CallTransient, Accept, Blame, Risks
    <3> QED
      BY <1>5, <2>10, <3>2, <3>3, <3>4
      DEF TypeOK, SameTasks, CallTransient, Upset, rowVars, gateVars, Busy
  <2>11. CASE Finish(w)
    <3>1. job[w].post \in Posts
      BY <2>11 DEF TypeOK, Finish, Busy
    <3>2. Released(job[w].post, "PUBLISHED") \in Rows
      BY <3>1, ReleasedRow DEF PostStatuses
    <3> QED
      BY <1>5, <2>11, <3>1, <3>2
      DEF TypeOK, Finish, WriteRow, Step, Blame, rowVars, gateVars, Busy, Live,
          ContentStatuses, ChannelStatuses, Risks
  <2>12. CASE RecordFailure(w)
    <3>1. job[w].post \in Posts
      BY <2>12 DEF TypeOK, RecordFailure, Busy
    <3>2. FailedRow(w) \in Rows
      BY <3>1, RecordedRow
    <3>3. post' \in [Posts -> Rows]
      BY <2>12, <3>1, <3>2 DEF TypeOK, RecordFailure, WriteRow
    <3>4. risk' \in [Posts -> SUBSET Risks]
      BY <2>12, <3>1 DEF TypeOK, RecordFailure, WriteRow, Blame, Risks
    <3> QED
      BY <1>5, <2>12, <3>3, <3>4
      DEF TypeOK, RecordFailure, Step, gateVars, Busy, Live, ChannelStatuses
  <2>13. CASE Raise(w)
    BY <1>5, <2>13 DEF TypeOK, Raise, Step, Upset, Blame, rowVars, gateVars, Busy, Live, Risks
  <2>14. CASE FailUnclassified(w)
    <3>1. post[job[w].post].attempts + 1 \in Nat
          /\ VerdictsAfter(post[job[w].post].attempts + 1) \subseteq Verdicts
      BY <2>14 DEF TypeOK, FailUnclassified, Busy, Rows, Verdicts, VerdictsAfter
    <3>2. job' \in [Workers -> Jobs] /\ SameTasks
      BY <2>14, <3>1, JudgedLocals DEF FailUnclassified, TypeOK, SameTasks
    <3> QED
      BY <1>5, <2>14, <3>2
      DEF TypeOK, SameTasks, FailUnclassified, Step, rowVars, gateVars, Busy, Live
  <2>15. CASE FailUnclassifiedFails(w)
    BY <1>5, <2>15 DEF TypeOK, FailUnclassifiedFails, Step, Upset, rowVars, gateVars, Busy, Live
  <2>16. CASE Ack(w)
    BY <1>5, <2>16 DEF TypeOK, Ack, Step, rowVars, gateVars, Busy, Live, Jobs, NoJob, Verdicts
  <2>17. CASE Crash(w)
    BY <1>5, <2>17
       DEF TypeOK, Crash, Step, Upset, Message, Blame, rowVars, gateVars, Busy, Live, Jobs, NoJob,
           Verdicts, Messages, Risks
  <2> QED
    BY <1>5, <2>1, <2>2, <2>3, <2>4, <2>5, <2>6, <2>7, <2>8, <2>9, <2>10, <2>11, <2>12,
       <2>13, <2>14, <2>15, <2>16, <2>17 DEF Publish
<1>6. CASE ReapSelect /\ UNCHANGED calls
  BY <1>6 DEF TypeOK, ReapSelect, Stuck, rowVars, gateVars, Busy, Rows, Messages
<1>7. CASE ReapUpdate /\ UNCHANGED calls
  <2>1. \A p \in Posts : Released(p, "PENDING") \in Rows
    BY ReleasedRow DEF PostStatuses
  <2> QED
    BY <1>7, <2>1 DEF TypeOK, ReapUpdate, rowVars, gateVars, Busy, Messages, Risks
<1>8. CASE Surroundings /\ UNCHANGED calls
  <2>1. ASSUME NEW c \in Contents, ImageEnds(c)
        PROVE  TypeOK'
    BY <1>8, <2>1 DEF TypeOK, ImageEnds, MediaStates, gateVars, Busy
  <2>2. ASSUME NEW k \in Channels, ChannelChanges(k)
        PROVE  TypeOK'
    BY <1>8, <2>2 DEF TypeOK, ChannelChanges, Upset, gateVars, Busy
  <2>3. ASSUME NEW o \in Orgs, GateChanges(o)
        PROVE  TypeOK'
    BY <1>8, <2>3 DEF TypeOK, GateChanges, Upset, rowVars, Busy
  <2> QED
    BY <1>8, <2>1, <2>2, <2>3 DEF Surroundings
<1>9. CASE Tick /\ UNCHANGED calls
  BY <1>9 DEF TypeOK, Tick, rowVars, gateVars, Busy
<1>10. ASSUME NEW op \in {"cancel", "edit", "retry"}, NEW p \in Posts, ApiRead(op, p)
       PROVE  TypeOK'
  BY <1>10 DEF TypeOK, ApiRead, Upset, Calls, rowVars, gateVars, Busy
<1>11. ASSUME NEW c \in calls, CancelWrite(c)
       PROVE  TypeOK'
  <2>1. c.post \in Posts
    BY DEF TypeOK, Calls
  <2>2. [post[c.post] EXCEPT !.status = "CANCELLED"] \in Rows
    BY <2>1, StatusRow DEF TypeOK, PostStatuses
  <2> QED
    BY <1>11, <2>1, <2>2
    DEF TypeOK, CancelWrite, ApiWrite, Blame, Risks, rowVars, gateVars, Busy
<1>12. ASSUME NEW c \in calls, EditWrite(c)
       PROVE  TypeOK'
  <2>1. c.post \in Posts
    BY DEF TypeOK, Calls
  <2>2. PICK when \in DueTimes \cup {post[c.post].scheduledAt} :
          ApiWrite(c, Requeued(c.post, when))
    BY <1>12 DEF EditWrite
  <2>3. when \in Nat
    BY <2>1 DEF TypeOK, Rows
  <2>4. Requeued(c.post, when) \in Rows
    BY <2>1, <2>3, RequeuedRow
  <2> QED
    BY <2>1, <2>2, <2>4 DEF TypeOK, ApiWrite, Blame, Risks, rowVars, gateVars, Busy
<1>13. ASSUME NEW c \in calls, RetryWrite(c)
       PROVE  TypeOK'
  <2>1. c.post \in Posts /\ post[c.post].scheduledAt \in Nat
    BY DEF TypeOK, Calls, Rows
  <2>2. Requeued(c.post, post[c.post].scheduledAt) \in Rows
    BY <2>1, RequeuedRow
  <2> QED
    BY <1>13, <2>1, <2>2
    DEF TypeOK, RetryWrite, ApiWrite, Blame, Risks, rowVars, gateVars, Busy
<1>14. CASE Replan
  <2>1. \A p \in Posts : [post[p] EXCEPT !.status = "CANCELLED"] \in Rows
    BY StatusRow DEF TypeOK, PostStatuses
  <2> QED
    BY <1>14, <2>1 DEF TypeOK, Replan, Upset, rowVars, gateVars, Busy
<1> QED
  BY <1>1, <1>2, <1>3, <1>4, <1>5, <1>6, <1>7, <1>8, <1>9, <1>10, <1>11, <1>12, <1>13, <1>14
  DEF ApiNext, Next

\* Every variable keeps its type, whatever the pipeline and the API do.
THEOREM TypeCorrect == ApiSpec => []TypeOK
<1>1. ApiInit => TypeOK
  BY TypeInit
<1>2. TypeOK /\ [ApiNext]_apiVars => TypeOK'
  BY TypeStep
<1> QED
  BY <1>1, <1>2, PTL DEF ApiSpec

-----------------------------------------------------------------------------
(* The lease *)

\* A claim has one message, and the message is in one place.
Tickets ==
    /\ dispatchedAt <= now
    /\ outbox \cap queue = {}
    /\ \A m \in outbox \cup queue : m.claim <= dispatchedAt
    /\ \A w \in Workers : Busy(w) =>
         Message(w) \notin outbox \cup queue /\ job[w].claim <= dispatchedAt
    /\ \A v, w \in Workers : Busy(v) /\ Busy(w) /\ Message(v) = Message(w) => v = w

\* No task outlives its hard limit, and the reaper selects stuck rows only.
Clocks ==
    /\ \A w \in Workers : Busy(w) => now <= job[w].began + HardLimit
    /\ \A r \in reaping : r.claim + StuckAfter < now

LeaseInv == TypeOK /\ LockMeansClaimed /\ Tickets /\ Clocks /\ LeaseHeld
----------------------------------------------------------------------------
(***************************************************************************)
(* What a step may change.                                                 *)
(***************************************************************************)

\* The steps of publish_post between taking a message and giving it up.
Middle(w) ==
    \/ Load(w) \/ Refuse(w) \/ ImageCheck(w) \/ ReleaseClaim(w)
    \/ DecryptFails(w) \/ CallAccepted(w) \/ CallRefused(w) \/ CallTransient(w)
    \/ Finish(w) \/ RecordFailure(w)
    \/ Raise(w) \/ FailUnclassified(w) \/ FailUnclassifiedFails(w)

\* The steps that write the row at the end.
Resolves(w) == Refuse(w) \/ ReleaseClaim(w) \/ Finish(w) \/ RecordFailure(w)

RiskGrows == \A p \in Posts : risk[p] \subseteq risk'[p]

LEMMA MiddleFrame ==
    ASSUME TypeOK, NEW w \in Workers, Middle(w)
    PROVE  /\ SameTasks
           /\ pc[w] \in Live
           /\ pc'[w] \in Live \cup {"done"}
           /\ \A v \in Workers \ {w} : pc'[v] = pc[v]
           /\ UNCHANGED <<now, dispatchedAt, outbox, queue, reaping>>
<1>1. CASE Load(w)
  BY <1>1 DEF TypeOK, Load, Step, SameTasks, Live
<1>2. CASE Refuse(w)
  BY <1>2 DEF TypeOK, Refuse, Step, SameTasks, Live
<1>3. CASE ImageCheck(w)
  <2>1. SameTasks
    BY <1>3, BareLocals DEF ImageCheck
  <2> QED
    BY <1>3, <2>1 DEF TypeOK, ImageCheck, Step, Live
<1>4. CASE ReleaseClaim(w)
  BY <1>4 DEF TypeOK, ReleaseClaim, Step, SameTasks, Live
<1>5. CASE DecryptFails(w)
  <2>1. SameTasks
    BY <1>5, JudgedLocals DEF TypeOK, DecryptFails, Jobs, Verdicts
  <2> QED
    BY <1>5, <2>1 DEF TypeOK, DecryptFails, Step, Live
<1>6. CASE CallAccepted(w)
  BY <1>6 DEF TypeOK, CallAccepted, Step, SameTasks, Live
<1>7. CASE CallRefused(w)
  <2>1. SameTasks
    BY <1>7, JudgedLocals DEF TypeOK, CallRefused, Jobs, Verdicts
  <2> QED
    BY <1>7, <2>1 DEF TypeOK, CallRefused, Step, Live
<1>8. CASE CallTransient(w)
  <2>1. job[w].attempts + 1 \in Nat
        /\ VerdictsAfter(job[w].attempts + 1) \subseteq Verdicts
    BY DEF TypeOK, Jobs, Verdicts, VerdictsAfter
  <2>2. SameTasks
    BY <1>8, <2>1, JudgedLocals, TriedLocals DEF CallTransient
  <2> QED
    BY <1>8, <2>2 DEF TypeOK, CallTransient, Step, Live
<1>9. CASE Finish(w)
  BY <1>9 DEF TypeOK, Finish, Step, SameTasks, Live
<1>10. CASE RecordFailure(w)
  BY <1>10 DEF TypeOK, RecordFailure, Step, SameTasks, Live
<1>11. CASE Raise(w)
  BY <1>11 DEF TypeOK, Raise, Step, SameTasks, Live
<1>12. CASE FailUnclassified(w)
  <2>1. post[job[w].post].attempts + 1 \in Nat
        /\ VerdictsAfter(post[job[w].post].attempts + 1) \subseteq Verdicts
    BY <1>12 DEF TypeOK, FailUnclassified, Busy, Rows, Verdicts, VerdictsAfter
  <2>2. SameTasks
    BY <1>12, <2>1, JudgedLocals DEF FailUnclassified, SameTasks
  <2> QED
    BY <1>12, <2>2 DEF TypeOK, FailUnclassified, Step, Live
<1>13. CASE FailUnclassifiedFails(w)
  BY <1>13 DEF TypeOK, FailUnclassifiedFails, Step, SameTasks, Live
<1> QED
  BY <1>1, <1>2, <1>3, <1>4, <1>5, <1>6, <1>7, <1>8, <1>9, <1>10, <1>11, <1>12, <1>13
  DEF Middle

LEMMA MiddleWrite ==
    ASSUME TypeOK, NEW w \in Workers, Middle(w)
    PROVE  \/ post' = post /\ RiskGrows
           \/ /\ Resolves(w) /\ pc'[w] = "done"
              /\ \E row \in Rows :
                    /\ row.status \in {"PENDING", "FAILED", "PUBLISHED"}
                    /\ row.lockedAt = NoLock
                    /\ WriteRow(w, row)
<1>0. job[w].post \in Posts
  BY MiddleFrame DEF TypeOK, Busy, Live
<1>1. CASE Refuse(w)
  <2>1. WriteRow(w, Released(job[w].post, "FAILED")) /\ pc'[w] = "done"
    BY <1>1 DEF TypeOK, Refuse, Step
  <2> QED
    BY <1>0, <1>1, <2>1, ReleasedRow DEF PostStatuses, Resolves
<1>2. CASE ReleaseClaim(w)
  <2>1. WriteRow(w, Released(job[w].post, "PENDING")) /\ pc'[w] = "done"
    BY <1>2 DEF TypeOK, ReleaseClaim, Step
  <2> QED
    BY <1>0, <1>2, <2>1, ReleasedRow DEF PostStatuses, Resolves
<1>3. CASE Finish(w)
  <2>1. WriteRow(w, Released(job[w].post, "PUBLISHED")) /\ pc'[w] = "done"
    BY <1>3 DEF TypeOK, Finish, Step
  <2> QED
    BY <1>0, <1>3, <2>1, ReleasedRow DEF PostStatuses, Resolves
<1>4. CASE RecordFailure(w)
  <2>1. WriteRow(w, FailedRow(w)) /\ pc'[w] = "done"
    BY <1>4 DEF TypeOK, RecordFailure, Step
  <2>2. /\ FailedRow(w) \in Rows
        /\ FailedRow(w).status \in {"PENDING", "FAILED"}
        /\ FailedRow(w).lockedAt = NoLock
    BY <1>0, RecordedRow
  <2> QED
    BY <1>4, <2>1, <2>2 DEF Resolves
<1>5. CASE Load(w) \/ ImageCheck(w) \/ DecryptFails(w) \/ CallAccepted(w) \/ CallRefused(w)
           \/ FailUnclassified(w) \/ FailUnclassifiedFails(w)
  BY <1>5 DEF RiskGrows, Load, ImageCheck, DecryptFails, CallAccepted, CallRefused,
              FailUnclassified, FailUnclassifiedFails
<1>6. CASE CallTransient(w)
  BY <1>0, <1>6 DEF TypeOK, RiskGrows, CallTransient, Blame
<1>7. CASE Raise(w)
  BY <1>0, <1>7 DEF TypeOK, RiskGrows, Raise, Blame
<1> QED
  BY <1>1, <1>2, <1>3, <1>4, <1>5, <1>6, <1>7 DEF Middle

LEMMA MessageOf ==
    ASSUME TypeOK, NEW w \in Workers, Busy(w)
    PROVE  Message(w) \in Messages
BY DEF TypeOK, Busy, Message, Messages, Jobs

\* Two busy slots on the same claim of the same post are the same slot.
LEMMA OneCopy ==
    ASSUME Tickets, NEW v \in Workers, NEW w \in Workers, Busy(v), Busy(w),
           job[v].post = job[w].post, job[v].claim = job[w].claim
    PROVE  v = w
BY DEF Tickets, Message
----------------------------------------------------------------------------
(***************************************************************************)
(* Tickets.                                                                *)
(***************************************************************************)
LEMMA TicketsFrame ==
    ASSUME Tickets, SameTasks,
           \A v \in Workers : Busy(v)' => Busy(v),
           UNCHANGED <<now, dispatchedAt, outbox, queue>>
    PROVE  Tickets'
BY DEF Tickets, SameTasks, Message

LEMMA TicketsStep == TypeOK /\ Tickets /\ [ApiNext]_apiVars => Tickets'
<1> SUFFICES ASSUME TypeOK, Tickets, [ApiNext]_apiVars
             PROVE  Tickets'
  OBVIOUS
<1>1. CASE UNCHANGED apiVars
  BY <1>1 DEF apiVars, vars, Tickets, Busy, Message
<1>2. CASE DispatchClaim
  <2>1. PICK batch \in SUBSET Posts : outbox' = outbox \cup [post : batch, claim : {now}]
    BY <1>2 DEF DispatchClaim, Batches
  <2>2. now \in Nat /\ dispatchedAt \in Nat \cup {-1} /\ dispatchedAt < now
    BY <1>2 DEF TypeOK, DispatchClaim
  <2>3. /\ dispatchedAt' = now /\ now' = now
        /\ UNCHANGED <<queue, pc, job>>
    BY <1>2 DEF DispatchClaim
  <2>4. \A m \in outbox' : m \in outbox \/ m.claim = now
    BY <2>1
  <2>5. \A m \in outbox \cup queue : m.claim \in Nat /\ m.claim < now
    BY <2>2 DEF TypeOK, Tickets, Messages
  <2>6. \A w \in Workers : Busy(w) =>
          job[w].claim \in Nat /\ job[w].claim < now /\ Message(w).claim = job[w].claim
    <3>1. \A w \in Workers : job[w].claim \in Nat
      BY DEF TypeOK, Jobs
    <3>2. \A w \in Workers : Message(w).claim = job[w].claim
      BY DEF Message
    <3>3. \A w \in Workers : Busy(w) => job[w].claim <= dispatchedAt
      BY DEF Tickets
    <3> QED
      BY <2>2, <3>1, <3>2, <3>3
  <2>7. outbox' \cap queue' = {}
    BY <2>2, <2>3, <2>4, <2>5 DEF Tickets
  <2>8. \A w \in Workers : Busy(w)' =>
          Message(w)' \notin (outbox \cup queue)' /\ job'[w].claim <= dispatchedAt'
    <3> TAKE w \in Workers
    <3> HAVE Busy(w)'
    <3>1. Busy(w) /\ Message(w)' = Message(w) /\ job'[w] = job[w]
      BY <2>3 DEF Busy, Message
    <3>2. Message(w).claim < now /\ Message(w).claim \in Nat
      BY <2>6, <3>1
    <3>3. Message(w) \notin outbox'
      <4>1. Message(w).claim # now
        BY <2>2, <3>2
      <4>2. Message(w) \notin outbox
        BY <3>1 DEF Tickets
      <4> QED
        BY <2>4, <4>1, <4>2
    <3>4. Message(w) \notin queue /\ job[w].claim < now
      BY <2>6, <3>1 DEF Tickets
    <3>5. job[w].claim <= now
      BY <2>2, <2>6, <3>1, <3>4
    <3> QED
      BY <2>3, <3>1, <3>3, <3>4, <3>5
  <2>9. \A m \in (outbox \cup queue)' : m.claim <= dispatchedAt'
    BY <2>2, <2>3, <2>4, <2>5
  <2>10. \A v, w \in Workers :
           Busy(v)' /\ Busy(w)' /\ Message(v)' = Message(w)' => v = w
    BY <2>3 DEF Tickets, Busy, Message
  <2> QED
    BY <2>2, <2>3, <2>7, <2>8, <2>9, <2>10 DEF Tickets
<1>3. ASSUME NEW m \in outbox, DispatchSend(m)
      PROVE  Tickets'
  BY <1>3 DEF DispatchSend, Tickets, Busy, Message
<1>4. ASSUME NEW m \in outbox \cup queue, Lose(m)
      PROVE  Tickets'
  BY <1>4 DEF Lose, Tickets, Busy, Message
<1>5. ASSUME NEW w \in Workers, Publish(w)
      PROVE  Tickets'
  <2>1. ASSUME NEW m \in queue, Begin(w, m)
        PROVE  Tickets'
    <3>1. /\ NewJob(m).post = m.post /\ NewJob(m).claim = m.claim
          /\ m \in Messages /\ [post |-> m.post, claim |-> m.claim] = m
      BY NewJobLocals DEF TypeOK, Messages
    <3>2. /\ job'[w] = NewJob(m) /\ \A v \in Workers \ {w} : job'[v] = job[v]
          /\ \A v \in Workers \ {w} : pc'[v] = pc[v]
          /\ queue' = queue \ {m}
          /\ UNCHANGED <<now, dispatchedAt, outbox>>
      BY <2>1 DEF TypeOK, Begin, Step
    <3>3. Message(w)' = m /\ \A v \in Workers \ {w} : Message(v)' = Message(v)
      BY <3>1, <3>2 DEF Message
    <3>4. \A v \in Workers \ {w} : Busy(v)' <=> Busy(v)
      BY <3>2 DEF Busy
    <3> QED
      BY <3>1, <3>2, <3>3, <3>4 DEF Tickets
  <2>2. ASSUME NEW m \in queue, StandDown(w, m)
        PROVE  Tickets'
    BY <2>2 DEF StandDown, Tickets, Busy, Message
  <2>3. CASE Middle(w)
    <3>1. \A v \in Workers : Busy(v)' => Busy(v)
      BY <2>3, MiddleFrame DEF Busy, Live
    <3> QED
      BY <2>3, <3>1, MiddleFrame, TicketsFrame
  <2>4. CASE Ack(w)
    BY <2>4 DEF TypeOK, Ack, Step, Tickets, Busy, Message
  <2>5. CASE Crash(w)
    <3>1. /\ pc'[w] = "idle" /\ \A v \in Workers \ {w} : pc'[v] = pc[v]
          /\ \A v \in Workers \ {w} : job'[v] = job[v]
          /\ queue' \subseteq queue \cup {Message(w)}
          /\ UNCHANGED <<now, dispatchedAt, outbox>>
      BY <2>5 DEF TypeOK, Crash, Step
    <3>2. Busy(w) /\ ~Busy(w)'
      BY <2>5, <3>1 DEF Crash, Busy
    <3>3. \A v \in Workers \ {w} : (Busy(v)' <=> Busy(v)) /\ Message(v)' = Message(v)
      BY <3>1 DEF Busy, Message
    <3>4. Message(w).claim = job[w].claim
      BY DEF Message
    <3> QED
      BY <3>1, <3>2, <3>3, <3>4 DEF Tickets
  <2> QED
    BY <1>5, <2>1, <2>2, <2>3, <2>4, <2>5 DEF Publish, Middle
<1>6. CASE ReapSelect
  BY <1>6 DEF ReapSelect, Tickets, Busy, Message
<1>7. CASE ReapUpdate
  BY <1>7 DEF ReapUpdate, Tickets, Busy, Message
<1>8. CASE Surroundings
  BY <1>8 DEF Surroundings, ImageEnds, ChannelChanges, GateChanges, Tickets, Busy, Message
<1>9. CASE Tick
  BY <1>9 DEF TypeOK, Tick, Tickets, Busy, Message
<1>10. ASSUME NEW op \in {"cancel", "edit", "retry"}, NEW p \in Posts, ApiRead(op, p)
       PROVE  Tickets'
  BY <1>10 DEF ApiRead, Tickets, Busy, Message
<1>11. ASSUME NEW c \in calls, CancelWrite(c) \/ EditWrite(c) \/ RetryWrite(c)
       PROVE  Tickets'
  BY <1>11 DEF CancelWrite, EditWrite, RetryWrite, ApiWrite, Tickets, Busy, Message
<1>12. CASE Replan
  BY <1>12 DEF Replan, Tickets, Busy, Message
<1> QED
  BY <1>1, <1>2, <1>3, <1>4, <1>5, <1>6, <1>7, <1>8, <1>9, <1>10, <1>11, <1>12
  DEF ApiNext, Next
----------------------------------------------------------------------------
(***************************************************************************)
(* Clocks.                                                                 *)
(***************************************************************************)
LEMMA ClocksFrame ==
    ASSUME Clocks, SameTasks,
           \A v \in Workers : Busy(v)' => Busy(v),
           UNCHANGED <<now, reaping>>
    PROVE  Clocks'
BY DEF Clocks, SameTasks

LEMMA ClocksStep == TypeOK /\ Clocks /\ [ApiNext]_apiVars => Clocks'
<1> SUFFICES ASSUME TypeOK, Clocks, [ApiNext]_apiVars
             PROVE  Clocks'
  OBVIOUS
<1> USE TimesAssumption
<1>1. CASE UNCHANGED apiVars
  BY <1>1 DEF apiVars, vars, Clocks, Busy
<1>2. CASE DispatchClaim
  BY <1>2 DEF DispatchClaim, Clocks, Busy
<1>3. ASSUME NEW m \in outbox \cup queue, DispatchSend(m) \/ Lose(m)
      PROVE  Clocks'
  BY <1>3 DEF DispatchSend, Lose, Clocks, Busy
<1>4. ASSUME NEW w \in Workers, Publish(w)
      PROVE  Clocks'
  <2>1. ASSUME NEW m \in queue, Begin(w, m)
        PROVE  Clocks'
    <3>1. /\ job'[w].began = now /\ \A v \in Workers \ {w} : job'[v] = job[v]
          /\ \A v \in Workers \ {w} : pc'[v] = pc[v]
          /\ UNCHANGED <<now, reaping>>
      BY <2>1, NewJobLocals DEF TypeOK, Begin, Step
    <3>2. now <= now + HardLimit
      BY DEF TypeOK
    <3> QED
      BY <3>1, <3>2 DEF Clocks, Busy
  <2>2. ASSUME NEW m \in queue, StandDown(w, m)
        PROVE  Clocks'
    BY <2>2 DEF StandDown, Clocks, Busy
  <2>3. CASE Middle(w)
    <3>1. \A v \in Workers : Busy(v)' => Busy(v)
      BY <2>3, MiddleFrame DEF Busy, Live
    <3> QED
      BY <2>3, <3>1, MiddleFrame, ClocksFrame
  <2>4. CASE Ack(w) \/ Crash(w)
    <3>1. /\ pc'[w] = "idle" /\ \A v \in Workers \ {w} : pc'[v] = pc[v]
          /\ \A v \in Workers \ {w} : job'[v] = job[v]
          /\ UNCHANGED <<now, reaping>>
      BY <2>4 DEF TypeOK, Ack, Crash, Step
    <3> QED
      BY <3>1 DEF Clocks, Busy
  <2> QED
    BY <1>4, <2>1, <2>2, <2>3, <2>4 DEF Publish, Middle
<1>5. CASE ReapSelect
  <2>1. ASSUME NEW r \in reaping'
        PROVE  r.claim + StuckAfter < now
    <3>1. PICK p \in Posts : Stuck(p) /\ r = [post |-> p, claim |-> post[p].lockedAt]
      BY <1>5, <2>1 DEF ReapSelect
    <3>2. post[p].lockedAt \in Nat /\ post[p].lockedAt < now - StuckAfter
      BY <3>1 DEF TypeOK, Rows, Stuck
    <3>3. now \in Nat /\ StuckAfter \in Nat /\ r.claim = post[p].lockedAt
      BY <3>1 DEF TypeOK
    <3> QED
      BY <3>2, <3>3
  <2> QED
    BY <1>5, <2>1 DEF ReapSelect, Clocks, Busy
<1>6. CASE ReapUpdate
  BY <1>6 DEF ReapUpdate, Clocks, Busy
<1>7. CASE Surroundings
  BY <1>7 DEF Surroundings, ImageEnds, ChannelChanges, GateChanges, Clocks, Busy
<1>8. CASE Tick
  <2>1. \A w \in Workers : Busy(w) => now' <= job'[w].began + HardLimit
    <3> SUFFICES ASSUME NEW w \in Workers, Busy(w)
                 PROVE  now' <= job'[w].began + HardLimit
      OBVIOUS
    <3>1. now \in Nat /\ HardLimit \in Nat /\ job[w].began \in Nat
      BY DEF TypeOK, Jobs
    <3>2. now < job[w].began + HardLimit /\ now' = now + 1 /\ job' = job
      BY <1>8 DEF Tick, ClockMoves
    <3> QED
      BY <3>1, <3>2
  <2>2. reaping' = {}
    BY <1>8 DEF Tick, ClockMoves
  <2> QED
    BY <1>8, <2>1, <2>2 DEF Tick, Clocks, Busy
<1>9. ASSUME NEW op \in {"cancel", "edit", "retry"}, NEW p \in Posts, ApiRead(op, p)
      PROVE  Clocks'
  BY <1>9 DEF ApiRead, Clocks, Busy
<1>10. ASSUME NEW c \in calls, CancelWrite(c) \/ EditWrite(c) \/ RetryWrite(c)
       PROVE  Clocks'
  BY <1>10 DEF CancelWrite, EditWrite, RetryWrite, ApiWrite, Clocks, Busy
<1>11. CASE Replan
  BY <1>11 DEF Replan, Clocks, Busy
<1> QED
  BY <1>1, <1>2, <1>3, <1>4, <1>5, <1>6, <1>7, <1>8, <1>9, <1>10, <1>11
  DEF ApiNext, Next
----------------------------------------------------------------------------
(***************************************************************************)
(* Locks.                                                                  *)
(***************************************************************************)
LockOf(row) ==
    /\ row.status = "PROCESSING" => row.lockedAt \in 0..now
    /\ row.status = "PENDING" => row.lockedAt = NoLock

LEMMA LockInit == ApiInit => LockMeansClaimed
BY DEF ApiInit, Init, StartWith, Row, LockMeansClaimed

LEMMA LockStep == TypeOK /\ LockMeansClaimed /\ [ApiNext]_apiVars => LockMeansClaimed'
<1> SUFFICES ASSUME TypeOK, LockMeansClaimed, [ApiNext]_apiVars, NEW p \in Posts
             PROVE  LockOf(post[p])'
  BY DEF LockMeansClaimed, LockOf
<1>0. now \in Nat /\ LockOf(post[p])
  BY DEF TypeOK, LockMeansClaimed, LockOf
<1>1. CASE post'[p] = post[p]
  <2>1. ASSUME NEW w \in Workers, Publish(w)
        PROVE  now' = now
    BY <2>1 DEF Publish, Begin, StandDown, Load, Refuse, ImageCheck, ReleaseClaim,
         DecryptFails, CallAccepted, CallRefused, CallTransient, Finish, RecordFailure,
         Raise, FailUnclassified, FailUnclassifiedFails, Ack, Crash
  <2>2. (\A w \in Workers : ~Publish(w)) => now' = now \/ now' = now + 1
    BY DEF apiVars, vars, ApiNext, Next, DispatchClaim, DispatchSend, Lose, ReapSelect,
         ReapUpdate, Surroundings, ImageEnds, ChannelChanges, GateChanges, Tick, ApiRead,
         CancelWrite, EditWrite, RetryWrite, ApiWrite, Replan
  <2>3. now' = now \/ now' = now + 1
    BY <2>1, <2>2
  <2> QED
    BY <1>0, <1>1, <2>3 DEF LockOf
<1>2. CASE DispatchClaim
  <2>1. (post'[p] = post[p] \/ post'[p] = Claimed(p)) /\ now' = now
    BY <1>2 DEF DispatchClaim
  <2> QED
    BY <1>0, <2>1, ClaimedRow DEF LockOf
<1>3. ASSUME NEW w \in Workers, Publish(w), post'[p] # post[p]
      PROVE  LockOf(post[p])'
  <2>1. Middle(w)
    BY <1>3 DEF Publish, Middle, Begin, StandDown, Ack, Crash
  <2>2. PICK row \in Rows :
          /\ row.status \in {"PENDING", "FAILED", "PUBLISHED"}
          /\ row.lockedAt = NoLock
          /\ WriteRow(w, row)
    BY <1>3, <2>1, MiddleWrite
  <2>3. post'[p] = row
    BY <1>3, <2>2 DEF TypeOK, WriteRow
  <2> QED
    BY <2>2, <2>3 DEF LockOf
<1>4. CASE ReapUpdate
  <2>1. post'[p] = post[p] \/ post'[p] = Released(p, "PENDING")
    BY <1>4 DEF ReapUpdate
  <2> QED
    BY <1>1, <2>1, ReleasedRow DEF LockOf, PostStatuses
<1>5. ASSUME NEW c \in calls, CancelWrite(c)
      PROVE  LockOf(post[p])'
  <2>1. post'[p] = post[p] \/ post'[p] = [post[p] EXCEPT !.status = "CANCELLED"]
    BY <1>5 DEF TypeOK, CancelWrite, ApiWrite
  <2>2. [post[p] EXCEPT !.status = "CANCELLED"].status = "CANCELLED"
    BY StatusRow DEF TypeOK, PostStatuses
  <2> QED
    BY <1>1, <2>1, <2>2 DEF LockOf
<1>6. ASSUME NEW c \in calls, NEW when, ApiWrite(c, Requeued(c.post, when))
      PROVE  LockOf(post[p])'
  <2>1. post'[p] = post[p] \/ post'[p] = Requeued(c.post, when)
    BY <1>6 DEF TypeOK, ApiWrite
  <2>2. Requeued(c.post, when).status = "PENDING" /\ Requeued(c.post, when).lockedAt = NoLock
    BY DEF Requeued
  <2> QED
    BY <1>1, <2>1, <2>2 DEF LockOf
<1>7. CASE Replan
  <2>1. post'[p] = post[p] \/ post'[p] = [post[p] EXCEPT !.status = "CANCELLED"]
    BY <1>7 DEF Replan
  <2>2. [post[p] EXCEPT !.status = "CANCELLED"].status = "CANCELLED"
    BY StatusRow DEF TypeOK, PostStatuses
  <2> QED
    BY <1>1, <2>1, <2>2 DEF LockOf
<1>8. CASE UNCHANGED apiVars \/ ReapSelect \/ Surroundings \/ Tick
  <2>1. post' = post
    BY <1>8 DEF apiVars, vars, ReapSelect, Surroundings, ImageEnds, ChannelChanges,
                GateChanges, Tick
  <2> QED
    BY <1>1, <2>1
<1>9. ASSUME NEW m \in outbox \cup queue, DispatchSend(m) \/ Lose(m)
      PROVE  LockOf(post[p])'
  BY <1>1, <1>9 DEF DispatchSend, Lose
<1>10. ASSUME NEW op \in {"cancel", "edit", "retry"}, NEW q \in Posts, ApiRead(op, q)
       PROVE  LockOf(post[p])'
  BY <1>1, <1>10 DEF ApiRead
<1> QED
  BY <1>1, <1>2, <1>3, <1>4, <1>5, <1>6, <1>7, <1>8, <1>9, <1>10
  DEF ApiNext, Next, EditWrite, RetryWrite

\* A lock is there exactly while the post is claimed, whatever was lost or raced.
THEOREM LockSafe == ApiSpec => []LockMeansClaimed
<1>1. ApiInit => LockMeansClaimed
  BY LockInit
<1>2. TypeOK /\ LockMeansClaimed /\ [ApiNext]_apiVars => LockMeansClaimed'
  BY LockStep
<1> QED
  BY <1>1, <1>2, TypeCorrect, PTL DEF ApiSpec
----------------------------------------------------------------------------
(***************************************************************************)
(* The lease.                                                              *)
(***************************************************************************)

\* The history of what went wrong with a post only grows.
LEMMA HistoryStep == TypeOK /\ [ApiNext]_apiVars => RiskGrows
<1> SUFFICES ASSUME TypeOK, [ApiNext]_apiVars
             PROVE  RiskGrows
  OBVIOUS
<1>1. CASE UNCHANGED apiVars
  BY <1>1 DEF apiVars, vars, RiskGrows
<1>2. CASE DispatchClaim \/ ReapSelect \/ Surroundings \/ Tick \/ Replan
  BY <1>2 DEF DispatchClaim, ReapSelect, Surroundings, ImageEnds, ChannelChanges,
              GateChanges, Tick, Replan, RiskGrows
<1>3. ASSUME NEW m \in outbox \cup queue, DispatchSend(m) \/ Lose(m)
      PROVE  RiskGrows
  BY <1>3 DEF DispatchSend, Lose, RiskGrows
<1>4. ASSUME NEW w \in Workers, Publish(w)
      PROVE  RiskGrows
  <2>1. ASSUME NEW m \in queue, Begin(w, m) \/ StandDown(w, m)
        PROVE  RiskGrows
    BY <2>1 DEF TypeOK, Begin, StandDown, Blame, RiskGrows
  <2>2. CASE Middle(w)
    BY <2>2, MiddleWrite DEF TypeOK, WriteRow, Blame, RiskGrows
  <2>3. CASE Ack(w) \/ Crash(w)
    BY <2>3 DEF TypeOK, Ack, Crash, Blame, RiskGrows
  <2> QED
    BY <1>4, <2>1, <2>2, <2>3 DEF Publish, Middle
<1>5. CASE ReapUpdate
  BY <1>5 DEF TypeOK, ReapUpdate, RiskGrows
<1>6. ASSUME NEW op \in {"cancel", "edit", "retry"}, NEW p \in Posts, ApiRead(op, p)
      PROVE  RiskGrows
  BY <1>6 DEF ApiRead, RiskGrows
<1>7. ASSUME NEW c \in calls, CancelWrite(c) \/ EditWrite(c) \/ RetryWrite(c)
      PROVE  RiskGrows
  BY <1>7 DEF TypeOK, CancelWrite, EditWrite, RetryWrite, ApiWrite, Blame, RiskGrows
<1> QED
  BY <1>1, <1>2, <1>3, <1>4, <1>5, <1>6, <1>7 DEF ApiNext, Next

\* A copy that is owed its row.
Owed(w) ==
    /\ pc[w] \in Live
    /\ Timely(job[w].began, job[w].claim)
    /\ "blind" \notin risk[job[w].post]

LEMMA OwedHolds ==
    ASSUME TypeOK, LeaseHeld, NEW w \in Workers, Owed(w)
    PROVE  /\ Busy(w) /\ job[w].post \in Posts
           /\ Holds(job[w].post, job[w].claim)
BY DEF TypeOK, LeaseHeld, Owed, Busy, Live

\* A step that changes no task and no row keeps the lease.
LEMMA LeaseFrame ==
    ASSUME TypeOK, LeaseHeld, RiskGrows, UNCHANGED <<pc, job, post>>
    PROVE  LeaseHeld'
<1> SUFFICES ASSUME NEW w \in Workers, Owed(w)'
             PROVE  Holds(job[w].post, job[w].claim)'
  BY DEF LeaseHeld, Owed
<1>1. Owed(w)
  BY DEF TypeOK, Owed, RiskGrows, Timely, Busy, Live
<1> QED
  BY <1>1, OwedHolds DEF Holds

LEMMA LeaseStep == LeaseInv /\ [ApiNext]_apiVars => LeaseHeld'
<1> SUFFICES ASSUME LeaseInv, [ApiNext]_apiVars
             PROVE  LeaseHeld'
  OBVIOUS
<1>0. TypeOK /\ LockMeansClaimed /\ Tickets /\ Clocks /\ LeaseHeld /\ RiskGrows
  BY HistoryStep DEF LeaseInv
<1>1. CASE UNCHANGED apiVars
  BY <1>0, <1>1, LeaseFrame DEF apiVars, vars
<1>2. CASE DispatchClaim
  <2> SUFFICES ASSUME NEW w \in Workers, Owed(w)'
               PROVE  Holds(job[w].post, job[w].claim)'
    BY DEF LeaseHeld, Owed
  <2>1. Owed(w) /\ job' = job
    BY <1>0, <1>2 DEF TypeOK, DispatchClaim, Owed, Timely
  <2>2. Holds(job[w].post, job[w].claim) /\ job[w].post \in Posts
    BY <1>0, <2>1, OwedHolds
  <2>3. ~Due(job[w].post)
    BY <2>2 DEF Holds, Due
  <2>4. post'[job[w].post] = post[job[w].post]
    BY <1>2, <2>2, <2>3 DEF DispatchClaim, Batches, Fair
  <2> QED
    BY <2>1, <2>2, <2>4 DEF Holds
<1>3. ASSUME NEW m \in outbox \cup queue, DispatchSend(m) \/ Lose(m)
      PROVE  LeaseHeld'
  BY <1>0, <1>3, LeaseFrame DEF DispatchSend, Lose
<1>4. ASSUME NEW w \in Workers, Publish(w)
      PROVE  LeaseHeld'
  <2>1. ASSUME NEW m \in queue, Begin(w, m)
        PROVE  LeaseHeld'
    <3> SUFFICES ASSUME NEW v \in Workers, Owed(v)'
                 PROVE  Holds(job[v].post, job[v].claim)'
      BY DEF LeaseHeld, Owed
    <3>1. CASE v = w
      <4>1. job'[w].post = m.post /\ job'[w].claim = m.claim
        BY <1>0, <2>1, NewJobLocals DEF TypeOK, Begin
      <4>2. m.post \in Posts /\ post[m.post].lockedAt # NoLock
        BY <1>0, <2>1 DEF TypeOK, Messages, LockMeansClaimed, Begin, StillMine, NoLock
      <4> QED
        BY <2>1, <3>1, <4>1, <4>2 DEF Begin, StillMine, Holds
    <3>2. CASE v # w
      <4>1. pc'[v] = pc[v] /\ job'[v] = job[v] /\ post' = post
        BY <1>0, <2>1, <3>2 DEF TypeOK, Begin, Step
      <4>2. Owed(v)
        BY <1>0, <4>1 DEF TypeOK, Owed, RiskGrows, Timely, Busy, Live
      <4> QED
        BY <1>0, <4>1, <4>2, OwedHolds DEF Holds
    <3> QED
      BY <3>1, <3>2
  <2>2. ASSUME NEW m \in queue, StandDown(w, m)
        PROVE  LeaseHeld'
    BY <1>0, <2>2, LeaseFrame DEF StandDown
  <2>3. CASE Middle(w)
    <3> SUFFICES ASSUME NEW v \in Workers, Owed(v)'
                 PROVE  Holds(job[v].post, job[v].claim)'
      BY DEF LeaseHeld, Owed
    <3>1. /\ job'[v].post = job[v].post /\ job'[v].claim = job[v].claim
          /\ job'[v].began = job[v].began
      BY <1>0, <2>3, MiddleFrame DEF SameTasks
    <3>2. Owed(v)
      BY <1>0, <2>3, <3>1, MiddleFrame DEF TypeOK, Owed, RiskGrows, Timely, Busy, Live
    <3>3. Busy(v) /\ job[v].post \in Posts /\ Holds(job[v].post, job[v].claim)
      BY <1>0, <3>2, OwedHolds
    <3>4. CASE post' = post
      BY <3>1, <3>3, <3>4 DEF Holds
    <3>5. ASSUME NEW row \in Rows, pc'[w] = "done", WriteRow(w, row)
          PROVE  post'[job[v].post] = post[job[v].post]
      <4>1. v # w /\ Busy(w)
        BY <1>0, <2>3, <3>5, MiddleFrame DEF Owed, Live, Busy
      <4>2. CASE job[w].post # job[v].post
        BY <1>0, <3>5, <4>2 DEF TypeOK, WriteRow
      <4>3. CASE job[w].post = job[v].post
        <5>1. job[w].claim # job[v].claim
          BY <1>0, <3>3, <4>1, <4>3, OneCopy
        <5>2. ~Holds(job[w].post, job[w].claim)
          BY <3>3, <4>3, <5>1 DEF Holds
        <5>3. "blind" \in risk'[job[v].post]
          BY <1>0, <3>3, <3>5, <4>3, <5>2 DEF TypeOK, WriteRow, Blame
        <5> QED
          BY <3>1, <5>3 DEF Owed
      <4> QED
        BY <4>2, <4>3
    <3> QED
      BY <1>0, <2>3, <3>1, <3>3, <3>4, <3>5, MiddleWrite DEF Holds
  <2>4. CASE Ack(w) \/ Crash(w)
    <3> SUFFICES ASSUME NEW v \in Workers, Owed(v)'
                 PROVE  Holds(job[v].post, job[v].claim)'
      BY DEF LeaseHeld, Owed
    <3>1. v # w
      BY <1>0, <2>4 DEF TypeOK, Ack, Crash, Step, Owed, Live
    <3>2. pc'[v] = pc[v] /\ job'[v] = job[v] /\ post' = post
      BY <1>0, <2>4, <3>1 DEF TypeOK, Ack, Crash, Step
    <3>3. Owed(v)
      BY <1>0, <3>2 DEF TypeOK, Owed, RiskGrows, Timely, Busy, Live
    <3> QED
      BY <1>0, <3>2, <3>3, OwedHolds DEF Holds
  <2> QED
    BY <1>4, <2>1, <2>2, <2>3, <2>4 DEF Publish, Middle
<1>5. CASE ReapSelect \/ Surroundings \/ Tick
  BY <1>0, <1>5, LeaseFrame
  DEF ReapSelect, Surroundings, ImageEnds, ChannelChanges, GateChanges, Tick
<1>6. CASE ReapUpdate
  <2> SUFFICES ASSUME NEW w \in Workers, Owed(w)'
               PROVE  Holds(job[w].post, job[w].claim)'
    BY DEF LeaseHeld, Owed
  <2>1. Owed(w) /\ job' = job
    BY <1>0, <1>6 DEF TypeOK, ReapUpdate, RiskGrows, Owed, Timely, Busy, Live
  <2>2. Busy(w) /\ job[w].post \in Posts /\ Holds(job[w].post, job[w].claim)
    BY <1>0, <2>1, OwedHolds
  <2>3. ASSUME NEW r \in reaping, r.post = job[w].post
        PROVE  FALSE
    <3>1. Holds(r.post, r.claim)
      <4>1. "blind" \notin risk'[job[w].post]
        BY <2>1 DEF Owed
      <4> QED
        BY <1>6, <2>2, <2>3, <4>1 DEF ReapUpdate
    <3>2. r.claim = job[w].claim
      BY <2>2, <2>3, <3>1 DEF Holds
    <3>3. r.claim + StuckAfter < now /\ now <= job[w].began + HardLimit
      BY <1>0, <2>2, <2>3 DEF Clocks
    <3>4. job[w].began + HardLimit <= job[w].claim + StuckAfter
      BY <2>1 DEF Owed, Timely
    <3>5. /\ job[w].began \in Nat /\ job[w].claim \in Nat /\ now \in Nat
          /\ HardLimit \in Nat /\ StuckAfter \in Nat
      BY <1>0, TimesAssumption DEF TypeOK, Jobs
    <3> QED
      BY <3>2, <3>3, <3>4, <3>5
  <2>4. post'[job[w].post] = post[job[w].post]
    BY <1>6, <2>2, <2>3 DEF ReapUpdate
  <2> QED
    BY <2>1, <2>2, <2>4 DEF Holds
<1>7. ASSUME NEW op \in {"cancel", "edit", "retry"}, NEW p \in Posts, ApiRead(op, p)
      PROVE  LeaseHeld'
  BY <1>0, <1>7, LeaseFrame DEF ApiRead
<1>8. ASSUME NEW c \in calls, NEW row, ApiWrite(c, row)
      PROVE  LeaseHeld'
  <2> SUFFICES ASSUME NEW w \in Workers, Owed(w)'
               PROVE  Holds(job[w].post, job[w].claim)'
    BY DEF LeaseHeld, Owed
  <2>1. Owed(w) /\ job' = job
    BY <1>0, <1>8 DEF TypeOK, ApiWrite, RiskGrows, Owed, Timely, Busy, Live
  <2>2. job[w].post \in Posts /\ Holds(job[w].post, job[w].claim)
    BY <1>0, <2>1, OwedHolds
  <2>3. CASE c.post = job[w].post
    <3>1. post[c.post].status \notin Accepts(c.op)
      BY <2>2, <2>3 DEF Holds, Accepts
    <3>2. "blind" \in risk'[job[w].post]
      BY <1>0, <1>8, <2>2, <2>3, <3>1 DEF TypeOK, ApiWrite, Blame
    <3> QED
      BY <2>1, <3>2 DEF Owed
  <2>4. CASE c.post # job[w].post
    <3>1. post'[job[w].post] = post[job[w].post]
      BY <1>0, <1>8, <2>2, <2>4 DEF TypeOK, ApiWrite
    <3> QED
      BY <2>1, <2>2, <3>1 DEF Holds
  <2> QED
    BY <2>3, <2>4
<1>9. CASE Replan
  <2> SUFFICES ASSUME NEW w \in Workers, Owed(w)'
               PROVE  Holds(job[w].post, job[w].claim)'
    BY DEF LeaseHeld, Owed
  <2>1. Owed(w) /\ job' = job
    BY <1>9 DEF Replan, Owed, Timely
  <2>2. job[w].post \in Posts /\ Holds(job[w].post, job[w].claim)
    BY <1>0, <2>1, OwedHolds
  <2>3. post'[job[w].post] = post[job[w].post]
    BY <1>9, <2>2 DEF Replan, Holds
  <2> QED
    BY <2>1, <2>2, <2>3 DEF Holds
<1> QED
  BY <1>1, <1>2, <1>3, <1>4, <1>5, <1>6, <1>7, <1>8, <1>9
  DEF ApiNext, Next, CancelWrite, EditWrite, RetryWrite

LEMMA LeaseInvInit == ApiInit => LeaseInv
<1> SUFFICES ASSUME ApiInit
             PROVE  LeaseInv
  OBVIOUS
<1>1. \A w \in Workers : pc[w] = "idle"
  BY DEF ApiInit, Init, StartWith, Row
<1>2. now = 0 /\ dispatchedAt = -1 /\ outbox = {} /\ queue = {} /\ reaping = {}
  BY DEF ApiInit, Init, StartWith, Row
<1> QED
  BY <1>1, <1>2, TypeInit, LockInit DEF LeaseInv, Tickets, Clocks, LeaseHeld, Busy, Live

LEMMA LeaseInvStep == LeaseInv /\ [ApiNext]_apiVars => LeaseInv'
BY TypeStep, LockStep, TicketsStep, ClocksStep, LeaseStep DEF LeaseInv

\* A copy that starts in time keeps its row until it resolves it, for any number of
\* posts and slots and any delays: nothing needs StuckAfter to exceed HardLimit, only
\* that this copy started early enough.
THEOREM LeaseSafe == ApiSpec => []LeaseHeld
<1>1. ApiInit => LeaseInv
  BY LeaseInvInit
<1>2. LeaseInv /\ [ApiNext]_apiVars => LeaseInv'
  BY LeaseInvStep
<1>3. LeaseInv => LeaseHeld
  BY DEF LeaseInv
<1> QED
  BY <1>1, <1>2, <1>3, PTL DEF ApiSpec

-----------------------------------------------------------------------------
(***************************************************************************)
(* Proofs that a post goes out once, that its outcome stands, that its     *)
(* retries are bounded, and that the pipeline with the API implements      *)
(* PostPromise.  They rest on the lease and on one lemma,                  *)
(* RowStep: a step that leaves a post in the protocol's hands changes its  *)
(* row in five ways only.                                                  *)
(***************************************************************************)
Dispatched(p) ==
    /\ post[p].status = "PENDING"
    /\ post'[p].status = "PROCESSING"
    /\ post'[p].attempts = post[p].attempts

Resolved(p) == \E w \in Workers :
    /\ job[w].post = p /\ Resolves(w)
    /\ Holds(p, job[w].claim)
    /\ post'[p].status \in {"PENDING", "FAILED", "PUBLISHED"}
    /\ post'[p].status = "PUBLISHED" => Finish(w)
    /\ post'[p].status = "PENDING" =>
         \/ post'[p].attempts = post[p].attempts
         \/ /\ pc[w] \in {"failing", "recording"} /\ job[w].verdict = "retry"
            /\ post'[p].attempts = job[w].attempts

Reaped(p) ==
    /\ post[p].status = "PROCESSING"
    /\ post'[p].status = "PENDING"
    /\ post'[p].attempts = post[p].attempts

Served(p) == \E c \in calls \ calls' :
    /\ c.post = p /\ c.op \in {"cancel", "edit", "retry"}
    /\ post[p].status \in Accepts(c.op)
    /\ IF c.op = "cancel" THEN post'[p].status = "CANCELLED"
       ELSE post'[p].status = "PENDING" /\ post'[p].attempts = 0

Replanned(p) == post[p].status = "PENDING" /\ post'[p].status = "CANCELLED"

RowChanges(p) ==
    Dispatched(p) \/ Resolved(p) \/ Reaped(p) \/ Served(p) \/ Replanned(p)

LEMMA ResolvedStep ==
    ASSUME TypeOK, NEW w \in Workers, Resolves(w), NEW p \in Posts, risk'[p] = {}
    PROVE  post'[p] = post[p] \/ Resolved(p)
<1>0. Middle(w) /\ job[w].post \in Posts
  <2>1. Middle(w)
    BY DEF Resolves, Middle
  <2> QED
    BY <2>1, MiddleFrame DEF TypeOK, Busy, Live
<1>1. ASSUME NEW row, WriteRow(w, row), p = job[w].post
      PROVE  post'[p] = row /\ Holds(p, job[w].claim)
  BY <1>0, <1>1 DEF TypeOK, WriteRow, Blame
<1>2. CASE p # job[w].post
  BY <1>0, <1>2 DEF TypeOK, Resolves, Refuse, ReleaseClaim, Finish, RecordFailure, WriteRow
<1>3. CASE p = job[w].post /\ Refuse(w)
  <2>1. post'[p] = Released(p, "FAILED") /\ Holds(p, job[w].claim)
    BY <1>1, <1>3 DEF Refuse
  <2> QED
    BY <1>3, <2>1, ReleasedRow DEF Resolved, Resolves, PostStatuses
<1>4. CASE p = job[w].post /\ ReleaseClaim(w)
  <2>1. post'[p] = Released(p, "PENDING") /\ Holds(p, job[w].claim)
    BY <1>1, <1>4 DEF ReleaseClaim
  <2> QED
    BY <1>4, <2>1, ReleasedRow DEF Resolved, Resolves, PostStatuses
<1>5. CASE p = job[w].post /\ Finish(w)
  <2>1. post'[p] = Released(p, "PUBLISHED") /\ Holds(p, job[w].claim)
    BY <1>1, <1>5 DEF Finish
  <2> QED
    BY <1>5, <2>1, ReleasedRow DEF Resolved, Resolves, PostStatuses
<1>6. CASE p = job[w].post /\ RecordFailure(w)
  <2>1. post'[p] = FailedRow(w) /\ Holds(p, job[w].claim)
        /\ pc[w] \in {"failing", "recording"}
    BY <1>1, <1>6 DEF RecordFailure
  <2> QED
    BY <1>0, <1>6, <2>1, RecordedRow DEF Resolved, Resolves
<1> QED
  BY <1>2, <1>3, <1>4, <1>5, <1>6 DEF Resolves

\* A step changes the row of a post only in these ways, or writes to it blindly.
LEMMA RowStep ==
    ASSUME TypeOK, [ApiNext]_apiVars, NEW p \in Posts, risk'[p] = {}
    PROVE  post'[p] = post[p] \/ RowChanges(p)
<1>1. CASE UNCHANGED apiVars
  BY <1>1 DEF apiVars, vars
<1>2. CASE DispatchClaim
  <2>1. PICK batch \in Batches :
          post' = [q \in Posts |-> IF q \in batch THEN Claimed(q) ELSE post[q]]
    BY <1>2 DEF DispatchClaim
  <2>2. CASE p \in batch
    <3>1. post[p].status = "PENDING"
      BY <2>1, <2>2 DEF Batches, Fair, Due
    <3> QED
      BY <2>1, <2>2, <3>1, ClaimedRow DEF RowChanges, Dispatched
  <2>3. CASE p \notin batch
    BY <2>1, <2>3
  <2> QED
    BY <2>2, <2>3
<1>3. ASSUME NEW m \in outbox \cup queue, DispatchSend(m) \/ Lose(m)
      PROVE  post'[p] = post[p]
  BY <1>3 DEF DispatchSend, Lose
<1>4. ASSUME NEW w \in Workers, Publish(w)
      PROVE  post'[p] = post[p] \/ RowChanges(p)
  <2>1. ASSUME NEW m \in queue, Begin(w, m) \/ StandDown(w, m)
        PROVE  post'[p] = post[p]
    BY <2>1 DEF Begin, StandDown
  <2>2. CASE Middle(w)
    BY <2>2, MiddleWrite, ResolvedStep DEF RowChanges
  <2>3. CASE Ack(w) \/ Crash(w)
    BY <2>3 DEF Ack, Crash
  <2> QED
    BY <1>4, <2>1, <2>2, <2>3 DEF Publish, Middle
<1>5. CASE ReapSelect \/ Surroundings \/ Tick
  BY <1>5 DEF ReapSelect, Surroundings, ImageEnds, ChannelChanges, GateChanges, Tick
<1>6. CASE ReapUpdate
  <2>1. CASE \E r \in reaping : r.post = p
    <3>1. PICK r \in reaping : r.post = p
      BY <2>1
    <3>2. Holds(p, r.claim)
      BY <1>6, <3>1 DEF ReapUpdate
    <3>3. post'[p] = Released(p, "PENDING")
      BY <1>6, <3>1 DEF ReapUpdate
    <3> QED
      BY <3>2, <3>3, ReleasedRow DEF Holds, RowChanges, Reaped, PostStatuses
  <2>2. CASE ~\E r \in reaping : r.post = p
    BY <1>6, <2>2 DEF ReapUpdate
  <2> QED
    BY <2>1, <2>2
<1>7. ASSUME NEW op \in {"cancel", "edit", "retry"}, NEW q \in Posts, ApiRead(op, q)
      PROVE  post'[p] = post[p]
  BY <1>7 DEF ApiRead
<1>8. ASSUME NEW c \in calls, CancelWrite(c) \/ EditWrite(c) \/ RetryWrite(c)
      PROVE  post'[p] = post[p] \/ RowChanges(p)
  <2>0. c \in calls \ calls' /\ c.post \in Posts /\ c.op \in {"cancel", "edit", "retry"}
    BY <1>8 DEF TypeOK, Calls, CancelWrite, EditWrite, RetryWrite, ApiWrite
  <2>1. ASSUME NEW row, ApiWrite(c, row), c.post = p
        PROVE  post'[p] = row /\ post[p].status \in Accepts(c.op)
    BY <2>1 DEF TypeOK, ApiWrite, Blame
  <2>2. CASE c.post # p
    BY <1>8, <2>0, <2>2 DEF TypeOK, CancelWrite, EditWrite, RetryWrite, ApiWrite
  <2>3. CASE c.post = p /\ CancelWrite(c)
    <3>1. /\ post'[p] = [post[p] EXCEPT !.status = "CANCELLED"]
          /\ post[p].status \in Accepts(c.op) /\ c.op = "cancel"
      BY <2>1, <2>3 DEF CancelWrite
    <3>2. post'[p].status = "CANCELLED"
      BY <3>1, StatusRow DEF TypeOK, PostStatuses
    <3> QED
      BY <2>0, <2>3, <3>1, <3>2 DEF RowChanges, Served
  <2>4. ASSUME NEW when, ApiWrite(c, Requeued(p, when)), c.post = p, c.op # "cancel"
        PROVE  RowChanges(p)
    <3>1. post'[p].status = "PENDING" /\ post'[p].attempts = 0
      BY <2>1, <2>4 DEF Requeued
    <3>2. post[p].status \in Accepts(c.op)
      BY <2>1, <2>4
    <3> QED
      BY <2>0, <2>4, <3>1, <3>2 DEF RowChanges, Served
  <2>5. CASE c.post = p /\ EditWrite(c)
    <3>1. PICK when : ApiWrite(c, Requeued(p, when))
      BY <2>5 DEF EditWrite
    <3>2. c.op # "cancel"
      BY <2>5 DEF EditWrite
    <3> QED
      BY <2>4, <2>5, <3>1, <3>2
  <2>6. CASE c.post = p /\ RetryWrite(c)
    <3>1. ApiWrite(c, Requeued(p, post[p].scheduledAt)) /\ c.op # "cancel"
      BY <2>6 DEF RetryWrite
    <3> QED
      BY <2>4, <2>6, <3>1
  <2> QED
    BY <1>8, <2>2, <2>3, <2>5, <2>6
<1>9. CASE Replan
  <2>1. post'[p] = post[p] \/ (/\ post[p].status = "PENDING"
                               /\ post'[p] = [post[p] EXCEPT !.status = "CANCELLED"])
    BY <1>9 DEF Replan
  <2>2. [post[p] EXCEPT !.status = "CANCELLED"].status = "CANCELLED"
    BY StatusRow DEF TypeOK, PostStatuses
  <2> QED
    BY <2>1, <2>2 DEF RowChanges, Replanned
<1> QED
  BY <1>1, <1>2, <1>3, <1>4, <1>5, <1>6, <1>7, <1>8, <1>9 DEF ApiNext, Next
----------------------------------------------------------------------------
(***************************************************************************)
(* At most once.                                                           *)
(***************************************************************************)

\* A copy of a post that has had no late copy started in time.
Punctual ==
    \A w \in Workers :
        pc[w] \in Live /\ "late" \notin risk[job[w].post]
            => Timely(job[w].began, job[w].claim)

OnceInv == LeaseInv /\ Punctual /\ AcceptedStaysPublished /\ AtMostOnce

LEMMA PunctualStep == TypeOK /\ Punctual /\ [ApiNext]_apiVars => Punctual'
<1> SUFFICES ASSUME TypeOK, Punctual, [ApiNext]_apiVars,
                    NEW v \in Workers, (pc[v] \in Live)', "late" \notin risk'[job'[v].post]
             PROVE  Timely(job[v].began, job[v].claim)'
  BY DEF Punctual
<1>0. RiskGrows
  BY HistoryStep
<1>1. ASSUME pc'[v] \in Live => pc[v] \in Live,
             job'[v].post = job[v].post, job'[v].claim = job[v].claim,
             job'[v].began = job[v].began
      PROVE  Timely(job[v].began, job[v].claim)'
  <2>1. pc[v] \in Live /\ job[v].post \in Posts
    BY <1>1 DEF TypeOK, Busy, Live
  <2>2. "late" \notin risk[job[v].post]
    BY <1>0, <1>1, <2>1 DEF RiskGrows
  <2> QED
    BY <1>1, <2>1, <2>2 DEF Punctual, Timely
<1>2. CASE UNCHANGED <<pc, job>>
  BY <1>1, <1>2
<1>3. ASSUME NEW w \in Workers, Publish(w)
      PROVE  Timely(job[v].began, job[v].claim)'
  <2>1. ASSUME NEW m \in queue, Begin(w, m)
        PROVE  Timely(job[v].began, job[v].claim)'
    <3>1. CASE v = w
      <4>1. /\ job'[w].post = m.post /\ job'[w].claim = m.claim /\ job'[w].began = now
            /\ m.post \in Posts
        BY <2>1, NewJobLocals DEF TypeOK, Begin, Messages
      <4>2. ~Timely(now, m.claim) => "late" \in risk'[m.post]
        BY <2>1, <4>1 DEF TypeOK, Begin, Blame
      <4> QED
        BY <3>1, <4>1, <4>2 DEF Timely
    <3>2. CASE v # w
      BY <1>1, <2>1, <3>2 DEF TypeOK, Begin, Step
    <3> QED
      BY <3>1, <3>2
  <2>2. ASSUME NEW m \in queue, StandDown(w, m)
        PROVE  UNCHANGED <<pc, job>>
    BY <2>2 DEF StandDown
  <2>3. CASE Middle(w)
    BY <1>1, <2>3, MiddleFrame DEF SameTasks
  <2>4. CASE Ack(w) \/ Crash(w)
    <3>1. v # w
      BY <2>4 DEF TypeOK, Ack, Crash, Step, Live
    <3> QED
      BY <1>1, <2>4, <3>1 DEF TypeOK, Ack, Crash, Step
  <2> QED
    BY <1>2, <1>3, <2>1, <2>2, <2>3, <2>4 DEF Publish, Middle
<1>4. (\A w \in Workers : ~Publish(w)) => UNCHANGED <<pc, job>>
  BY DEF apiVars, vars, ApiNext, Next, DispatchClaim, DispatchSend, Lose, ReapSelect,
         ReapUpdate, Surroundings, ImageEnds, ChannelChanges, GateChanges, Tick, ApiRead,
         CancelWrite, EditWrite, RetryWrite, ApiWrite, Replan
<1> QED
  BY <1>2, <1>3, <1>4

\* A live copy of a post nothing went wrong with holds its row.
LEMMA CleanHolds ==
    ASSUME LeaseInv, Punctual, NEW w \in Workers, pc[w] \in Live, risk[job[w].post] = {}
    PROVE  Holds(job[w].post, job[w].claim) /\ job[w].post \in Posts /\ Busy(w)
BY DEF LeaseInv, TypeOK, Punctual, LeaseHeld, Busy, Live

\* ... and is the only one.
LEMMA CleanAlone ==
    ASSUME LeaseInv, Punctual, NEW v \in Workers, NEW w \in Workers,
           pc[v] \in Live, pc[w] \in Live,
           job[v].post = job[w].post, risk[job[w].post] = {}
    PROVE  v = w
<1>1. job[v].claim = job[w].claim /\ Busy(v) /\ Busy(w)
  BY CleanHolds DEF Holds
<1> QED
  BY <1>1, OneCopy DEF LeaseInv

LEMMA LiveAccepted == "accepted" \in Live /\ "calling" \in Live
BY DEF Live

\* The platform's count changes by CallAccepted, or the acceptance is known to be lost.
LEMMA AcceptStep ==
    ASSUME TypeOK, [ApiNext]_apiVars, NEW p \in Posts, risk'[p] = {},
           accepted'[p] # accepted[p]
    PROVE  \E w \in Workers :
             /\ CallAccepted(w) /\ job[w].post = p
             /\ pc[w] = "calling" /\ pc'[w] = "accepted"
             /\ accepted[p] < 2 /\ accepted'[p] = accepted[p] + 1
<1>1. ASSUME NEW w \in Workers, CallAccepted(w)
      PROVE  /\ job[w].post = p /\ pc[w] = "calling" /\ pc'[w] = "accepted"
             /\ accepted[p] < 2 /\ accepted'[p] = accepted[p] + 1
  BY <1>1 DEF TypeOK, CallAccepted, Accept, Step
<1>2. ASSUME NEW w \in Workers, CallTransient(w)
      PROVE  FALSE
  <2>1. job[w].post \in Posts
    BY <1>2 DEF TypeOK, CallTransient, Busy
  <2>2. Accept(job[w].post) /\ Blame(job[w].post, "unrecorded")
    BY <1>2 DEF CallTransient
  <2>3. p = job[w].post
    BY <2>1, <2>2 DEF TypeOK, Accept
  <2> QED
    BY <2>1, <2>2, <2>3 DEF TypeOK, Blame
<1>3. (\A w \in Workers : ~CallAccepted(w) /\ ~CallTransient(w)) => accepted' = accepted
  <2> SUFFICES ASSUME \A w \in Workers : ~CallAccepted(w) /\ ~CallTransient(w)
               PROVE  accepted' = accepted
    OBVIOUS
  <2>1. ASSUME NEW w \in Workers, Publish(w)
        PROVE  accepted' = accepted
    BY <2>1 DEF Publish, Begin, StandDown, Load, Refuse, ImageCheck, ReleaseClaim,
                DecryptFails, CallRefused, Finish, RecordFailure, Raise,
                FailUnclassified, FailUnclassifiedFails, Ack, Crash
  <2> QED
    BY <2>1 DEF apiVars, vars, ApiNext, Next, DispatchClaim, DispatchSend, Lose,
         ReapSelect, ReapUpdate, Surroundings, ImageEnds, ChannelChanges, GateChanges,
         Tick, ApiRead, CancelWrite, EditWrite, RetryWrite, ApiWrite, Replan
<1> QED
  BY <1>1, <1>2, <1>3

\* A copy that had its post accepted waits to record it, and records it.
LEMMA AcceptedCopy ==
    ASSUME TypeOK, [ApiNext]_apiVars, NEW w \in Workers, pc[w] = "accepted",
           risk'[job[w].post] = {}
    PROVE  \/ pc'[w] = "accepted" /\ job'[w].post = job[w].post
           \/ Finish(w) /\ post'[job[w].post].status = "PUBLISHED"
<1>0. job[w].post \in Posts
  BY DEF TypeOK, Busy
<1>1. CASE UNCHANGED <<pc, job>>
  BY <1>1
<1>2. ASSUME NEW v \in Workers, Publish(v)
      PROVE  \/ pc'[w] = "accepted" /\ job'[w].post = job[w].post
             \/ Finish(w) /\ post'[job[w].post].status = "PUBLISHED"
  <2>1. CASE v # w
    <3>1. ASSUME NEW m \in queue, Begin(v, m) \/ StandDown(v, m)
          PROVE  pc'[w] = pc[w] /\ job'[w] = job[w]
      BY <2>1, <3>1 DEF TypeOK, Begin, StandDown, Step
    <3>2. CASE Middle(v)
      BY <2>1, <3>2, MiddleFrame DEF SameTasks
    <3>3. CASE Ack(v) \/ Crash(v)
      BY <2>1, <3>3 DEF TypeOK, Ack, Crash, Step
    <3> QED
      BY <1>2, <3>1, <3>2, <3>3 DEF Publish, Middle
  <2>2. CASE v = w
    <3>1. Finish(w) \/ Raise(w) \/ Crash(w)
      BY <1>2, <2>2 DEF Publish, Begin, StandDown, Load, Refuse, ImageCheck, ReleaseClaim,
           DecryptFails, CallAccepted, CallRefused, CallTransient, RecordFailure,
           FailUnclassified, FailUnclassifiedFails, Ack
    <3>2. CASE Finish(w)
      <4>1. WriteRow(w, Released(job[w].post, "PUBLISHED"))
        BY <3>2 DEF Finish
      <4>2. post'[job[w].post] = Released(job[w].post, "PUBLISHED")
        BY <1>0, <4>1 DEF TypeOK, WriteRow
      <4> QED
        BY <1>0, <3>2, <4>2, ReleasedRow DEF PostStatuses
    <3>3. CASE Raise(w) \/ Crash(w)
      <4>1. Blame(job[w].post, "unrecorded")
        BY <3>3 DEF Raise, Crash
      <4> QED
        BY <1>0, <4>1 DEF TypeOK, Blame
    <3> QED
      BY <3>1, <3>2, <3>3
  <2> QED
    BY <2>1, <2>2
<1>3. (\A v \in Workers : ~Publish(v)) => UNCHANGED <<pc, job>>
  BY DEF apiVars, vars, ApiNext, Next, DispatchClaim, DispatchSend, Lose, ReapSelect,
         ReapUpdate, Surroundings, ImageEnds, ChannelChanges, GateChanges, Tick, ApiRead,
         CancelWrite, EditWrite, RetryWrite, ApiWrite, Replan
<1> QED
  BY <1>1, <1>2, <1>3

LEMMA OnceInvInit == ApiInit => OnceInv
<1> SUFFICES ASSUME ApiInit
             PROVE  OnceInv
  OBVIOUS
<1>1. (\A w \in Workers : pc[w] = "idle") /\ (\A p \in Posts : accepted[p] = 0)
  BY DEF ApiInit, Init, StartWith, Row
<1> QED
  BY <1>1, LeaseInvInit DEF OnceInv, Punctual, AcceptedStaysPublished, AtMostOnce, Live

LEMMA OnceInvStep == OnceInv /\ [ApiNext]_apiVars => OnceInv'
<1> SUFFICES ASSUME OnceInv, [ApiNext]_apiVars
             PROVE  OnceInv'
  OBVIOUS
<1>0. /\ LeaseInv /\ TypeOK /\ Punctual /\ AcceptedStaysPublished /\ AtMostOnce
      /\ RiskGrows
  BY HistoryStep DEF OnceInv, LeaseInv
<1>1. LeaseInv' /\ Punctual'
  BY <1>0, LeaseInvStep, PunctualStep
<1>2. ASSUME NEW p \in Posts, risk'[p] = {}
      PROVE  risk[p] = {}
  BY <1>0, <1>2 DEF RiskGrows
<1>3. AcceptedStaysPublished'
  <2> SUFFICES ASSUME NEW p \in Posts, risk'[p] = {}, accepted'[p] > 0
               PROVE  \/ post'[p].status = "PUBLISHED"
                      \/ \E w \in Workers : job'[w].post = p /\ pc'[w] = "accepted"
    BY DEF AcceptedStaysPublished
  <2>1. CASE accepted'[p] # accepted[p]
    <3>1. PICK w \in Workers : CallAccepted(w) /\ job[w].post = p /\ pc'[w] = "accepted"
      BY <1>0, <2>1, AcceptStep
    <3>2. job' = job
      BY <3>1 DEF CallAccepted
    <3> QED
      BY <3>1, <3>2
  <2>2. CASE accepted'[p] = accepted[p] /\ post[p].status = "PUBLISHED"
    <3>1. ~RowChanges(p)
      BY <2>2 DEF RowChanges, Dispatched, Resolved, Reaped, Served, Replanned, Holds, Accepts
    <3> QED
      BY <1>0, <2>2, <3>1, RowStep
  <2>3. ASSUME NEW w \in Workers, job[w].post = p, pc[w] = "accepted"
        PROVE  \/ post'[p].status = "PUBLISHED"
               \/ job'[w].post = p /\ pc'[w] = "accepted"
    BY <1>0, <2>3, AcceptedCopy
  <2> QED
    BY <1>0, <1>2, <2>1, <2>2, <2>3 DEF AcceptedStaysPublished
<1>4. AtMostOnce'
  <2> SUFFICES ASSUME NEW p \in Posts, risk'[p] = {}
               PROVE  accepted'[p] <= 1
    BY DEF AtMostOnce
  <2>1. risk[p] = {} /\ accepted[p] <= 1 /\ accepted[p] \in Nat
    BY <1>0, <1>2 DEF AtMostOnce, TypeOK
  <2>2. CASE accepted'[p] # accepted[p]
    <3>1. PICK w \in Workers : /\ job[w].post = p /\ pc[w] = "calling"
                               /\ accepted'[p] = accepted[p] + 1
      BY <1>0, <2>2, AcceptStep
    <3>2. post[p].status = "PROCESSING"
      BY <1>0, <2>1, <3>1, CleanHolds, LiveAccepted DEF Holds
    <3>3. ASSUME NEW v \in Workers, job[v].post = p, pc[v] = "accepted"
          PROVE  FALSE
      BY <1>0, <2>1, <3>1, <3>3, CleanAlone, LiveAccepted
    <3>4. ~(accepted[p] > 0)
      BY <1>0, <2>1, <3>2, <3>3 DEF AcceptedStaysPublished
    <3> QED
      BY <2>1, <3>1, <3>4
  <2> QED
    BY <2>1, <2>2
<1> QED
  BY <1>1, <1>3, <1>4 DEF OnceInv

\* A post goes out at most once unless a copy started too late for its lease, a row was
\* written to blindly, or an acceptance was never recorded.
THEOREM OnceSafe == ApiSpec => []AtMostOnce
<1>1. ApiInit => OnceInv
  BY OnceInvInit
<1>2. OnceInv /\ [ApiNext]_apiVars => OnceInv'
  BY OnceInvStep
<1>3. OnceInv => AtMostOnce
  BY DEF OnceInv
<1> QED
  BY <1>1, <1>2, <1>3, PTL DEF ApiSpec

\* What was accepted and recorded stays PUBLISHED.
THEOREM AcceptedSafe == ApiSpec => []AcceptedStaysPublished
<1>1. ApiInit => OnceInv
  BY OnceInvInit
<1>2. OnceInv /\ [ApiNext]_apiVars => OnceInv'
  BY OnceInvStep
<1>3. OnceInv => AcceptedStaysPublished
  BY DEF OnceInv
<1> QED
  BY <1>1, <1>2, <1>3, PTL DEF ApiSpec

\* A verdict is changed by a user's edit or retry only.
THEOREM VerdictSafe == ApiSpec => VerdictStands
<1>1. TypeOK /\ [ApiNext]_apiVars =>
        [\A p \in Posts :
           /\ post[p].status \in {"PUBLISHED", "FAILED", "CANCELLED"}
           /\ post'[p].status # post[p].status
           /\ risk'[p] = {}
           => \E c \in calls \ calls' : c.post = p /\ c.op \in {"edit", "retry"}]_apiVars
  <2> SUFFICES ASSUME TypeOK, [ApiNext]_apiVars, NEW p \in Posts,
                      post[p].status \in {"PUBLISHED", "FAILED", "CANCELLED"},
                      post'[p].status # post[p].status,
                      risk'[p] = {}
               PROVE  \E c \in calls \ calls' : c.post = p /\ c.op \in {"edit", "retry"}
    OBVIOUS
  <2>1. RowChanges(p)
    BY RowStep
  <2>2. Served(p)
    BY <2>1 DEF RowChanges, Dispatched, Resolved, Reaped, Replanned, Holds
  <2> QED
    BY <2>2 DEF Served, Accepts
<1> QED
  BY <1>1, TypeCorrect, PTL DEF ApiSpec, VerdictStands
----------------------------------------------------------------------------
(***************************************************************************)
(* The retry budget.                                                       *)
(***************************************************************************)
\* A task that is going to put its post back for another try has tries left.
BudgetInv ==
    /\ RetryBudget
    /\ \A w \in Workers :
         pc[w] \in {"failing", "recording"} /\ job[w].verdict = "retry" =>
             job[w].attempts < MaxAttempts

LEMMA VerdictsInBudget ==
    ASSUME NEW n \in Nat, NEW v \in VerdictsAfter(n)
    PROVE  v \in Verdicts /\ (v = "retry" => n < MaxAttempts)
BY TimesAssumption DEF VerdictsAfter, Verdicts

LEMMA BudgetStep == TypeOK /\ BudgetInv /\ [ApiNext]_apiVars => BudgetInv'
<1> SUFFICES ASSUME TypeOK, BudgetInv, [ApiNext]_apiVars
             PROVE  BudgetInv'
  OBVIOUS
<1>0. RiskGrows /\ MaxAttempts \in Nat /\ MaxAttempts > 0
  BY HistoryStep, TimesAssumption
<1>1. ASSUME NEW p \in Posts, risk'[p] = {}, post'[p].status \in {"PENDING", "PROCESSING"}
      PROVE  post'[p].attempts < MaxAttempts
  <2>1. risk[p] = {}
    BY <1>0, <1>1 DEF RiskGrows
  <2>2. CASE post'[p] = post[p]
    BY <1>1, <2>1, <2>2 DEF BudgetInv, RetryBudget
  <2>3. CASE Dispatched(p) \/ Reaped(p)
    BY <2>1, <2>3 DEF BudgetInv, RetryBudget, Dispatched, Reaped
  <2>4. CASE Resolved(p)
    BY <1>1, <2>1, <2>4 DEF BudgetInv, RetryBudget, Resolved, Holds
  <2>5. CASE Served(p)
    BY <1>0, <1>1, <2>5 DEF Served
  <2>6. CASE Replanned(p)
    BY <1>1, <2>6 DEF Replanned
  <2> QED
    BY <1>1, <2>2, <2>3, <2>4, <2>5, <2>6, RowStep DEF RowChanges
<1>2. ASSUME NEW v \in Workers, pc'[v] \in {"failing", "recording"},
             job'[v].verdict = "retry"
      PROVE  job'[v].attempts < MaxAttempts
  <2>1. CASE pc'[v] = pc[v] /\ job'[v] = job[v]
    BY <1>2, <2>1 DEF BudgetInv
  <2>2. ASSUME NEW w \in Workers, Publish(w)
        PROVE  job'[v].attempts < MaxAttempts
    <3>1. ASSUME NEW n \in Nat, NEW x \in Verdicts, Judge(w, n, x), v = w,
                 x = "retry" => n < MaxAttempts
          PROVE  job'[v].attempts < MaxAttempts
      BY <1>2, <3>1, JudgedLocals
    <3>2. ASSUME NEW n \in Nat, NEW x \in Verdicts, Judge(w, n, x), v # w,
                 pc'[v] = pc[v]
          PROVE  job'[v].attempts < MaxAttempts
      BY <2>1, <3>2, JudgedLocals
    <3>3. CASE DecryptFails(w) \/ CallRefused(w)
      <4>1. PICK x \in {"fail", "fault"} : Judge(w, job[w].attempts + 1, x)
        BY <3>3 DEF DecryptFails, CallRefused
      <4>2. job[w].attempts + 1 \in Nat /\ x \in Verdicts /\ x # "retry"
        BY <4>1 DEF TypeOK, Jobs, Verdicts
      <4>3. v # w => pc'[v] = pc[v]
        BY <3>3 DEF TypeOK, DecryptFails, CallRefused, Step
      <4> QED
        BY <3>1, <3>2, <4>1, <4>2, <4>3
    <3>4. CASE CallTransient(w) /\ pc' # pc
      <4> DEFINE n == job[w].attempts + 1
      <4>1. PICK x \in VerdictsAfter(n) : Judge(w, n, x)
        BY <3>4 DEF CallTransient
      <4>2. n \in Nat
        BY DEF TypeOK, Jobs
      <4>3. x \in Verdicts /\ (x = "retry" => n < MaxAttempts)
        BY <4>1, <4>2, VerdictsInBudget
      <4>4. v # w => pc'[v] = pc[v]
        BY <3>4 DEF TypeOK, CallTransient, Step
      <4> HIDE DEF n
      <4> QED
        BY <3>1, <3>2, <4>1, <4>2, <4>3, <4>4
    <3>5. CASE CallTransient(w) /\ pc' = pc
      BY <1>2, <2>1, <3>5 DEF TypeOK, CallTransient, Step
    <3>6. CASE FailUnclassified(w) /\ pc'[w] = "recording"
      <4> DEFINE n == post[job[w].post].attempts + 1
      <4>1. PICK x \in VerdictsAfter(n) : Judge(w, n, x)
        BY <3>6 DEF TypeOK, FailUnclassified, Step
      <4>2. n \in Nat
        BY <3>6 DEF TypeOK, FailUnclassified, Busy, Rows
      <4>3. x \in Verdicts /\ (x = "retry" => n < MaxAttempts)
        BY <4>1, <4>2, VerdictsInBudget
      <4>4. v # w => pc'[v] = pc[v]
        BY <3>6 DEF TypeOK, FailUnclassified, Step
      <4> HIDE DEF n
      <4> QED
        BY <3>1, <3>2, <4>1, <4>2, <4>3, <4>4
    <3>7. CASE FailUnclassified(w) /\ pc'[w] # "recording"
      BY <1>2, <2>1, <3>7 DEF TypeOK, FailUnclassified, Step
    <3>8. ASSUME NEW m \in queue, Begin(w, m) \/ StandDown(w, m)
          PROVE  job'[v].attempts < MaxAttempts
      BY <1>2, <2>1, <3>8 DEF TypeOK, Begin, StandDown, Step
    <3>9. CASE ImageCheck(w)
      BY <1>2, <2>1, <3>9 DEF TypeOK, ImageCheck, Step
    <3>10. CASE Load(w) \/ Refuse(w) \/ ReleaseClaim(w) \/ CallAccepted(w) \/ Finish(w)
                \/ RecordFailure(w) \/ Raise(w) \/ FailUnclassifiedFails(w)
                \/ Ack(w) \/ Crash(w)
      BY <1>2, <2>1, <3>10
      DEF TypeOK, Load, Refuse, ReleaseClaim, CallAccepted, Finish, RecordFailure, Raise,
          FailUnclassifiedFails, Ack, Crash, Step
    <3> QED
      BY <2>2, <3>3, <3>4, <3>5, <3>6, <3>7, <3>8, <3>9, <3>10 DEF Publish
  <2>3. (\A w \in Workers : ~Publish(w)) => UNCHANGED <<pc, job>>
    BY DEF apiVars, vars, ApiNext, Next, DispatchClaim, DispatchSend, Lose, ReapSelect,
         ReapUpdate, Surroundings, ImageEnds, ChannelChanges, GateChanges, Tick, ApiRead,
         CancelWrite, EditWrite, RetryWrite, ApiWrite, Replan
  <2> QED
    BY <2>1, <2>2, <2>3
<1> QED
  BY <1>1, <1>2 DEF BudgetInv, RetryBudget

\* A post that will be attempted again has attempts left.
THEOREM BudgetSafe == ApiSpec => []RetryBudget
<1>1. ApiInit => BudgetInv
  BY TimesAssumption DEF ApiInit, Init, StartWith, Row, BudgetInv, RetryBudget
<1>2. TypeOK /\ BudgetInv /\ [ApiNext]_apiVars => BudgetInv'
  BY BudgetStep
<1>3. BudgetInv => RetryBudget
  BY DEF BudgetInv
<1> QED
  BY <1>1, <1>2, <1>3, TypeCorrect, PTL DEF ApiSpec

-----------------------------------------------------------------------------
(* The pipeline with the API implements PostPromise. *)

\* Some copy had the post accepted and has not recorded it.
Accepting(p) == \E w \in Workers : job[w].post = p /\ pc[w] = "accepted"

\* What the promise says of one post in one step.
PromisedMove(p) ==
    \/ Promise!Claim(p) \/ Promise!Return(p) \/ Promise!Fail(p) \/ Promise!Send(p)
    \/ Promise!Record(p) \/ Promise!Cancel(p) \/ Promise!Reopen(p) \/ Promise!Keep(p)

LEMMA OutwardRow ==
    ASSUME NEW p \in Posts
    PROVE  /\ Accepting(p) => Outward(p) = "sent"
           /\ ~Accepting(p) /\ post[p].status = "PENDING" => Outward(p) = "waiting"
           /\ ~Accepting(p) /\ post[p].status = "PROCESSING" => Outward(p) = "claimed"
           /\ ~Accepting(p) /\ post[p].status = "PUBLISHED" => Outward(p) = "published"
           /\ ~Accepting(p) /\ post[p].status = "FAILED" => Outward(p) = "failed"
           /\ ~Accepting(p) /\ post[p].status = "CANCELLED" => Outward(p) = "cancelled"
BY DEF Accepting, Outward

LEMMA OutwardRowNext ==
    ASSUME NEW p \in Posts
    PROVE  /\ Accepting(p)' => Outward(p)' = "sent"
           /\ ~Accepting(p)' /\ post'[p].status = "PENDING" => Outward(p)' = "waiting"
           /\ ~Accepting(p)' /\ post'[p].status = "PROCESSING" => Outward(p)' = "claimed"
           /\ ~Accepting(p)' /\ post'[p].status = "PUBLISHED" => Outward(p)' = "published"
           /\ ~Accepting(p)' /\ post'[p].status = "FAILED" => Outward(p)' = "failed"
           /\ ~Accepting(p)' /\ post'[p].status = "CANCELLED" => Outward(p)' = "cancelled"
BY DEF Accepting, Outward

LEMMA MoveByRow ==
    ASSUME NEW p \in Posts, accepted'[p] = accepted[p]
    PROVE  /\ Outward(p)' = Outward(p) => PromisedMove(p)
           /\ Outward(p) = "waiting" /\ Outward(p)' = "claimed" => PromisedMove(p)
           /\ Outward(p) = "claimed" /\ Outward(p)' \in {"waiting", "failed"} => PromisedMove(p)
           /\ Outward(p) = "sent" /\ Outward(p)' = "published" => PromisedMove(p)
           /\ Outward(p) = "waiting" /\ Outward(p)' = "cancelled" => PromisedMove(p)
           /\ Outward(p) \in {"failed", "cancelled"} /\ Outward(p)' = "waiting" => PromisedMove(p)
BY DEF PromisedMove, Promise!Claim, Promise!Return, Promise!Fail, Promise!Record,
       Promise!Cancel, Promise!Reopen, Promise!Keep, Promise!Moves

\* A copy becomes "accepted" by CallAccepted only.
LEMMA NewlyAccepting ==
    ASSUME TypeOK, [ApiNext]_apiVars, NEW w \in Workers, pc'[w] = "accepted"
    PROVE  \/ pc[w] = "accepted" /\ job'[w].post = job[w].post
           \/ CallAccepted(w) /\ job' = job
<1>1. CASE UNCHANGED <<pc, job>>
  BY <1>1
<1>2. ASSUME NEW v \in Workers, Publish(v)
      PROVE  \/ pc[w] = "accepted" /\ job'[w].post = job[w].post
             \/ CallAccepted(w) /\ job' = job
  <2>1. CASE v # w
    <3>1. ASSUME NEW m \in queue, Begin(v, m) \/ StandDown(v, m)
          PROVE  pc'[w] = pc[w] /\ job'[w] = job[w]
      BY <2>1, <3>1 DEF TypeOK, Begin, StandDown, Step
    <3>2. CASE Middle(v)
      BY <2>1, <3>2, MiddleFrame DEF SameTasks
    <3>3. CASE Ack(v) \/ Crash(v)
      BY <2>1, <3>3 DEF TypeOK, Ack, Crash, Step
    <3> QED
      BY <1>2, <3>1, <3>2, <3>3 DEF Publish, Middle
  <2>2. CASE v = w
    <3>1. ASSUME NEW m \in queue, Begin(w, m) \/ StandDown(w, m)
          PROVE  pc[w] = "accepted" /\ job'[w].post = job[w].post
      BY <3>1 DEF TypeOK, Begin, StandDown, Step
    <3>2. CASE CallAccepted(w)
      BY <3>2 DEF CallAccepted
    <3>3. ~(Load(w) \/ Refuse(w) \/ ImageCheck(w) \/ ReleaseClaim(w) \/ DecryptFails(w)
              \/ CallRefused(w) \/ CallTransient(w) \/ Finish(w) \/ RecordFailure(w)
              \/ Raise(w) \/ FailUnclassified(w) \/ FailUnclassifiedFails(w)
              \/ Ack(w) \/ Crash(w))
      BY DEF TypeOK, Load, Refuse, ImageCheck, ReleaseClaim, DecryptFails, CallRefused,
             CallTransient, Finish, RecordFailure, Raise, FailUnclassified,
             FailUnclassifiedFails, Ack, Crash, Step
    <3> QED
      BY <1>2, <2>2, <3>1, <3>2, <3>3 DEF Publish
  <2> QED
    BY <2>1, <2>2
<1>3. (\A v \in Workers : ~Publish(v)) => UNCHANGED <<pc, job>>
  BY DEF apiVars, vars, ApiNext, Next, DispatchClaim, DispatchSend, Lose, ReapSelect,
         ReapUpdate, Surroundings, ImageEnds, ChannelChanges, GateChanges, Tick, ApiRead,
         CancelWrite, EditWrite, RetryWrite, ApiWrite, Replan
<1> QED
  BY <1>1, <1>2, <1>3

LEMMA MoveStep ==
    ASSUME OnceInv, [ApiNext]_apiVars, NEW p \in Posts, risk'[p] = {}
    PROVE  PromisedMove(p)
<1>0. /\ LeaseInv /\ TypeOK /\ Punctual /\ AcceptedStaysPublished /\ AtMostOnce
      /\ risk[p] = {}
  BY HistoryStep DEF OnceInv, LeaseInv, RiskGrows
<1>1. ASSUME NEW v \in Workers, NEW w \in Workers, pc[v] \in {"accepted", "calling"},
             pc[w] \in {"accepted", "calling"}, job[v].post = p, job[w].post = p
      PROVE  v = w
  BY <1>0, <1>1, CleanAlone, LiveAccepted
<1>2. ASSUME NEW w \in Workers, pc[w] \in {"accepted", "calling"}, job[w].post = p
      PROVE  post[p].status = "PROCESSING" /\ Holds(p, job[w].claim)
  BY <1>0, <1>2, CleanHolds, LiveAccepted DEF Holds
<1>3. CASE accepted'[p] # accepted[p]
  <2>1. PICK w \in Workers :
          /\ CallAccepted(w) /\ job[w].post = p
          /\ pc[w] = "calling" /\ pc'[w] = "accepted"
          /\ accepted[p] < 2 /\ accepted'[p] = accepted[p] + 1
    BY <1>0, <1>3, AcceptStep
  <2>2. ~Accepting(p)
    BY <1>1, <2>1 DEF Accepting
  <2>3. Outward(p) = "claimed"
    BY <1>2, <2>1, <2>2, OutwardRow
  <2>4. Accepting(p)'
    BY <2>1 DEF CallAccepted, Accepting
  <2>5. Outward(p)' = "sent"
    BY <2>4, OutwardRowNext
  <2> QED
    BY <2>1, <2>3, <2>5 DEF PromisedMove, Promise!Send
<1>4. CASE accepted'[p] = accepted[p] /\ Accepting(p)
  <2>1. PICK w \in Workers : job[w].post = p /\ pc[w] = "accepted"
    BY <1>4 DEF Accepting
  <2>2. Outward(p) = "sent"
    BY <1>4, OutwardRow
  <2>3. CASE pc'[w] = "accepted" /\ job'[w].post = p
    <3>1. Outward(p)' = "sent"
      BY <2>3, OutwardRowNext DEF Accepting
    <3> QED
      BY <1>4, <2>2, <3>1, MoveByRow
  <2>4. CASE Finish(w) /\ post'[p].status = "PUBLISHED"
    <3>1. ASSUME NEW v \in Workers, job'[v].post = p, pc'[v] = "accepted"
          PROVE  FALSE
      <4>1. pc'[w] = "done" /\ job' = job /\ \A u \in Workers \ {w} : pc'[u] = pc[u]
        BY <1>0, <2>4 DEF TypeOK, Finish, Step
      <4>2. v # w /\ pc[v] = "accepted" /\ job[v].post = p
        BY <3>1, <4>1
      <4> QED
        BY <1>1, <2>1, <4>2
    <3>2. Outward(p)' = "published"
      BY <2>4, <3>1, OutwardRowNext DEF Accepting
    <3> QED
      BY <1>4, <2>2, <3>2, MoveByRow
  <2> QED
    BY <1>0, <2>1, <2>3, <2>4, AcceptedCopy
<1>5. CASE accepted'[p] = accepted[p] /\ ~Accepting(p)
  <2>1. ~Accepting(p)'
    <3> SUFFICES ASSUME NEW w \in Workers, job'[w].post = p, pc'[w] = "accepted"
                 PROVE  FALSE
      BY DEF Accepting
    <3>1. CallAccepted(w) /\ job[w].post = p
      BY <1>0, <1>5, NewlyAccepting DEF Accepting
    <3>2. accepted[p] <= 1 /\ accepted[p] \in Nat
      BY <1>0 DEF AtMostOnce, TypeOK
    <3>3. accepted'[p] = IF accepted[p] < 2 THEN accepted[p] + 1 ELSE accepted[p]
      BY <1>0, <3>1 DEF TypeOK, CallAccepted, Accept
    <3> QED
      BY <1>5, <3>2, <3>3
  <2>2. CASE post'[p] = post[p]
    <3>0. post[p].status \in PostStatuses
      BY <1>0 DEF TypeOK, Rows
    <3>1. Outward(p)' = Outward(p)
      BY <1>5, <2>1, <2>2, <3>0, OutwardRow, OutwardRowNext DEF PostStatuses
    <3> QED
      BY <1>5, <3>1, MoveByRow
  <2>3. CASE Dispatched(p) \/ Reaped(p) \/ Replanned(p)
    BY <1>5, <2>1, <2>3, OutwardRow, OutwardRowNext, MoveByRow
    DEF Dispatched, Reaped, Replanned
  <2>4. CASE Resolved(p)
    <3>1. post[p].status = "PROCESSING" /\ post'[p].status \in {"PENDING", "FAILED"}
      BY <1>5, <2>4 DEF Resolved, Holds, Finish, Accepting
    <3> QED
      BY <1>5, <2>1, <3>1, OutwardRow, OutwardRowNext, MoveByRow
  <2>5. CASE Served(p)
    <3>1. \/ post[p].status = "PENDING" /\ post'[p].status = "CANCELLED"
          \/ /\ post[p].status \in {"PENDING", "FAILED", "CANCELLED"}
             /\ post'[p].status = "PENDING"
      BY <2>5 DEF Served, Accepts, PostStatuses
    <3> QED
      BY <1>5, <2>1, <3>1, OutwardRow, OutwardRowNext, MoveByRow
  <2> QED
    BY <1>0, <2>2, <2>3, <2>4, <2>5, RowStep DEF RowChanges
<1> QED
  BY <1>3, <1>4, <1>5

LEMMA PromiseInit == ApiInit => Promise!Init
<1> SUFFICES ASSUME ApiInit
             PROVE  Promise!Init
  OBVIOUS
<1>1. \A p \in Posts : Outward(p) = "waiting" /\ risk[p] = {}
  BY DEF ApiInit, Init, StartWith, Row, Outward
<1> QED
  BY <1>1 DEF ApiInit, Init, StartWith, Row, Promise!Init

LEMMA PromiseStep == OnceInv /\ [ApiNext]_apiVars => Promise!Next
<1> SUFFICES ASSUME OnceInv, [ApiNext]_apiVars
             PROVE  Promise!Next
  OBVIOUS
<1>1. {p \in Posts : risk[p] # {}} \subseteq {p \in Posts : risk'[p] # {}}
  BY HistoryStep DEF OnceInv, LeaseInv, RiskGrows
<1>2. \A p \in Posts \ {q \in Posts : risk'[q] # {}} : PromisedMove(p)
  BY MoveStep
<1> QED
  BY <1>1, <1>2 DEF PromisedMove, Promise!Next

\* The pipeline with the API implements PostPromise.
THEOREM Implements == ApiSpec => PromiseKept
<1>1. ApiInit => OnceInv /\ Promise!Init
  BY OnceInvInit, PromiseInit
<1>2. OnceInv /\ [ApiNext]_apiVars => OnceInv' /\ Promise!Next
  BY OnceInvStep, PromiseStep
<1> QED
  BY <1>1, <1>2, PTL DEF ApiSpec, PromiseKept, Promise!Spec
=============================================================================
