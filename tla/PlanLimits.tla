----------------------------- MODULE PlanLimits -----------------------------
(***************************************************************************)
(* The monthly limits of one workspace: effectivePlan, limitsOf, usage and *)
(* assertWithinLimit of billing.module.ts, and the two callers that spend  *)
(* by the month: schedule (posts) and generate (tokens, which the engine   *)
(* adds to the AgentRun when it has finished).  The engine's own posts are *)
(* rows of the same month and ask nobody.  Seats are module Members,       *)
(* channels module Connections.                                            *)
(***************************************************************************)
EXTENDS Integers, FiniteSets

CONSTANTS
    Tasks,      \* requests being served
    Codes,      \* plans
    Entry,      \* the PRO row, which a workspace without a paid plan falls back to
    Limit,      \* posts a month, per plan
    Tokens,     \* tokens a month, per plan
    Batch,      \* how many channels one schedule call, or one plan, may name
    Cost,       \* bound: tokens one run takes at most
    MaxSpend    \* bound: what is ever spent in a month

VARIABLES
    sub,        \* the Subscription row: its plan, whether it is CANCELED
    posts,      \* ScheduledPost rows created this calendar month
    tokens,     \* tokens of the AgentRun rows created this month
    runs,       \* runs of this month that have not recorded their tokens
    old,        \* runs of an earlier month still going
    task,       \* requests in flight
    passed,     \* ghost: the largest limit a check of this month was made against
    uncounted,  \* ghost: rows the engine added since a request last passed the check
    late        \* ghost: whether a check of an earlier month was still to be spent

vars == <<sub, posts, tokens, runs, old, task, passed, uncounted, late>>

Idle == [op |-> "none", pc |-> "idle", code |-> Entry, n |-> 0]

Init ==
    /\ sub \in [code : Codes, canceled : BOOLEAN]
    /\ posts = 0 /\ tokens = 0 /\ runs = 0 /\ old = 0
    /\ task = [t \in Tasks |-> Idle]
    /\ passed = [posts |-> 0, tokens |-> 0] /\ uncounted = 0
    /\ late = FALSE

At(t, op, pc) == task[t].op = op /\ task[t].pc = pc
Done(t) == task' = [task EXCEPT ![t] = Idle]
MaxOf(a, b) == IF a >= b THEN a ELSE b

\* CANCELED and absent subscriptions fall back to the entry plan
EffectivePlan == IF sub.canceled THEN Entry ELSE sub.code

\* the plan is read first, the usage after it
BeginSchedule(t, n) ==
    /\ task[t] = Idle
    /\ task' = [task EXCEPT ![t] = [op |-> "schedule", pc |-> "usage", code |-> EffectivePlan, n |-> n]]
    /\ UNCHANGED <<sub, posts, tokens, runs, old, passed, uncounted, late>>

BeginGenerate(t) ==
    /\ task[t] = Idle
    /\ task' = [task EXCEPT ![t] = [op |-> "generate", pc |-> "usage", code |-> EffectivePlan, n |-> 0]]
    /\ UNCHANGED <<sub, posts, tokens, runs, old, passed, uncounted, late>>

WithinAnyway(used, n, limit) == used <= limit
Within(used, n, limit) == used + n <= limit

AssertPosts(t) ==
    /\ At(t, "schedule", "usage")
    /\ IF Within(posts, task[t].n, Limit[task[t].code])
       THEN /\ task' = [task EXCEPT ![t].pc = "write"]
            /\ passed' = [passed EXCEPT !.posts = MaxOf(@, Limit[task[t].code])]
            /\ uncounted' = 0
       ELSE Done(t) /\ UNCHANGED <<passed, uncounted>>
    /\ UNCHANGED <<sub, posts, tokens, runs, old, late>>

\* one transaction: a row per channel
SchedulePosts(t) ==
    /\ At(t, "schedule", "write") /\ posts < MaxSpend
    /\ posts' = posts + task[t].n
    /\ Done(t)
    /\ UNCHANGED <<sub, tokens, runs, old, passed, uncounted, late>>

\* a plan's slot, whose run has its tokens already, or an evergreen piece or a product's
\* post, which takes none: a row per channel, and no question asked
EnginePosts(n, k) ==
    /\ posts < MaxSpend /\ tokens < MaxSpend
    /\ posts' = posts + n /\ uncounted' = uncounted + n
    /\ tokens' = tokens + k
    /\ UNCHANGED <<sub, runs, old, task, passed, late>>

BudgetLeft(code) == Within(tokens, 0, Tokens[code])

AssertTokens(t) ==
    /\ At(t, "generate", "usage")
    /\ IF BudgetLeft(task[t].code)
       THEN /\ task' = [task EXCEPT ![t].pc = "write"]
            /\ passed' = [passed EXCEPT !.tokens = MaxOf(@, Tokens[task[t].code])]
       ELSE Done(t) /\ UNCHANGED passed
    /\ UNCHANGED <<sub, posts, tokens, runs, old, uncounted, late>>

CreateRun(t) ==
    /\ At(t, "generate", "write") /\ runs + old < Cardinality(Tasks)
    /\ runs' = runs + 1
    /\ Done(t)
    /\ UNCHANGED <<sub, posts, tokens, old, passed, uncounted, late>>

\* the engine finishes a run; usage sums over the month the row was created in
RecordTokens(k) ==
    /\ runs > 0 /\ tokens < MaxSpend
    /\ tokens' = tokens + k /\ runs' = runs - 1
    /\ UNCHANGED <<sub, posts, old, task, passed, uncounted, late>>

RecordLate ==
    /\ old > 0 /\ old' = old - 1
    /\ UNCHANGED <<sub, posts, tokens, runs, task, passed, uncounted, late>>

\* monthStart moves: the counts start again
NewMonth ==
    /\ posts + tokens + runs > 0
    /\ posts' = 0 /\ tokens' = 0 /\ runs' = 0 /\ old' = old + runs
    /\ passed' = [posts |-> 0, tokens |-> 0] /\ uncounted' = 0
    /\ late' = \E t \in Tasks : task[t].pc = "write"
    /\ UNCHANGED <<sub, task>>

\* a payment, or the card's cancellation
ChangePlan(c) == sub' = [code |-> c, canceled |-> FALSE] /\ sub' # sub
                 /\ UNCHANGED <<posts, tokens, runs, old, task, passed, uncounted, late>>
Cancel == ~sub.canceled /\ sub' = [sub EXCEPT !.canceled = TRUE]
          /\ UNCHANGED <<posts, tokens, runs, old, task, passed, uncounted, late>>

Next ==
    \/ \E t \in Tasks :
          \/ \E n \in 1..Batch : BeginSchedule(t, n)
          \/ BeginGenerate(t) \/ AssertPosts(t) \/ SchedulePosts(t) \/ AssertTokens(t) \/ CreateRun(t)
    \/ \E n \in 1..Batch, k \in 0..Cost : EnginePosts(n, k)
    \/ \E k \in 1..Cost : RecordTokens(k)
    \/ RecordLate \/ NewMonth
    \/ \E c \in Codes : ChangePlan(c)
    \/ Cancel

Spec == Init /\ [][Next]_vars

-----------------------------------------------------------------------------
\* Requests that check at the same time overshoot the posts of the month by at most
\* what the others of them add, and the engine's rows by what it added since the last
\* of them passed: whatever it added before was counted against the plan by that check.
\* A plan is not a bound on what the engine posts.
PostsOvershootIsBounded ==
    ~late => posts <= passed.posts + (Cardinality(Tasks) - 1) * Batch + uncounted

=============================================================================
