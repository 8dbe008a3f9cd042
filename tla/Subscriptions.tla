--------------------------- MODULE Subscriptions ---------------------------
(***************************************************************************)
(* The money of one workspace (billing.module.ts)                          *)
(* and the read-only decision made from it (workspace-access.service,      *)
(* trial-lock.interceptor).  Paystack, which charges, and which delivers,  *)
(* repeats and drops its webhooks, is external.                            *)
(***************************************************************************)
EXTENDS Integers, FiniteSets

CONSTANTS
    Tasks,      \* requests and webhook deliveries being served
    Procs,      \* API processes, each with its own cache of decisions
    Refs,       \* Paystack references
    Kind,       \* what a reference pays: a month "once", a "card", a "plain" charge of one
    Exempt,     \* whether the workspace is one of BILLING_EXEMPT_SLUGS
    MaxTime     \* bound: the clock

Trial == 1      \* TRIAL_HOURS
Month == 2      \* ONE_MONTH_DAYS
CacheTtl == 1   \* CACHE_TTL_MS
Never == -1     \* no date

VARIABLES
    now,
    sub,        \* the Subscription row: status ("none" without a row), end, whether it has a code
    marker,     \* references with a PaymentApplication row
    pay,        \* Paystack's side of a reference
    event,      \* webhooks not yet answered with 200: references, and "disable"
    task,       \* requests and sweeps in flight
    cache,      \* per process: the decision, and until when it is used
    credited,   \* ghost: how often each reference was turned into access
    owed        \* ghost: until when the workspace has paid

vars == <<now, sub, marker, pay, event, task, cache, credited, owed>>

Free == [op |-> "none", pc |-> "idle", proc |-> "none", ref |-> "none",
         end |-> Never, locked |-> FALSE]

NoEntry == [locked |-> FALSE, until |-> 0, end |-> Never]

Init ==
    /\ now = 0
    /\ sub = [status |-> "none", end |-> Never, card |-> FALSE]
    /\ marker = {} /\ event = {}
    /\ pay = [r \in Refs |-> "none"]
    /\ credited = [r \in Refs |-> 0] /\ owed = 0
    /\ task = [t \in Tasks |-> Free]
    /\ cache = [p \in Procs |-> NoEntry]

At(t, op, pc) == task[t].op = op /\ task[t].pc = pc
Begin(t, p, op, pc, r) ==
    /\ task[t] = Free
    /\ task' = [task EXCEPT ![t] = [Free EXCEPT !.op = op, !.pc = pc, !.proc = p, !.ref = r]]
Done(t) == task' = [task EXCEPT ![t] = Free]
Cleared(p) == [cache EXCEPT ![p] = NoEntry]
MinOf(S) == CHOOSE x \in S : \A y \in S : x <= y
Over == sub.end # Never /\ sub.end <= now
Paid(r) == pay[r] = "paid"

-----------------------------------------------------------------------------
(* Trials, and what the sweep writes down *)

\* upsert with an empty update, then cache.delete
StartTrial(p) ==
    /\ sub.status = "none"
    /\ sub' = [status |-> "TRIALING", end |-> now + Trial, card |-> FALSE]
    /\ cache' = Cleared(p)
    /\ UNCHANGED <<now, marker, pay, event, task, credited, owed>>

TrialOver == sub.status = "TRIALING" /\ Over /\ ~Exempt
MonthOver == sub.status = "ACTIVE" /\ ~sub.card /\ Over /\ ~Exempt
Comped == Exempt /\ sub.status \notin {"none", "ACTIVE"}

Swept ==
    CASE TrialOver \/ MonthOver -> [sub EXCEPT !.status = "PAST_DUE"]
      [] Comped -> [sub EXCEPT !.status = "ACTIVE"]
      [] OTHER -> sub

\* the conditional updates, on the one process that holds the lock; the others keep their caches
Sweep(p) ==
    /\ sub' = Swept /\ sub' # sub
    /\ cache' = Cleared(p)
    /\ UNCHANGED <<now, marker, pay, event, task, credited, owed>>

Orphan == sub.status = "none"
RowOrNot == TRUE
NoRowYet == sub.status = "none"

\* backfillMissing finds the workspace without a row, and dates its trial from now
FindOrphan(t, p) ==
    /\ Orphan
    /\ task[t] = Free
    /\ task' = [task EXCEPT ![t] = [Free EXCEPT !.op = "backfill", !.pc = "create", !.proc = p,
                                              !.end = now + Trial]]
    /\ UNCHANGED <<now, sub, marker, pay, event, cache, credited, owed>>

\* createMany skips a row that was made meanwhile; VIP for the exempt, a trial for the others
CreateMissing(t) ==
    /\ At(t, "backfill", "create")
    /\ IF NoRowYet
       THEN /\ sub' = [status |-> IF Exempt THEN "ACTIVE" ELSE "TRIALING",
                       end |-> IF Exempt THEN Never ELSE task[t].end, card |-> FALSE]
            /\ cache' = Cleared(task[t].proc)
       ELSE UNCHANGED <<sub, cache>>
    /\ Done(t)
    /\ UNCHANGED <<now, marker, pay, event, credited, owed>>

-----------------------------------------------------------------------------
(* The read-only decision *)

\* decide(): no row, exempt and paying workspaces write
Locked ==
    /\ ~Exempt
    /\ \/ sub.status = "TRIALING" /\ Over
       \/ sub.status = "ACTIVE" /\ ~sub.card /\ Over
       \/ sub.status \in {"PAST_DUE", "CANCELED"}

\* a row without a code is not cached past its date
EndsAt == IF sub.card \/ sub.status = "none" THEN Never ELSE sub.end

ReadMethods == {"GET", "HEAD", "OPTIONS"}
OpenPrefixes == {"/auth", "/billing", "/webhooks", "/health"}
NotAsked(method, prefix) == method \in ReadMethods \/ prefix \in OpenPrefixes
Fresh(p) == now < cache[p].until

\* a write the interceptor asks about, with no fresh decision in this process
ReadState(t, p, method, prefix) ==
    /\ ~NotAsked(method, prefix)
    /\ ~Fresh(p)
    /\ task[t] = Free
    /\ task' = [task EXCEPT ![t] = [Free EXCEPT !.op = "state", !.pc = "fill", !.proc = p,
                                              !.end = EndsAt, !.locked = Locked]]
    /\ UNCHANGED <<now, sub, marker, pay, event, cache, credited, owed>>

Until(end) == IF end = Never THEN now + CacheTtl ELSE MinOf({now + CacheTtl, end})

FillCache(t) ==
    /\ At(t, "state", "fill")
    /\ cache' = [cache EXCEPT ![task[t].proc] =
                    [locked |-> task[t].locked, until |-> Until(task[t].end), end |-> task[t].end]]
    /\ Done(t)
    /\ UNCHANGED <<now, sub, marker, pay, event, credited, owed>>

-----------------------------------------------------------------------------
(* Paystack and the two ways a payment comes in *)

\* checkout initialises a transaction; nothing of ours changes
Checkout(r) ==
    /\ pay[r] = "none"
    /\ pay' = [pay EXCEPT ![r] = "open"]
    /\ UNCHANGED <<now, sub, marker, event, task, cache, credited, owed>>

Charge(r) ==
    /\ pay[r] = "open"
    /\ pay' = [pay EXCEPT ![r] = "paid"]
    /\ event' = event \cup {r}
    /\ UNCHANGED <<now, sub, marker, task, cache, credited, owed>>

DisableCard ==
    /\ sub.card
    /\ event' = event \cup {"disable"}
    /\ UNCHANGED <<now, sub, marker, pay, task, cache, credited, owed>>

\* Paystack stops retrying
GiveUp(e) ==
    /\ event' = event \ {e}
    /\ UNCHANGED <<now, sub, marker, pay, task, cache, credited, owed>>

\* the event stays until it is answered, so it may be delivered twice
Deliver(t, p, r) ==
    /\ r \in event
    /\ Begin(t, p, "apply", "mark", r)
    /\ UNCHANGED <<now, sub, marker, pay, event, cache, credited, owed>>

\* the browser is back from the checkout, or polls from the QR dialog
VerifyPayment(t, p, r) ==
    /\ Paid(r)
    /\ Begin(t, p, "apply", "mark", r)
    /\ UNCHANGED <<now, sub, marker, pay, event, cache, credited, owed>>

Holding(r) == \E u \in Tasks : task[u].pc = "write" /\ task[u].ref = r

MarkedNever(r) == FALSE
Marked(r) == r \in marker

\* the insert waits for the other transaction on this reference, then fails if that committed
MarkAndRead(t) ==
    /\ At(t, "apply", "mark")
    /\ ~Holding(task[t].ref)
    /\ IF Marked(task[t].ref)
       THEN /\ event' = event \ {task[t].ref}
            /\ Done(t)
       ELSE /\ task' = [task EXCEPT ![t].pc = "write", ![t].end = sub.end]
            /\ UNCHANGED event
    /\ UNCHANGED <<now, sub, marker, pay, cache, credited, owed>>

\* a bought month runs from the end that was read, or from now
Extended(end) == (IF end = Never \/ end < now THEN now ELSE end) + Month

\* ghost: a bought month adds to what was owed, or to what its transaction read when
\* another payment crossed it; a card is owed up to the date of its next charge
Earned(t) ==
    LET from == IF task[t].end = sub.end THEN owed ELSE task[t].end IN
    CASE Kind[task[t].ref] = "once" -> Month + (IF from > now THEN from ELSE now)
      [] Kind[task[t].ref] = "card" -> now + Month
      [] OTHER -> owed

\* the upsert and the commit
ApplyPayment(t) ==
    /\ At(t, "apply", "write")
    /\ LET r == task[t].ref IN
       /\ sub' = [status |-> "ACTIVE",
                  card |-> Kind[r] = "card",
                  end |-> CASE Kind[r] = "once" -> Extended(task[t].end)
                            [] Kind[r] = "card" -> now + Month
                            [] OTHER -> sub.end]
       /\ marker' = marker \cup {r}
       /\ credited' = [credited EXCEPT ![r] = @ + 1]
    /\ owed' = Earned(t)
    /\ task' = [task EXCEPT ![t].pc = "invalidate"]
    /\ UNCHANGED <<now, pay, event, cache>>

\* access.invalidate, the receipt, and the 200
Invalidate(t) ==
    /\ task[t].pc = "invalidate"
    /\ cache' = Cleared(task[t].proc)
    /\ event' = event \ {task[t].ref}
    /\ Done(t)
    /\ UNCHANGED <<now, sub, marker, pay, credited, owed>>

FindDisabled(t, p) ==
    /\ "disable" \in event
    /\ sub.card
    /\ Begin(t, p, "cancel", "update", "disable")
    /\ UNCHANGED <<now, sub, marker, pay, event, cache, credited, owed>>

\* update by id, whatever the row holds by now
CancelSubscription(t) ==
    /\ At(t, "cancel", "update")
    /\ sub' = [sub EXCEPT !.status = "CANCELED"]
    /\ task' = [task EXCEPT ![t].pc = "invalidate"]
    /\ UNCHANGED <<now, marker, pay, event, cache, credited, owed>>

\* the process dies: its open transaction rolls back, its cache is empty, Paystack retries
Crash(p) ==
    /\ \E t \in Tasks : task[t].proc = p
    /\ task' = [t \in Tasks |-> IF task[t].proc = p THEN Free ELSE task[t]]
    /\ cache' = Cleared(p)
    /\ UNCHANGED <<now, sub, marker, pay, event, credited, owed>>

Tick ==
    /\ now < MaxTime
    /\ now' = now + 1
    /\ UNCHANGED <<sub, marker, pay, event, task, cache, credited, owed>>

Work(t) ==
    \/ FillCache(t) \/ CreateMissing(t)
    \/ MarkAndRead(t) \/ ApplyPayment(t) \/ Invalidate(t) \/ CancelSubscription(t)

Paystack ==
    \/ \E r \in Refs : Checkout(r) \/ Charge(r)
    \/ DisableCard
    \/ \E e \in event : GiveUp(e)

Arrive(t, p) ==
    \/ \E m \in {"GET", "POST"}, x \in {"/billing", "/content"} : ReadState(t, p, m, x)
    \/ \E r \in Refs : Deliver(t, p, r) \/ VerifyPayment(t, p, r)
    \/ FindDisabled(t, p) \/ FindOrphan(t, p)

Next ==
    \/ Paystack \/ Tick
    \/ \E p \in Procs : StartTrial(p) \/ Sweep(p) \/ Crash(p)
    \/ \E t \in Tasks : Work(t) \/ \E p \in Procs : Arrive(t, p)

Spec == Init /\ [][Next]_vars

-----------------------------------------------------------------------------
\* One payment is one month: a reference is turned into access at most once,
\* although the webhook, its retries and the browser all bring it (applyPayment).
CreditedOnce == \A r \in Refs : credited[r] <= 1

\* Time that was paid for is not read-only, and neither is a workspace with a card behind
\* it, unless the card was cancelled: neither the sweep nor a backfill, a repeated event or
\* a payment of another kind takes it away (sweep, backfillMissing, applyPayment, decide).
PaidTimeStands == (now < owed \/ sub.card) /\ sub.status # "CANCELED" => ~Locked

\* Who cancels keeps "the paid plan until the end of the period you have already paid for"
\* (the pricing page), cancelled card or not.
KeepsThePaidPlan == now < owed => ~Locked

\* A workspace whose card subscription was applied is known to have one:
\* "that absence is what tells the read-only guard this month has a hard end
\* rather than a card behind it" (applyPayment).
CardIsKnown ==
    ((\E r \in marker : Kind[r] = "card") /\ \A r \in Refs : Kind[r] # "once") => sub.card

=============================================================================
