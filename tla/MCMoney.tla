------------------------------ MODULE MCMoney ------------------------------
(***************************************************************************)
(* Subscriptions, plan limits, the periodic lock, mail, webhooks and the   *)
(* billing page in one run, one part at a time as in MCSignIn.             *)
(***************************************************************************)
EXTENDS Integers, Sequences, FiniteSets, TLC

CONSTANTS
    Parts,          \* the instances a run checks
    Tasks,          \* requests, deliveries and senders at work at the same time
    Processes,      \* API processes
    Refs, Kind, Exempt, PayTime,                    \* of Subscriptions
    Codes, Entry, Limit, Tokens, Batch, Cost, MaxSpend, \* of PlanLimits
    Servers, LockTtl, MaxRuns, LockTime,            \* of LeaderLock
    Letters, Templates, Addresses, MaxHour,         \* of Mail
    Events, Named, Signed, Big, MaxRows             \* of MetaWebhooks

Alike == Permutations(Tasks) \cup Permutations(Processes)

\* Values for constants that are functions.
CardAndMonth == [r1 |-> "card", r2 |-> "once"]
CardAndPlain == [r1 |-> "card", r2 |-> "plain"]
OneAndTwo == [PRO |-> 1, VIP |-> 2]

ASSUME PaystackAssumption == "disable" \notin Refs
ASSUME LimitAssumption ==
    /\ IsFiniteSet(Tasks) /\ Tasks # {} /\ Batch \in Nat \ {0}
    /\ Entry \in Codes /\ Limit \in [Codes -> Nat] /\ Tokens \in [Codes -> Nat]
ASSUME LockAssumption == LockTtl \in Nat
ASSUME MetaAssumption == Named \subseteq Events

VARIABLES
    part,
    now, sub, marker, pay, event, task, cache, credited, owed,
    plan, posts, tokens, runs, old, request, passed, uncounted, late,
    clock, up, key, run, draws,
    hour, honours, letter, taken,
    delivery, stored, answered,
    row, ref, data, fetch, choosing, calling, payOnPhone, before, asking, back, confirmRef

Payments == INSTANCE Subscriptions WITH Procs <- Processes, MaxTime <- PayTime

Limits == INSTANCE PlanLimits WITH sub <- plan, task <- request

Lock == INSTANCE LeaderLock WITH
    Replicas <- Servers, Ttl <- LockTtl, MaxTime <- LockTime, now <- clock

Post == INSTANCE Mail

\* deliveries at the same time, none of which declares its size
Deliveries == INSTANCE MetaWebhooks WITH Declared <- {}, task <- delivery

\* one delivery at a time, repeated when its answer is lost
Repeats == INSTANCE MetaWebhooks WITH Tasks <- {"t"}, Declared <- Big, task <- delivery

\* the billing page, its checkout and the way back from Paystack
Billing == INSTANCE BillingPage WITH
    Plans <- {"PRO", "VIP"}, TrialPlan <- "PRO", Methods <- {"mpesa", "apple_pay", "card"},
    ApplePayIsNative <- FALSE, IsHandheld <- FALSE, MaxRefs <- 2, Webhooks <- TRUE

moneyVars == <<now, sub, marker, pay, event, task, cache, credited, owed>>
planVars == <<plan, posts, tokens, runs, old, request, passed, uncounted, late>>
lockVars == <<clock, up, key, run, draws>>
mailVars == <<hour, honours, letter, taken>>
hookVars == <<delivery, stored, answered>>
billingVars == <<row, ref, data, fetch, choosing, calling, payOnPhone, before, asking, back,
                 confirmRef>>

vars == <<part, moneyVars, planVars, lockVars, mailVars, hookVars, billingVars>>

Init ==
    /\ part \in Parts
    /\ Payments!Init
    /\ Limits!Init /\ (part = "limits" \/ plan = [code |-> Entry, canceled |-> FALSE])
    /\ Lock!Init
    /\ Post!Init /\ (part = "letters" \/ honours)
    /\ IF part = "repeats" THEN Repeats!Init ELSE Deliveries!Init
    /\ Billing!Init /\ (part = "billing" \/ row.status = "TRIALING")

Next ==
    \/ /\ part = "payments" /\ Payments!Next
       /\ UNCHANGED <<part, planVars, lockVars, mailVars, hookVars, billingVars>>
    \/ /\ part = "limits" /\ Limits!Next
       /\ UNCHANGED <<part, moneyVars, lockVars, mailVars, hookVars, billingVars>>
    \/ /\ part = "lock" /\ Lock!Next
       /\ UNCHANGED <<part, moneyVars, planVars, mailVars, hookVars, billingVars>>
    \/ /\ part = "letters" /\ Post!Next
       /\ UNCHANGED <<part, moneyVars, planVars, lockVars, hookVars, billingVars>>
    \/ /\ \/ part = "deliveries" /\ Deliveries!Next
          \/ part = "repeats" /\ Repeats!Next
       /\ UNCHANGED <<part, moneyVars, planVars, lockVars, mailVars, billingVars>>
    \/ /\ part = "billing" /\ Billing!Next
       /\ UNCHANGED <<part, moneyVars, planVars, lockVars, mailVars, hookVars>>

Spec == Init /\ [][Next]_vars

\* A payment is credited once and an event kept once, however often Paystack and Meta
\* deliver them (paymentApplication's unique reference; the webhook's event id).
EachDeliveryCountsOnce ==
    Payments!CreditedOnce /\ (part = "repeats" => Repeats!StoredOnce)

\* Time that was paid for is not read-only before its end unless the card was cancelled
\* (sweep, backfillMissing, applyPayment, decide).
PaidTimeStands == Payments!PaidTimeStands

\* Who cancels keeps the paid plan to the end of the paid period (the pricing page).
KeepsThePaidPlan == Payments!KeepsThePaidPlan

\* A month's posts exceed the plan by no more than what was counted together and what the
\* engine added unasked (assertWithinLimit, the planner).
PostsOvershootIsBounded == Limits!PostsOvershootIsBounded

\* Who holds the periodic lock in its time keeps it (leader-lock.ts).
KeepsItsLock == Lock!KeepsItsLock

\* A letter told to be sent has arrived, and arrives once, or twice at most where Resend
\* does not honour its key (EmailService.deliver).
LettersArriveAsTold == Post!LettersArriveAsTold

\* "Clearing it on a plain charge.success would erase the renewal date the
\* subscription event had already recorded." (applyPayment)
CardIsKnown == Payments!CardIsKnown
=============================================================================
