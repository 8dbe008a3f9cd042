----------------------------- MODULE BillingPage -----------------------------
(***************************************************************************)
(* The billing page of the web application, its payment picker and its     *)
(* scan-to-pay dialog (billing/page.tsx, pay-methods.tsx, pay-qr.tsx).     *)
(* The API it talks to is module Subscriptions, here the row of one        *)
(* workspace that other things than this page change too.                  *)
(***************************************************************************)
EXTENDS Integers, FiniteSets

CONSTANTS
    Plans,          \* the catalogue
    TrialPlan,      \* the plan a trial runs on
    Methods,        \* what this server offers, of "mpesa", "apple_pay", "card"
    ApplePayIsNative, IsHandheld,   \* what this device can do
    MaxRefs,        \* bound: checkouts ever started
    Webhooks        \* whether Paystack's webhook reaches the server

VARIABLES
    row,        \* server: the subscription row
    ref,        \* Paystack: each checkout, whether it is paid, whether it was applied
    data,       \* page: the overview last fetched, or Nothing
    fetch,      \* page: the overview on its way
    choosing,   \* page: the plan whose picker is open
    calling,    \* page: the checkout in flight
    payOnPhone, \* page: the open scan-to-pay dialog's reference, 0 when closed
    before,     \* page: the fingerprint when it opened
    asking,     \* page: the reference verify is asking about
    back,       \* page: the reference on its URL
    confirmRef  \* page: the reference already confirmed

vars == <<row, ref, data, fetch, choosing, calling, payOnPhone, before, asking, back, confirmRef>>

Nothing == [plan |-> "none", status |-> "none", end |-> 0, card |-> FALSE]
NoCall == [plan |-> "none", method |-> "none"]
References == 1..MaxRefs

Init ==
    /\ row \in [plan : {TrialPlan}, status : {"TRIALING", "PAST_DUE"}, end : {1}, card : {FALSE}]
    /\ ref = [r \in References |-> [plan |-> "none", method |-> "none", paid |-> FALSE, applied |-> FALSE]]
    /\ data = Nothing /\ fetch = row
    /\ choosing = "none" /\ calling = NoCall
    /\ payOnPhone = 0 /\ before = Nothing
    /\ asking = 0 /\ back = 0 /\ confirmRef = 0

-----------------------------------------------------------------------------
(* What is on the screen *)

Loaded == data # Nothing
Locked(d) == d.status = "PAST_DUE"
Paying(d) == d.status = "ACTIVE"

Current(p) == Paying(data) /\ p = data.plan
Buyable == {p \in Plans : Loaded /\ ~Current(p)}

\* the rows of the picker, M-Pesa first; a click while one is busy does nothing
Rows == IF choosing = "none" \/ calling # NoCall THEN {} ELSE Methods

NeedsQr(method) == method = "apple_pay" /\ ~ApplePayIsNative /\ ~IsHandheld

\* paidOnPhone: billing looks different from when the dialog opened
PaidOnPhone == payOnPhone # 0 /\ before # Nothing /\ data # before

-----------------------------------------------------------------------------
(* The page's handlers and effects *)

\* setError(null); setChoosing(p)
Choose(p) ==
    /\ p \in Buyable /\ choosing = "none" /\ payOnPhone = 0 /\ back = 0
    /\ choosing' = p
    /\ UNCHANGED <<row, ref, data, fetch, calling, payOnPhone, before, asking, back, confirmRef>>

ClosePicker ==
    /\ choosing # "none"
    /\ choosing' = "none"
    /\ UNCHANGED <<row, ref, data, fetch, calling, payOnPhone, before, asking, back, confirmRef>>

\* checkout.mutate
Pick(method) ==
    /\ method \in Rows
    /\ calling' = [plan |-> choosing, method |-> method]
    /\ UNCHANGED <<row, ref, data, fetch, choosing, payOnPhone, before, asking, back, confirmRef>>

\* onSuccess: the picker closes; the browser leaves, or the dialog opens
CheckoutStarted(r) ==
    /\ calling # NoCall
    /\ ref[r].plan = "none"
    /\ ref' = [ref EXCEPT ![r].plan = calling.plan, ![r].method = calling.method]
    /\ choosing' = "none" /\ calling' = NoCall
    /\ IF NeedsQr(calling.method)
       THEN payOnPhone' = r /\ UNCHANGED <<data, fetch, back, before, confirmRef, asking>>
       ELSE /\ payOnPhone' = 0 /\ before' = Nothing /\ asking' = 0
            /\ data' = Nothing /\ fetch' = Nothing      \* the page is gone
            /\ back' = r /\ confirmRef' = 0
    /\ UNCHANGED row

\* onError shows the message; the picker stays
CheckoutFailed ==
    /\ calling # NoCall
    /\ calling' = NoCall
    /\ UNCHANGED <<row, ref, data, fetch, choosing, payOnPhone, before, asking, back, confirmRef>>

\* the snapshot effect
Snapshot ==
    /\ payOnPhone # 0 /\ before = Nothing /\ Loaded
    /\ before' = data
    /\ UNCHANGED <<row, ref, data, fetch, choosing, calling, payOnPhone, asking, back, confirmRef>>

\* the interval of the dialog: ask Paystack about that reference
Ask ==
    /\ payOnPhone # 0 /\ ~PaidOnPhone /\ before # Nothing /\ asking = 0
    /\ asking' = payOnPhone
    /\ UNCHANGED <<row, ref, data, fetch, choosing, calling, payOnPhone, before, back, confirmRef>>

NotYetConfirmed == back # 0 /\ confirmRef # back

\* straight back from Paystack: confirm the reference on the URL
ConfirmReturn ==
    /\ NotYetConfirmed /\ ref[back].paid /\ asking = 0
    /\ confirmRef' = back
    /\ asking' = back
    /\ UNCHANGED <<row, ref, data, fetch, choosing, calling, payOnPhone, before, back>>

Turned(r) == [plan |-> ref[r].plan, status |-> "ACTIVE", end |-> row.end + 1, card |-> ref[r].method = "card"]
Applied(r) ==
    IF ref[r].paid /\ ~ref[r].applied
    THEN row' = Turned(r) /\ ref' = [ref EXCEPT ![r].applied = TRUE]
    ELSE UNCHANGED <<row, ref>>

Refetches == row'

\* the API's answer, or its failure: onSettled refetches the overview either way
Verified(ok) ==
    /\ asking # 0
    /\ IF ok THEN Applied(asking) ELSE UNCHANGED <<row, ref>>
    /\ asking' = 0
    /\ fetch' = Refetches
    /\ UNCHANGED <<data, choosing, calling, payOnPhone, before, back, confirmRef>>

Refetch ==
    /\ fetch = Nothing /\ ~Loaded
    /\ fetch' = row
    /\ UNCHANGED <<row, ref, data, choosing, calling, payOnPhone, before, asking, back, confirmRef>>

\* a window that gets the focus again fetches too
Focus ==
    /\ fetch = Nothing /\ Loaded /\ data # row
    /\ fetch' = row
    /\ UNCHANGED <<row, ref, data, choosing, calling, payOnPhone, before, asking, back, confirmRef>>

Fetched ==
    /\ fetch # Nothing
    /\ data' = fetch /\ fetch' = Nothing
    /\ UNCHANGED <<row, ref, choosing, calling, payOnPhone, before, asking, back, confirmRef>>

\* Done, Cancel, Escape, or a click outside
CloseDialog ==
    /\ payOnPhone # 0
    /\ payOnPhone' = 0 /\ before' = Nothing
    /\ UNCHANGED <<row, ref, data, fetch, choosing, calling, asking, back, confirmRef>>

\* Continue on this device
ContinueHere ==
    /\ payOnPhone # 0 /\ ~PaidOnPhone
    /\ back' = payOnPhone /\ confirmRef' = 0
    /\ payOnPhone' = 0 /\ before' = Nothing /\ asking' = 0
    /\ data' = Nothing /\ fetch' = Nothing
    /\ UNCHANGED <<row, ref, choosing, calling>>

-----------------------------------------------------------------------------
(* Paystack and the server *)

Pay(r) ==
    /\ ref[r].plan # "none" /\ ~ref[r].paid
    /\ ref' = [ref EXCEPT ![r].paid = TRUE]
    /\ UNCHANGED <<row, data, fetch, choosing, calling, payOnPhone, before, asking, back, confirmRef>>

Webhook(r) ==
    /\ Webhooks
    /\ ref[r].paid /\ ~ref[r].applied
    /\ Applied(r)
    /\ UNCHANGED <<data, fetch, choosing, calling, payOnPhone, before, asking, back, confirmRef>>

\* the sweep writes down a trial, or a bought month, that has ended
Sweep ==
    /\ row.status # "PAST_DUE" /\ ~row.card
    /\ row' = [row EXCEPT !.status = "PAST_DUE"]
    /\ UNCHANGED <<ref, data, fetch, choosing, calling, payOnPhone, before, asking, back, confirmRef>>

PageStep ==
    \/ \E p \in Plans : Choose(p)
    \/ \E m \in Methods : Pick(m)
    \/ \E r \in References : CheckoutStarted(r)
    \/ ClosePicker \/ CheckoutFailed \/ Snapshot \/ Ask \/ ConfirmReturn
    \/ \E ok \in BOOLEAN : Verified(ok)
    \/ Refetch \/ Focus \/ Fetched \/ CloseDialog \/ ContinueHere

Next == PageStep \/ Sweep \/ \E r \in References : Pay(r) \/ Webhook(r)

Spec == Init /\ [][Next]_vars

\* timers, effects and requests of an open page go on; verify is retried and answers
Fair == Spec /\ WF_vars(Snapshot) /\ WF_vars(Ask) /\ WF_vars(Refetch) /\ WF_vars(Fetched)
             /\ WF_vars(\E ok \in BOOLEAN : Verified(ok)) /\ SF_vars(Verified(TRUE))

-----------------------------------------------------------------------------
\* The dialog moves on by itself: a payment made on the phone is seen on the
\* computer although no webhook ever comes ("the page's own job").
PhonePaymentIsSeen ==
    \A r \in References : (payOnPhone = r /\ ref[r].paid) ~> (payOnPhone # r \/ PaidOnPhone)

=============================================================================
