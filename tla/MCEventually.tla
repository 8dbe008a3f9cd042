---------------------------- MODULE MCEventually ----------------------------
(***************************************************************************)
(* What must happen in the end, under the fairness each component states.  *)
(* One part at a time as in MCSignIn; fairness is asked of the part's own  *)
(* actions, with the rest standing still.                                  *)
(***************************************************************************)
EXTENDS Integers, FiniteSets, Sequences

CONSTANT Parts      \* the instances a run checks

VARIABLES
    part,
    count, age, signIn, signedIn, failures, guessed,
    hits, left, answers, call, wait, granted, passed,
    day, paid, applied, due, list, reported, missed,
    row, ref, data, fetch, choosing, calling, payOnPhone, before, asking, back, confirmRef,
    up, refused, opened, request, ready, told,
    page, store, cookie, member, truth, asked, step, done, moves,
    connection, valid, sweep, ticked, clock, faults, spoiled

\* a person who knows the password, somebody who does not, a store that loses nothing
Backoff == INSTANCE LoginBackoff WITH
    Accounts <- {"a1", "a2"}, Addresses <- {"i1", "i2"}, Me <- "me",
    MyAccount <- "a1", MyAddress <- "i1", FreeAttempts <- 1, BaseDelay <- 1, MaxDelay <- 2,
    WindowLength <- 3, MaxCount <- 3, Others <- {"else"}, MaxFailures <- 2, StoreCuts <- FALSE,
    task <- signIn, inside <- signedIn

\* all three tiers, one request at a time, Redis answering
Limits == INSTANCE Throttler WITH
    Callers <- {"c1"}, Patient <- {"c1"}, Routes <- {"read", "image", "video"}, Replicas <- {"p1"}, Tasks <- {"t1"},
    Tiers <- <<"default", "burst", "spend">>,
    TierLimit <- [default |-> 2, burst |-> 4, spend |-> 3],
    TierTtl <- [default |-> 1, burst |-> 1, spend |-> 2],
    Cost <- [read |-> 0, image |-> 1, video |-> 2], MaxHits <- 6, Outages <- FALSE,
    task <- call

\* two replicas, and a page with room for one reference, which may be that of another system
Books == INSTANCE Reconciliation WITH
    Replicas <- {"p1", "p2"}, Refs <- {"r1", "r2"}, Foreign <- {"r2"}, PerPage <- 1,
    MaxTime <- 3, now <- day

\* the scan-to-pay dialog on a computer no webhook reports to
Page == INSTANCE BillingPage WITH
    Plans <- {"PRO", "VIP"}, TrialPlan <- "PRO", Methods <- {"mpesa", "apple_pay", "card"},
    ApplePayIsNative <- FALSE, IsHandheld <- FALSE, MaxRefs <- 1, Webhooks <- FALSE

\* the readiness probe and one other request of an upstream that may be down
Engine == INSTANCE Upstream WITH
    Tasks <- {"call", "probe"}, Probes <- {"probe"}, Retries <- 1, Threshold <- 2, OpenFor <- 2,
    Budget <- 2, CacheFor <- 2, failures <- refused, task <- request

\* one tab, the workspace registered here and one that invites
Entry == INSTANCE Arrival WITH Own <- "own", Theirs <- "theirs", MaxMoves <- 2

\* two connections that expire together, the second with or without a refresh token, and one
\* worker that takes one of them at a time
Tokens == INSTANCE TokenRefreshProofs WITH
    Channels <- {"c1", "c2"}, Sweeps <- {"s1"}, Window <- 1, Batch <- 1, Life <- 3, Jitter <- 1,
    MaxTime <- 2, MaxFaults <- 1, row <- connection

\* what the theorem about the sweep asks of its constants
ASSUME SweepAssumption == Tokens!Configured

backoffVars == <<count, age, signIn, signedIn, failures, guessed>>
limitVars == <<hits, left, answers, call, wait, granted, passed>>
bookVars == <<day, paid, applied, due, list, reported, missed>>
pageVars == <<row, ref, data, fetch, choosing, calling, payOnPhone, before, asking, back,
              confirmRef>>
breakerVars == <<up, refused, opened, request, ready, told>>
entryVars == <<page, store, cookie, member, truth, asked, step, done, moves>>
tokenVars == <<connection, valid, sweep, ticked, clock, faults, spoiled>>
vars == <<part, backoffVars, limitVars, breakerVars, bookVars, pageVars, entryVars, tokenVars>>

\* all but one part stand still
OnlyBackoff ==
    /\ part = "backoff"
    /\ UNCHANGED <<part, limitVars, breakerVars, bookVars, pageVars, entryVars, tokenVars>>
OnlyLimits ==
    /\ part = "limits"
    /\ UNCHANGED <<part, backoffVars, breakerVars, bookVars, pageVars, entryVars, tokenVars>>
OnlyBooks ==
    /\ part = "books"
    /\ UNCHANGED <<part, backoffVars, limitVars, breakerVars, pageVars, entryVars, tokenVars>>
OnlyPage ==
    /\ part = "page"
    /\ UNCHANGED <<part, backoffVars, limitVars, breakerVars, bookVars, entryVars, tokenVars>>
OnlyBreaker ==
    /\ part = "engine"
    /\ UNCHANGED <<part, backoffVars, limitVars, bookVars, pageVars, entryVars, tokenVars>>
OnlyEntry ==
    /\ part = "arrival"
    /\ UNCHANGED <<part, backoffVars, limitVars, breakerVars, bookVars, pageVars, tokenVars>>
OnlyTokens ==
    /\ part = "tokens"
    /\ UNCHANGED <<part, backoffVars, limitVars, breakerVars, bookVars, pageVars, entryVars>>

Init ==
    /\ part \in Parts
    /\ Backoff!Init /\ Limits!Init /\ Books!Init /\ Engine!Init
    /\ Page!Init /\ (part = "page" \/ row.status = "TRIALING")
    /\ Entry!Init
    /\ \/ /\ part = "arrival" /\ truth["theirs"].profile
          /\ page \in {"landing", "onboarding", "billing", "forgot", "invite"}
       \/ /\ page = "landing" /\ member = {}
          /\ truth["theirs"] = [profile |-> FALSE, locked |-> FALSE]
    /\ Tokens!Init /\ \A c \in {"c1", "c2"} : connection[c].expires = 1
    /\ connection["c1"].token.gen = 0 /\ (part = "tokens" \/ connection["c2"].token.gen = 0)

Next ==
    \/ OnlyBackoff /\ Backoff!Next
    \/ OnlyLimits /\ Limits!Next
    \/ OnlyBooks /\ Books!Next
    \/ OnlyPage /\ Page!Next
    \/ OnlyBreaker /\ Engine!Next
    \/ OnlyEntry /\ Entry!Next
    \/ OnlyTokens /\ Tokens!Next

\* The fairness each component states.  One part moves in a behaviour, so a condition may
\* name an action of every part.
\*   backoff: the person keeps trying, and time passes
\*   limits:  callers keep calling, requests are served, windows run out
\*   books:   each replica's timer, and its queries come back
\*   page:    timers, effects and requests of an open page go on; verify is retried and answers
\*   engine:  requests are made, answered or given up at their deadline
\*   arrival: effects run, requests are answered, the person fills the onboarding form in and
\*            the billing page keeps its overview fresh
\*   tokens:  hours pass, beats fire, and a worker goes on with its sweep
Clocks ==
    \/ OnlyBackoff /\ Backoff!Tick
    \/ OnlyLimits /\ Limits!Tick
    \/ OnlyBooks /\ Books!Tick
    \/ OnlyPage /\ Page!Snapshot
    \/ OnlyBreaker /\ Engine!Tick
    \/ OnlyEntry /\ Entry!Goes
    \/ OnlyTokens /\ Tokens!Tick

Starts ==
    \/ OnlyBackoff /\ Backoff!Mine
    \/ OnlyLimits /\ Limits!Arrive
    \/ OnlyPage /\ Page!Ask
    \/ OnlyBreaker /\ Engine!Send("call")
    \/ OnlyEntry /\ Entry!Finish
    \/ OnlyTokens /\ Tokens!Fire("s1")

Goes ==
    \/ OnlyLimits /\ Limits!Serve
    \/ OnlyPage /\ \E ok \in BOOLEAN : Page!Verified(ok)
    \/ OnlyBreaker /\ Engine!Come("call")
    \/ OnlyEntry /\ Entry!Answered
    \/ OnlyTokens /\ (Tokens!Call("s1") \/ Tokens!Save("s1"))

Asks ==
    \/ OnlyPage /\ Page!Refetch
    \/ OnlyBreaker /\ Engine!Send("probe")
    \/ OnlyEntry /\ Entry!AskOverview

Comes ==
    \/ OnlyPage /\ Page!Fetched
    \/ OnlyBreaker /\ Engine!Come("probe")

Spec ==
    /\ Init /\ [][Next]_vars
    /\ WF_vars(Clocks) /\ WF_vars(Starts) /\ WF_vars(Goes) /\ WF_vars(Asks) /\ WF_vars(Comes)
    /\ SF_vars((OnlyBooks /\ Books!List("p1")) \/ (OnlyPage /\ Page!Verified(TRUE)))
    /\ SF_vars(OnlyBooks /\ Books!List("p2"))
    /\ SF_vars(OnlyBooks /\ Books!Compare("p1")) /\ SF_vars(OnlyBooks /\ Books!Compare("p2"))

\* Nobody is shut out: who knows the password is not kept out by somebody else's failures
\* (LoginBackoffService), the pages' redirects come to rest and let on whoever has a session
\* in a workspace that is open (onboarding, layout, billing), and whoever a limit refuses is
\* served after waiting as long as it says (throttler-storage.ts).
NobodyIsShutOut ==
    /\ part = "backoff" => Backoff!RealPersonGetsIn
    /\ part = "arrival" => Entry!ComesToRest
    /\ Limits!WaitingIsEnough

\* A payment is applied or reported in the end, and one made on the phone reaches the
\* dialog on the computer, without any webhook (reconcile's look-back; verify).
EveryPaymentIsSeen == Books!PaymentIsSeen /\ Page!PhonePaymentIsSeen

\* An upstream that is back is used again (http-client.ts).
RecoversOnItsOwn == part = "engine" => Engine!RecoversOnItsOwn

\* The hourly sweep keeps the token the platform takes, and a connection that lapses is
\* renewed or shown as what it is (token_refresh.py).
ChannelsStayAlive ==
    /\ []Tokens!StoredTokenIsTaken
    /\ part = "tokens" => Tokens!LapsedIsShown
=============================================================================
