---------------------------- MODULE MCWorkspace ----------------------------
(***************************************************************************)
(* Who is slowed down, what people do in a workspace and on its pages, and *)
(* the planners and workers that work on it, in one run, one part at a     *)
(* time as in MCSignIn.                                                    *)
(***************************************************************************)
EXTENDS Integers, FiniteSets, Sequences

CONSTANTS
    Parts,          \* the instances a run checks
    Tasks,          \* requests being served at the same time
    Processes,      \* of the API
    \* of Accounts and Realtime
    Passwords, Breached, Addresses, FirstAddress, MaxWrites, MaxLinks, MaxSessions, Crashes,
    CacheTtl, Every, MaxAge, MaxVersion, MaxRevisions,
    \* of Composer
    Channels, TikToks, Offers, Reviews, MaxRuns, MaxPosts, MaxFlips, MaxEdits,
    \* of LoginBackoff and Throttler
    Accounts, Clients, Me, MyAccount, MyAddress, Others, FreeAttempts, BaseDelay, MaxDelay,
    WindowLength, MaxCount, MaxFailures, StoreCuts,
    Callers, Servers, Routes, Tiers, TierLimit, TierTtl, Cost, MaxHits, Outages,
    \* of Studio and SeoFixes
    MaxImages, MaxAgents, MaxAssets, MaxDied,
    FixKinds, CheckKinds, Website, Hosts, MaxAudits, MaxFixes, MaxChecks, MaxMoved, MaxKilled,
    \* of Autopilot and PlanPage
    Timings, SlotsOf, ChannelSets, Editors, Messages, Horizon, Grace, PerRun, LastHour,
    MaxReplans, MaxPlanCrashes,
    Platforms, PlanTimes, Looks, FirstLook, MaxPlans, MaxSaves,
    \* of AccountSettings, SettingsCards, Catalogue and ConnectionsPage
    UserNames, Emails, Elsewhere, AccountSends,
    Colours, Files, Websites, CardSlots, MaxSends,
    ShopPages, ShopTexts, Makers, Repost, LastDay, MaxImports, MaxShopChanges, MaxLostWorkers,
    BotKinds, OAuthButtons, MaxRequests

\* Channels are numbered as the page lists them.
ASSUME ListAssumption == TikToks \subseteq Channels /\ Channels \subseteq Nat
\* content.service.ts has these changes of status.
ASSUME ReviewAssumption == Reviews \subseteq {"submit", "approve", "reject", "draft"}
\* membership.service.ts and realtime.gateway.ts give these as numbers of milliseconds.
ASSUME TimeAssumption == {CacheTtl, Every, MaxAge} \subseteq Nat \ {0}

\* REPOST_AFTER_DAYS is a number of days.
ASSUME RepostAssumption == Repost \in Nat
\* Autopilot's times of a cadence are times of the model.
ASSUME SlotAssumption == \A x \in Timings : SlotsOf[x] \subseteq 1 .. LastHour
\* login-backoff.service.ts and throttler.ts give these as whole numbers; a count stops
\* where the delay, and a throttler's where the limit, has been passed.
ASSUME DelayAssumption ==
    /\ {FreeAttempts, BaseDelay, MaxDelay, WindowLength, MaxCount} \subseteq Nat
    /\ MyAccount \in Accounts /\ MyAddress \in Clients
ASSUME LimitAssumption ==
    /\ Tiers \in Seq({"default", "burst", "spend"}) /\ Tiers # <<>>
    /\ Cost \in [Routes -> Nat]
    /\ {TierLimit["spend"], MaxHits} \subseteq Nat /\ TierLimit["spend"] < MaxHits

\* Values a configuration file cannot hold.
SomeAudiences ==
    [c \in TikToks |-> {"PUBLIC_TO_EVERYONE"} \cup (IF c = 1 THEN {"SELF_ONLY"} ELSE {})]
SpendTier == <<"spend">>
LimitOf == [default |-> 2, burst |-> 4, spend |-> 3]
TtlOf == [default |-> 1, burst |-> 1, spend |-> 2]
CostOf == [image |-> 1, video |-> 2]
MorningOrNoon == [am |-> {1, 3}, pm |-> {2}]
OneOrOther == {{"tt"}, {"fb"}}

VARIABLES
    part,
    count, age, signIn, signedIn, failures, guessed,
    hits, left, answers, call, wait, granted, passed,
    user, link, session, asked, uses,
    right, known, socket, look, timer, notice, ending, revisions, without,
    mine, me, bearer, name, email, card, trouble, sending, tries, unsure,
    gate, flips, item, run, booked, asking, save, variants, draft, composer,
    body, post, list, dialog, press, edits,
    agent, job, asset, media, studio, grid, removing, toldOf, gone, died,
    ask, clear, audit, crawl, fix, site, check, fixes, seen, notified, moved, killed,
    now, plan, planner, message, slotPosts, saving, replans, planCrashes, crossed,
    connected, plans, planList, form, pending, planSaves,
    settings, cache, stale, drafts, error, request, sends,
    day, consent, shop, product, import, maker, imports, shopChanges, lostWorkers, posted,
    rows, rowList, listStale, openForm, fields, failed, joining, leavingRows, leaving, away, requests

Backoff == INSTANCE LoginBackoff WITH
    Addresses <- Clients, task <- signIn, inside <- signedIn

\* callers who do not wait
Limits == INSTANCE Throttler WITH
    Patient <- {}, Replicas <- Servers, task <- call

\* one account, several requests at a time
Person == INSTANCE Accounts WITH account <- user, task <- asked

\* a socket on each process, through changes of the membership
Sockets == INSTANCE Realtime WITH
    Replicas <- Processes, MaxChanges <- MaxRevisions, cache <- known, changes <- revisions

\* the settings page of one tab, an address of somebody else's among those typed
Account == INSTANCE AccountSettings WITH
    Names <- UserNames, MaxSends <- AccountSends,
    row <- mine, user <- me, token <- bearer, error <- trouble, request <- sending, sends <- tries

\* the gate is off at first: one post and one channel, reviewed by two people while the gate
\* is turned on and off ("composer"); post after post on several channels, without ("another")
Writing == INSTANCE Composer WITH
    post <- booked, call <- asking, edits <- variants, form <- composer

\* A text longer than the list's 140 characters, and a short one
Planner == INSTANCE Calendar WITH
    Posts <- {"p"}, Texts <- {"long", "short"},
    Cut <- [x \in {"long", "short", "start"} |-> IF x = "long" THEN "start" ELSE x],
    Title <- "title", NoTitle <- "none", Times <- {1, 2}, MaxEdits <- 2,
    form <- dialog, request <- press

\* two images at most, a generation, a worker that may die
Pictures == INSTANCE Studio WITH
    Kinds <- {"IMAGE"}, MaxRuns <- MaxAgents, MaxCrashes <- MaxDied,
    run <- agent, told <- toldOf, crashes <- died

Films == INSTANCE Studio WITH
    Kinds <- {"VIDEO"}, MaxRuns <- MaxAgents, MaxCrashes <- MaxDied,
    run <- agent, told <- toldOf, crashes <- died

\* a page and a file, checked while the site and the fixes change, and nobody dies ("fixes");
\* a page alone, with workers that die ("checks")
Fixes == INSTANCE SeoFixes WITH
    Kinds <- FixKinds, MaxChanges <- MaxMoved, MaxCrashes <- MaxKilled,
    job <- crawl, list <- fixes, changes <- moved, crashes <- killed

\* edits of a plan's times or channels while slots are planned, written and due ("slots");
\* one edit, with planners and workers that die ("deaths")
Filling == INSTANCE Autopilot WITH
    Channels <- ChannelSets, Tasks <- Messages, MaxTime <- LastHour, MaxEdits <- MaxReplans,
    MaxCrashes <- MaxPlanCrashes,
    booked <- slotPosts, edits <- replans, crashes <- planCrashes

PlanForm == INSTANCE PlanPage WITH
    Times <- PlanTimes, Plans <- 1..MaxPlans,
    stored <- plans, shown <- planList, saves <- planSaves

Kit == INSTANCE SettingsCards WITH
    Cards <- {"kit"}, Slots <- CardSlots, stored <- settings, draft <- drafts

\* two cards that show one row
Profile == INSTANCE SettingsCards WITH
    Cards <- {"profile", "products"}, Slots <- CardSlots, stored <- settings, draft <- drafts

\* two pages of a shop, two makers of posts, a worker that may die
Products == INSTANCE Catalogue WITH
    Pages <- ShopPages, Texts <- ShopTexts, MaxTime <- LastDay, MaxChanges <- MaxShopChanges,
    MaxCrashes <- MaxLostWorkers,
    now <- day, row <- product, job <- import, changes <- shopChanges, crashes <- lostWorkers

Bots == INSTANCE ConnectionsPage WITH
    Kinds <- BotKinds, Buttons <- OAuthButtons, stored <- rows, shown <- rowList, stale <- listStale, error <- failed,
    connecting <- joining, removing <- leavingRows

backoffVars == <<count, age, signIn, signedIn, failures, guessed>>
limitVars == <<hits, left, answers, call, wait, granted, passed>>
personVars == <<user, link, session, asked, uses>>
socketVars == <<right, known, socket, look, timer, notice, ending, revisions, without>>
accountVars == <<mine, me, bearer, name, email, card, trouble, sending, tries, unsure>>
callerVars == <<backoffVars, limitVars, personVars, socketVars, accountVars>>
writingVars == <<gate, flips, item, run, booked, asking, save, variants, draft, composer>>
dialogVars == <<body, post, list, dialog, press, edits>>
studioVars == <<agent, job, asset, media, studio, grid, removing, toldOf, gone, died>>
seoVars == <<ask, clear, audit, crawl, fix, site, check, fixes, seen, notified, moved, killed>>
slotVars == <<now, plan, planner, message, slotPosts, saving, replans, planCrashes, crossed>>
planVars == <<connected, plans, planList, form, pending, planSaves>>
cardVars == <<settings, cache, stale, drafts, error, request, sends>>
productVars == <<day, consent, shop, product, import, maker, imports, shopChanges, lostWorkers,
                 posted>>
botVars == <<rows, rowList, listStale, openForm, fields, failed, joining, leavingRows, leaving,
             away, requests>>
postVars == <<writingVars, dialogVars, studioVars, seoVars>>
pageVars == <<slotVars, planVars, cardVars, productVars, botVars>>
vars == <<part, callerVars, postVars, pageVars>>

Init ==
    /\ part \in Parts
    /\ Backoff!Init /\ Limits!Init /\ Person!Init /\ Sockets!Init
    /\ Account!Init /\ (part = "account" \/ ~mine.mfa)
    /\ Writing!Init /\ ~gate
    /\ Planner!Init /\ body = "long" /\ \A p \in DOMAIN post : post[p].at = 1
    /\ IF part = "films" THEN Films!Init ELSE Pictures!Init
    /\ Fixes!Init /\ site = IF part = "checks" THEN CheckKinds ELSE FixKinds
    /\ Filling!Init /\ plan.times = CHOOSE x \in Timings : TRUE
    /\ plan.channels = CHOOSE x \in ChannelSets : TRUE
    /\ PlanForm!Init /\ (part = "plans" \/ connected = {})
    /\ IF part = "kit" THEN Kit!Init ELSE Profile!Init
    /\ Products!Init /\ (part = "products" \/ shop = [p \in ShopPages |-> CHOOSE x \in ShopTexts : TRUE])
    /\ Bots!Init

Guards ==
    \/ /\ part = "backoff" /\ Backoff!Next
       /\ UNCHANGED <<limitVars, personVars, socketVars, accountVars>>
    \/ /\ part = "limits" /\ Limits!Next
       /\ UNCHANGED <<backoffVars, personVars, socketVars, accountVars>>
    \/ /\ part = "person" /\ Person!Next
       /\ UNCHANGED <<backoffVars, limitVars, socketVars, accountVars>>
    \/ /\ part = "sockets" /\ Sockets!Next
       /\ UNCHANGED <<backoffVars, limitVars, personVars, accountVars>>
    \/ /\ part = "account" /\ Account!Next
       /\ UNCHANGED <<backoffVars, limitVars, personVars, socketVars>>

\* what is written, and which channels it is for, in those two parts
WrittenOnce ==
    /\ Len(run') <= 1 /\ composer'.chosen \subseteq {1}
    /\ run # <<>> => asking'["page"].pc # "queue"

WrittenAgain ==
    /\ UNCHANGED <<flips, variants>> /\ ~composer'.branded /\ \A i \in DOMAIN item' : ~item'[i].ab
    /\ \A p \in Writing!People : asking'[p].op \notin Reviews
    /\ booked # <<>> => composer'.chosen = composer.chosen

Posts ==
    \/ /\ \/ part = "composer" /\ Writing!Next /\ WrittenOnce
          \/ part = "another" /\ Writing!Next /\ WrittenAgain
       /\ UNCHANGED <<dialogVars, studioVars, seoVars>>
    \/ /\ part = "calendar" /\ Planner!Next
       /\ UNCHANGED <<writingVars, studioVars, seoVars>>
    \/ /\ \/ part = "pictures" /\ Pictures!Next
          \/ part = "films" /\ Films!Next
       /\ UNCHANGED <<writingVars, dialogVars, seoVars>>
    \/ /\ \/ part = "fixes" /\ Fixes!Next /\ UNCHANGED killed
          \/ part = "checks" /\ Fixes!Next /\ site' \subseteq CheckKinds
       /\ UNCHANGED <<writingVars, dialogVars, studioVars>>

Pages ==
    \/ /\ \/ part = "slots" /\ Filling!Next /\ UNCHANGED planCrashes
          \/ part = "deaths" /\ Filling!Next /\ replans' <= 1
       /\ UNCHANGED <<planVars, cardVars, productVars, botVars>>
    \/ /\ part = "plans" /\ PlanForm!Next
       /\ UNCHANGED <<slotVars, cardVars, productVars, botVars>>
    \/ /\ \/ part = "kit" /\ Kit!Next
          \/ part = "profile" /\ Profile!Next
       /\ UNCHANGED <<slotVars, planVars, productVars, botVars>>
    \/ /\ part = "products" /\ Products!Next
       /\ UNCHANGED <<slotVars, planVars, cardVars, botVars>>
    \/ /\ part = "bots" /\ Bots!Next
       /\ UNCHANGED <<slotVars, planVars, cardVars, productVars>>

Next ==
    \/ Guards /\ UNCHANGED <<part, postVars, pageVars>>
    \/ Posts /\ UNCHANGED <<part, callerVars, pageVars>>
    \/ Pages /\ UNCHANGED <<part, callerVars, postVars>>

Spec == Init /\ [][Next]_vars

\* A reset link sets one password at most (consume).
LinkSetsOnePassword == part = "person" => Person!LinkSetsOnePassword
\* No socket goes on for longer than a revalidation and a cached answer (realtime.gateway.ts).
NoSocketOutlivesItsRight == part = "sockets" => Sockets!NoSocketOutlivesItsRight
\* With every answer in, the account page tells the truth of its user (patchUser, disableMfa).
PageKnowsItsUser == part = "account" => Account!PageKnowsItsUser

\* However attempts overlap and are spread over accounts and addresses, one whose questions
\* the store answered is not let at the password of an account in its cool-off
\* (LoginBackoff's two counters); and however calls are spread over routes and processes,
\* no store lets a caller spend more than a window's budget (the throttler's spend tier).
LimitsHold ==
    /\ part = "backoff" => Backoff!NoGuessWhileCooling
    /\ part = "limits" => Limits!SpendWithinBudget
\* A TikTok post has the audience its creator picked for it (tiktok-post-settings.tsx).
AudienceWasChosen == part \in {"composer", "another"} => Writing!AudienceWasChosen
\* Under the gate only what was approved is booked (schedule).
BookedAfterApproval == part \in {"composer", "another"} => Writing!BookedAfterApproval
\* A list that has come shows every image the page was told of (image-studio.tsx).
GridShowsWhatWasReported == part = "pictures" => Pictures!GridShowsWhatWasReported
\* VERIFIED is what a crawl saw done (verify_fixes).
VerifiedWasSeen == part \in {"fixes", "checks"} => Fixes!VerifiedWasSeen
\* An edit of the plan reaches what it already booked (updatePlan).
EditReachesWhatIsBooked == part \in {"slots", "deaths"} => Filling!EditReachesWhatIsBooked
\* A product rests for REPOST_AFTER_DAYS (product_posts.py).
NotRepeatedTooSoon == Products!NotRepeatedTooSoon
\* A card at rest shows what is stored, an edit not sent, or a failure (settings/page.tsx,
\* business-profile-card.tsx).
CardsTellWhatIsStored ==
    /\ part = "kit" => Kit!CardsTellWhatIsStored
    /\ part = "profile" => Profile!CardsTellWhatIsStored

\* A form changes what it was opened on and nothing else: the autopilot's plan, and the
\* platform a bot token was typed for (one form over several targets).
FormsReachTheirTarget == PlanForm!EditLandsOnItsPlan /\ []Bots!TokenStaysInItsForm

TimeAloneKeepsTheText == Planner!TimeAloneKeepsTheText
=============================================================================
