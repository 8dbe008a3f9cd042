# Verification of GODEYE

GODEYE writes, schedules and publishes posts to social networks for many workspaces. A NestJS API
(`apps/api`), a Celery engine (`apps/engine`) and a Next.js front end (`apps/web`) share one
Postgres database; Redis carries the Celery messages, locks, counters and short-lived secrets. What
makes it hard is that almost every row is written by several of them, each reading it, deciding,
and later updating it by primary key, and that every page keeps copies of what it last heard.

This directory holds TLA+ modules of that behaviour, TLC configurations that check them on small
instances, and TLAPS proofs for every instance. Every definition is a reading of the source;
`PROJECT.json` names the lines, the hazards and the mutants that show each property to be breakable.

## 1. Inventory

Each entry: the state, what is hard, what makes it correct. Interactions follow.

### The engine

**Publish pipeline** (`tasks/scheduler.py`, `publishers/base.py`, `celery_app.py`). `ScheduledPost`
(status, lockedAt, scheduledAt, attempts), the broker's messages, the locals of running tasks. Hard:
at-least-once messages, death at any point, a platform call with an unknown outcome, writes that re-check
nothing, time windows that must nest. Correct when a post is accepted once, its outcome stands, its
retries are bounded, and none stays claimed or waits for ever.

**Token refresh** (`tasks/token_refresh.py`, `periodic_lock.py`). `SocialConnection` status, credentials,
expiry. Hard: the sweep, a reconnection and the publish task write the row by id; a rotated token exists at
the platform before it is stored. Correct when the stored token is the one the platform takes, and a lapsed
connection is renewed or shown as lapsed.

**Autopilot planner** (`tasks/planner.py`). `PostingPlan.lastPlannedAt` and the plan's posts. Hard: slots are queued
before the mark is saved, `updatePlan` clears the mark, messages are redelivered. Correct when an edit of
times or channels reaches what is already booked.

**Products** (`tasks/products.py`, `tasks/product_posts.py`, `products/`). `Product` rows and their posting history.
Hard: crawl, removal and several makers of posts at once. Correct when a product does not come round too soon.

**Agent runs** (`tasks/image.py`, `content.py`, `video.py`, `reap_stale_runs`). `AgentRun.status`. Hard: a run reaped
while its task works, a task that finishes late, redelivery after the commit. Correct when a run ends once and
what it made is attached to its item.

**Site audits** (`seo/`, `tasks/seo.py`). `SeoAudit`, `SeoFix`. Hard: a fix is verified over the network and its verdict
written by id. Correct when VERIFIED is what a crawl saw.

### The API

**Scheduling and review** (`scheduling/scheduling.service.ts`, `content/content.service.ts`). The same post rows,
`PostingPlan`, `ContentItem.status`. `cancel`, `editPending`, `retry`, `schedule` read, refuse some statuses, then write
by id. Correct when a user's action never re-opens a post that is out, and nothing is booked under the gate
that nobody approved.

**Sessions** (`auth/auth.service.ts`, `common/membership.service.ts`, `common/jwt-auth.guard.ts`). `RefreshToken` families,
`Membership.sessionVersion`, a cache in each process. Hard: rotation against alarms, sign-outs and removals. Correct
when a family that ended stays ended and an admission is never older than the cache.

**Members** (`members/`, `acceptInvitation`). `Membership`, `Invitation`. Correct when everybody came in by invitation.

**Second factor** (`backup-codes.service.ts`, `assertValidMfaCode`). Secrets, recovery codes, replay marks in memory.
Correct when a code works once.

**Accounts** (`password-reset.service.ts`, register, login, password and e-mail changes). Correct when a link sets one password.

**Sign-in backoff, rate limits** (`login-backoff.service.ts`, `throttler-storage.ts`). Redis counters, counters per process
as the fallback. Hard: overlapping requests, a store that drops half a pipeline, several tiers. Correct when limits hold, and
when they end.

**Connections** (`connections/`). OAuth states in Redis, pending X tokens, rows. Correct when a state is used once.

**Billing** (`billing/`). `Subscription`, `PaymentApplication`, access caches. Hard: webhook against return trip, events in any
order, the sweep. Correct when each payment counts once and what was paid for stands.

**Limits of the plan**, **periodic locks** (`leader-lock.ts`), **mail** (`email/`), **webhooks of Meta**, **reconciliation**,
**outgoing requests and readiness** (`http-client.ts`), **realtime** (`realtime.gateway.ts`): one module each, see below.

### The web application

**Session in the browser** (`lib/api.ts`, `lib/auth-store.ts`): requests of a tab share one rotating cookie.
**Arrival** (sign-in, sign-up, invitation, reset, onboarding and the layout's redirects), **billing page**,
**composer**, **calendar**, **studios**, **autopilot page**, **connections page**, **settings cards**,
**account card**: each keeps drafts, queries and requests on their way. Hard: answers that arrive in another state than
they were asked in. Correct when what is shown, kept and sent is about the thing it was opened on.

### Without protocol state

Rendering and media storage, crawling and SEO rules, AI providers and prompts, the platforms' HTTP dialogues,
metrics and retention, marketing pages: I/O, parsing and wording. The weekly review has no caller, and the trial notice is one guard
over two browser stores. They are listed as not modelled, with the reason.

### Interactions

Pages call the API; the API writes rows that the engine's beat and workers take up, and sends the engine requests
through `http-client.ts`. The dispatcher claims `ScheduledPost` rows and hands them to workers through the broker. Billing,
settings, image tasks and the token refresh change rows a publish task has read. Members and sessions act on
live sockets through Redis and on the guard through its cache. A module that stands beside another sees the
other's effect on its rows as an action of its own (`GateChanges`, `ChannelChanges`, `ImageEnds` in the pipeline; `ByHand`
in `Realtime`; the platform's and Paystack's answers).

## 2. Modules

| module | models |
|---|---|
| `PublishPipeline` | dispatcher, broker, worker slots, reaper, clock, and what the rest of the system does to their rows |
| `SchedulingApi` | extends it with cancel, editPending, retry, updatePlan; states the safety properties |
| `PostPromise` | the abstract specification: what publishing promises about one post, without queue, workers or clock |
| `Sessions` | tokens, memberships, the guard's cache; every handler that begins, moves or ends a session |
| `Browser` | one browser's tabs over one cookie: requests, retries, refreshes, switches, sign-out |
| `Members`, `SecondFactor`, `Accounts`, `LoginBackoff`, `Throttler` | who may come in, with what, how often; `SecondFactor` also holds the person in front of the login page's code field (`PersonSpec`) |
| `Connections` | OAuth flows and pasted credentials |
| `Subscriptions`, `PlanLimits`, `Reconciliation`, `BillingPage` | money |
| `LeaderLock`, `Mail`, `MetaWebhooks`, `Upstream`, `Realtime` | infrastructure of the API |
| `Composer`, `Calendar`, `Studio` | writing, review and booking; the posts' page; image and video runs |
| `Autopilot`, `PlanPage`, `Catalogue`, `TokenRefresh`, `SeoFixes` | planners and sweeps, with the pages over them |
| `AccountSettings`, `SettingsCards`, `ConnectionsPage`, `Arrival` | pages over the endpoints above |
| `MCSchedulingApi`, `MCLiveness` | instances of the pipeline; a clock without end and fairness |
| `MCSignIn`, `MCMoney`, `MCWorkspace`, `MCEventually` | the other components, several in one run |
| `PipelineProofs`, `PostPromise`, `SessionsProofs`, `SignInProofs`, `MoneyProofs`, `WorkspaceProofs`, `PagesProofs`, `TokenRefreshProofs` | theorems |

### Several components in one run

The components in a run of `MCSignIn`, `MCMoney`, `MCWorkspace` or `MCEventually` share no state. `part` names one of them;
the initial state picks it and every other component stands still. The state space is therefore the sum of the
components' spaces and not their product, and nothing is lost, since no behaviour of one could depend on
another. Where two instances of one module stand in a run (a page with two cards, workers that die or do not)
they use the same variables under different constants. A property guarded by `part = ...` speaks of the instance that
moves; the unguarded ones hold in a component that stands still as well.

### How state and actions follow the code

One action is one transaction, one statement outside a transaction, one Redis command or script, one network call, one
callback of a page. A handler is a sequence of such steps of a task record (`pc` and its locals); between two steps
anything else may happen. A handler that is one conditional statement is one action. Requests to an external system are
answered in every way the code distinguishes: done, refused, lost before or after it took effect. Data is reduced to what
decisions are made on: a text is a value, a file is a name, a price is left out.

Variables named in a `ghost` comment record history (what was approved, who held a membership when, what was picked) and
are read by properties only.

### The publish pipeline

`post` is the `ScheduledPost` table reduced to the four columns that control it. `content`, `channel`, `media`
are the columns of the other rows the publish task reads; `media[c] = "coming"` is a QUEUED or RUNNING
image run. `outbox` holds claims that are committed and whose `publish_post.delay` has not run; `queue`
is the broker, a set, so it may deliver in any order. `pc` and `job` are where each worker slot is in `publish_post` and
its locals; `reaping` is the reaper between its two statements; `calls` are API requests between theirs.

Two history variables change nothing. `accepted[p]` counts how often the platform took the post, up to
two. `risk[p]` collects the ways in which the post left the protocol's hands, and the safety properties speak of
posts with `risk[p] = {}`:

- `late`: a copy started so late after its claim that its hard limit ends outside the reaper's window;
- `blind`: an UPDATE by id landed on a row that was no longer what its writer had checked, in the
  worker, the reaper or the API;
- `unrecorded`: the platform took the post and the code did not come to record it.

So the theorems say exactly under which conditions the code keeps its promises, and two violation
runs show that the excluded conditions do happen.

`DispatchClaim` chooses any batch the query may return: within a workspace the oldest `PER_ORG_PER_TICK` posts, ties
in any order, and any `DISPATCH_BATCH` of those, since the LIMIT has no ORDER BY.

A tick is at least `CLAIM_TOLERANCE_SEC` and at most one beat, so comparing a claim time with `lockedAt`
within the tolerance is equality of ticks. The clock moves only when no task has outlived its hard limit (Celery
kills it), and not between the dispatcher's commit and its sends, between the reaper's two statements, or within an API
request: each pair is milliseconds apart against minutes. Everything else may be interleaved with any number of ticks,
waiting in the queue above all.

## 3. Runs

A run that passes explores every reachable state of its instance. A run that shows a violation checks one
sentence of a comment or a page against what the code does.

| run | checks | shows |
|---|---|---|
| `lease` | `TypeOK`, `LockMeansClaimed`, `LeaseHeld`, `AtMostOnce`, `AcceptedStaysPublished`, `RetryBudget`, `PromiseKept`, `VerdictStands` | the pipeline and the scheduling API keep `PostPromise`: a post still in the protocol's hands is accepted at most once, stays published, ends within its attempts, and is never published by a copy whose claim was taken back |
| `liveness` | `NeverStaysClaimed`, `EventuallySettles` | with the clock running for ever, a claimed post is released and a due post settles: one post on its own, and two of one workspace that share a quota of one a tick, the first of which waits for an image |
| `sign_in` | `AdmissionIsFresh`, `MovedOnlyWhenRemoved`, `DeadFamilyStaysDead`, `MembersWereInvited`, `EachCodeWorksOnce`, `StateWorksOnce`, `OneTabStaysSignedIn` | who is let in: the guard, rotation, the ends of a family, the team, codes, recovery, the page, OAuth states |
| `money` | `EachDeliveryCountsOnce`, `PostsOvershootIsBounded`, `KeepsItsLock`, `LettersArriveAsTold`, `PaidTimeStands` | a payment is credited once however often it is reported, and the time it pays for is not taken away by a sweep, a backfill, a crash or another event; users' posts exceed a plan by no more than the requests that looked together and what the engine added since; a lock in its time is kept; a letter told as sent has arrived, from its call or one with its key |
| `workspace` | `LimitsHold`, `LinkSetsOnePassword`, `NoSocketOutlivesItsRight`, `PageKnowsItsUser`, `AudienceWasChosen`, `BookedAfterApproval`, `GridShowsWhatWasReported`, `VerifiedWasSeen`, `EditReachesWhatIsBooked`, `CardsTellWhatIsStored`, `NotRepeatedTooSoon`, `FormsReachTheirTarget` | the rest of the API and the pages |
| `eventually` | `NobodyIsShutOut`, `ChannelsStayAlive`, `EveryPaymentIsSeen`, `RecoversOnItsOwn` | what must happen in the end: a person who keeps trying gets in, a channel is renewed or shown as lapsed, a payment is seen whichever way it is lost, pages and calls recover |
| `late_copies` | `ClaimCheckPreventsDuplicates` | *violation.* `scheduler.py:53-56` says a copy overtaken by its reclaim drops out; one that passed the check just before the deadline does not |
| `stale_failure` | `RealOutcomeKept` | *violation.* `scheduler.py:537`: a failure written by id may cover the outcome of another copy |
| `edit_text` | `TimeAloneKeepsTheText` | *violation.* `calendar/page.tsx:292`: moving only the time sends the page's preview, the title or the first 140 characters, as the text |
| `plain_charge` | `CardIsKnown` | *violation.* `billing.module.ts:589-593`: a charge without a subscription code clears the code that an earlier event stored, and the guard takes a renewing card for a single month |
| `cancelled_early` | `KeepsThePaidPlan` | *violation.* the pricing page (`(marketing)/pricing/page.tsx:59`) and the terms (`(legal)/terms/page.tsx:76-77`) leave the paid plan to its period's end; `billing.module.ts:728-741` writes CANCELED at once, and `decide()` locks that whatever the date |
| `lost_phone` | `LostPhoneGetsIn` | *violation.* the login page's field takes 8 characters (`login/page.tsx:83`), a recovery code has 10 or 11: whoever lost the phone cannot enter one |

### Bounds

*Pipeline.* The windows keep the order of the configured ones in the smallest numbers that have it: `LockTimeout` 1,
`HardLimit` 1 < `StuckAfter` 2, `ImageWait` 2, clock up to `MaxTime` 4, `MaxAttempts` = `CallTries` = 2 for 3. One post and two
worker slots are enough for two copies of one post to race, which is where every property of one post bites; two posts
for the batch and the per-workspace share. `MaxUpsets` bounds failures and interventions together. In `liveness`
there is no last instant: at `MaxTime` the clock slides every stamp back by one, and a claim that matches no row
any more is replaced by a value that matches nothing, so time is unbounded and the states are finite. `LiveInit` starts it with one
post, which meets every failure (`Alone`), or with two, whose copies start in time and which nobody writes blindly (`Orderly`).

*Components.* Two of everything that races (two tasks, processes, tabs, people), three where the third matters (replicas behind
an advisory lock, a window of acceptance three steps long). Counters are cut by guards that name their bound (`Max...`,
`Last`, `Horizon`). Each bound is large enough that the mutants of `PROJECT.json`, one per property, are caught within it.
The composer has two parts: one post for one channel with review, variants and the gate turning on and off (`composer`), and one post after another
on two TikTok channels that offer different audiences (`another`). The throttler runs on two replicas over Redis that comes and goes, with a caller who
does not wait (`workspace`), and with one who waits as told (`eventually`; `Patient`). Reconciliation lists one reference a page where two may be paid,
and any pass may fail. Letters are three calls of one template to one address over three hours, the case in which keys coincide.

*Symmetry.* Worker slots in `lease`; tasks, processes and other people in `sign_in` and `money` (`Alike`). None where a `CHOOSE` or a
temporal property would make it unsound.

*Deadlock.* `CHECK_DEADLOCK FALSE` where a bounded clock or counter, or a page that is simply closed, ends behaviours. The
run of `MCLiveness` checks it: the pipeline with an unbounded clock never stops.

### Fairness

*Pipeline.* Weak fairness of the clock, the dispatcher, the reaper, the sends, the discarding of dead messages, each step of a
living worker and the second half of an API request: each is a beat entry, a running process or the rest of a handler.
Strong fairness of taking up a message that is still its row's claim: a load assumption, that workers are not for ever
busier than the queue. Failures are finite (`MaxUpsets`). Nothing is assumed of images, settings, users or what a platform answers.

*`eventually`.* The comments of `MCEventually` name it part by part. In short: time passes and timers fire; a request that was
sent is answered or given up; the effects of an open page run; a worker goes on with the sweep it began; a person who wants in
keeps trying, fills in the form before them and looks at the billing page. Strong fairness where something must come
back well often enough: `verify` answers, Paystack's lists.

### What the code does not keep

Met while modelling. Where a property would fail, it excludes the case by a named condition (a ghost, a constant or a guard).

- *Pipeline.* An edit of a claimed post, an image stored between the two reads of `_execute`, a trial that ends after
  the claim, and a lock shorter than a slow platform call are all published as they were read
  (`scheduling.service.ts:206`, `scheduler.py:341`, `:102`, `docs/ARCHITECTURE.md:58`). `is_stale_run` measures from `createdAt`, so the wait in
  the queue counts; `reap_stale_runs` looks at RUNNING only, so a QUEUED run whose message was lost stays.
- *Tokens.* A reconnection made while the sweep holds the old row is overwritten by id (`token_refresh.py:319`), even with REVOKED. A
  sweep that outlives its lock refreshes one rotating token twice. A crash between the platform's rotation and the save loses the
  token. The soft time limit is taken for one bad connection.
- *Planner.* A crash between queueing and the save of `lastPlannedAt` plans twice (`planner.py:181`); an edit within twelve minutes
  after a slot books it again; two editors whose saves cross skip the cancel; an editor in another time zone moves the
  plan to it. The edit page omits `slideshowSeconds` and `renderAsVideo`, although `page.tsx:384-387` says posts inherit them.
- *Products.* Consent is not asked again between the queue and the post; remove and re-import forgets the posting history; two makers
  at once take the same product, despite `planner.py:474-475`.
- *Sessions.* Two tabs that refresh together trip the reuse alarm; a lost refresh answer signs out; a request retried after a switch runs in
  the other workspace. A family whose membership was lost moves to another workspace.
- *Second factor.* The settings page discards the recovery codes that `enableMfa` returns and nothing shows them again, although
  `auth.controller.ts:298-301` says the client has to. Replay marks live in one process. `ON` is shown after a lost answer.
- *Accounts.* A reset whose process dies after it claimed the link spends it without effect.
- *Connections.* The X pending pair is read, then deleted, not taken in one step (`oauth-state.service.ts:31-33`); nobody's role is
  asked on return; requests that look together exceed the channel limit.
- *Billing.* A card that is cancelled ends the paid period at once (`cancelled_early`), and a late `disable` does so to a period bought since;
  `PaidTimeStands` therefore speaks of rows that are not CANCELED. Two one-off payments that cross read the same end under READ COMMITTED
  and buy one month together, although `billing.module.ts:572-573` adds each on to the time left; `owed` counts what the transaction read.
- *Plans.* "Nothing publishes past your plan" (`(marketing)/pricing/page.tsx:55`) is not so for the engine: a plan's slot (`planner.py:489-504`),
  an evergreen piece (`:661-676`) and a product's post (`product_posts.py:189-203`) insert rows that `usage()` counts and `assertWithinLimit`
  never sees. `uncounted` carries those added since a request last passed; a request that comes after them is refused by them.
- *Reconciliation.* It reads one page of 200 (`reconciliation.service.ts:100`), and a pass that fails is tried again a day later (`:86-90`). A payment
  that two passes in a row fail over or have no room for (`missed`) may leave the window of two days unreported.
- *Mail.* `email.service.ts:106-108` says that Resend deduplicates nothing, `:112-113` that it honours the key. `honours` takes both: without it a retry after
  a request that landed is a second copy, with it a second reset link of the same hour is told as sent while only the first arrived.
- *Backoff.* `login-backoff.service.ts:95-104` takes an answer of -1 for "no time served". That is so only if both keys answer it: `Math.max` takes the other
  key's expiry, so an account whose `expire` was lost, or whose `pttl` fails (`:91`), is let in as soon as the address has served the delay. With no
  expiry on either key the elapsed time is 0 at every attempt, and a count over the free attempts refuses for good, although the cap is to bound "how long anyone can
  be held out" (`:18-21`). `LimitsHold` speaks of attempts for which the store answered the account's key; `NobodyIsShutOut` of a store that loses no command.
- *Trial notice.* A dialog opened for one workspace stays open over another after a switch (`trial-notice.tsx:123-135`).
- *Realtime.* "Others expire within 60s" (`realtime.gateway.ts:101-105`) is 65 s with the guard's cache; a member who is added again starts at version 0, where
  an old socket fits.
- *Writing.* A rejection that races a schedule's read leaves the item booked; a schedule whose answer is lost books twice with the gate off;
  `editPending` revives cancelled posts; TikTok's settings are carried from one item to the next ("Write another" and "Generate" leave them)
  and from one account's panel to another's, although `tiktok-post-settings.tsx:18-20` and `:42-43` ask for a choice with nothing pre-selected and the composer
  (`composer/page.tsx:101-103`) for one per account. `AudienceWasChosen` names those choices `LeftOver` and excepts them; every other audience is the creator's
  last choice for that item in that panel.
- *Studios and audits.* The image of a run reported FAILED is still attached; a redelivered task makes a second asset; a verdict is written by id over a
  dismissed fix (`seo.module.ts:282`).
- *Pages.* Edits typed while a save is in flight are dropped or overtaken (settings cards, account card, plan page, connections page); an
  earlier success clears a later failure. `http-client.ts:40` and `:95` speak of one probe, every request passes while half-open.

## 4. Proofs

TLAPS checks every theorem listed in `PROJECT.json` for all values of the constants that meet the assumptions.

**Assumptions.** Typing and sizes, and nothing about the order of the pipeline's windows, which its ghosts carry: `KeysAssumption`,
`TimesAssumption`, `InitialAssumption`, `ApiAssumption` (pipeline); `WindowAssumption` (a one-time code is acceptable for at least
three steps); `PaystackAssumption`, `LockAssumption`, `MetaAssumption`; `ListAssumption`, `ReviewAssumption`,
`TimeAssumption`, `RepostAssumption`, `SlotAssumption`, `DelayAssumption`; `LimitAssumption` (in `MCMoney` the limits are numbers; in
`MCWorkspace` the tiers are the three that exist and the counter can count past the budget); `Configured` for the token sweep, which
`SweepAssumption` of `MCEventually` asks of the instance. Each is named in the module that
declares the constants, and TLC evaluates it on the runs.

**The pipeline** (`PipelineProofs`, `PostPromise`). `LeaseHeld` is not inductive: that only one timely copy holds a row rests on
*where the message of a claim may be*. `LeaseInv` adds `Tickets` (the message of a claim exists once, in the outbox, the queue or a slot, and no claim is
younger than the last dispatch) and `Clocks` (a running copy is within its hard limit, and what the reaper has selected is stuck).
`OnceInv` adds `Punctual`: while a post is not `late`, every copy of it is timely, hence the holder, hence the only one that can be at the
platform. From it follow `AtMostOnce`, `AcceptedStaysPublished`, `RetryBudget` and `VerdictStands`, and `Implements`: every step of the
pipeline and the API is a step of `PostPromise` or a stutter. `PromiseMeansOnce` says what that abstract specification gives.

**Several components in one specification.** `MCSignIn`, `MCMoney` and `MCWorkspace` have a lemma `...Alone` for each instance: a step
of the run is a step of the instance or leaves its variables as they are. Each theorem then has its own invariant about that
instance, proved in the order *initial state, each step, what it implies*.

| theorem about | rests on |
|---|---|
| sessions (`SessionsProofs`) | `AgesHold`, `HeldOnce`: a row in a cache or in a request's hands was held not longer ago than its age says. `HomeOrLost`: the tokens of a family are of its first workspace unless that membership was lost |
| members, codes, states, the page (`SignInProofs`) | `TeamInv`: whoever accepts, accepts their own invitation. `FactorInv`: a spent counter stays remembered while its code is acceptable, redeemed codes are marked. `FlowInv`: a state that is stored has no second holder. `PageInv`: the page's token is known and not spent |
| payments, limits, locks, letters (`MoneyProofs`) | `PayInv`: a marker row stands for exactly one credit; what is owed never lies behind the row's date, and a row is PAST_DUE only when nothing is owed. `RoomFor`: each of those ahead found room when it counted. `LockInv`: tokens of two acquisitions differ and a key is its owner's until it expires. `LettersInv`: where the key is honoured, a key that was answered is that of a letter that arrived; where it is not, a letter has no more copies than tries used. `RepeatInv`: what was delivered is marked |
| links, review, audience, sockets (`WorkspaceProofs`) | `LinksInv`: whoever may yet set a password claimed the link alone. `WritingInv`: what points at an item was cleared and picked for it, and a choice that is not left over is of the item on screen and of the panel that is open. `SocketsInv`: a socket without its right has lived no longer than cache, timer and age leave |
| products | `ProductsInv`: a row bears the day of its product's last post, through imports, until it is removed |
| settings cards (`PagesProofs`, as the next and the image studio and the account page) | `CardsInv`: what a card last got is what is stored, or something of the card is on its way, or it says it failed |
| plan form, bot tokens | `PlansInv`: plans are numbered and never renumbered, an open form edits the plan it was opened on, and a save on its way carries that plan's number. `BotsInv`: a token is in the form of its kind |
| site audits | `FixesInv`: what a check holds as done was seen done by a fetch that only grows; verdicts come from it alone |
| the autopilot | `SlotsInv`: the planner's and each message's slot is of the plan as it is, or marked `late`; a plan that changed is marked to be planned again or has an editor who still cancels |
| the image studio | `PicturesInv`: a list that was read, and a grid that waits for none, agree with all the page was told of |
| the account page | `AccountInv`: while requests go singly, the page differs from the account by the answer it waits for, or a refresh is due |
| sign-in backoff | `BackoffInv`, and `DelayGrows`: the delay of a larger count is no smaller, so whoever passes the larger of two counts has waited out the account's own |
| rate limits | `LimitsInv`: what a store granted in a window is at most the one counter of its spend tier, and both start anew together |
| the token sweep (`TokenRefreshProofs`) | `TokensInv`: an unspoiled connection is held by one sweep at most, whose copy of the tokens is the row's until the platform answers; an answer that is about to be saved is one the platform takes. `spoiled` marks a crash, a lost answer or a second writer between call and save. The run has one sweep, the theorem any number |

`DelayGrows` needs a fact about every number, `Doubled[n + 1] = 2 * Doubled[n]` for a recursive function. The induction theorems of the library
are out of the provers' reach, so `LeastNat` (a non-empty set of numbers has a least element, from well-foundedness) is applied to the set of
counterexamples: such a table exists up to every *n* (`DoublesExist`), two of them agree (`DoublesAgree`), hence the recursive
definition denotes one (`DoubledStep`). It is the function TLC evaluates.

**How far the theorems go.** Every invariant and every action property of the runs `lease`, `sign_in`, `money` and `workspace` is
stated by a theorem, with the instances' sets, times and bounds arbitrary. `PaidTimeStands` excepts CANCELED rows, as the run does; the pipeline's theorems speak of posts with `risk[p] = {}` where the properties do. The windows and counters
still end at their bounds in the model (a cap such as `MaxTime`), but the proofs hold for every value of them.

**Only model-checked.** What needs fairness or `ENABLED`: the runs `liveness` and `eventually`; the prover has no rules for
them. `TokensStayTaken` proves the one safety part of `ChannelsStayAlive`, about the specification of `TokenRefresh` itself. The violations are counterexamples and
need no proof.

## 5. What is not modelled

Listed in `PROJECT.json` as `not_modelled`, with the reason: AI providers and prompts, media storage and rendering, crawling and SEO rules, metrics
and retention, the weekly review (nothing calls it), the trial notice, the other pages of the web application. They are I/O, parsing, wording or layout, and keep no state that two actors share.

Left out of parts that are modelled: rows that are deleted while a copy runs; payload, variants and captions of a post; events and
metrics that swallow their errors; the text of an error, except whether it blames the channel (`EXPIRING_SOON` is attempted like `ACTIVE`,
`REVOKED` and `DISCONNECTED` are refused like `EXPIRED`); two dispatchers at once; the beat's heartbeat. The broker, Redis,
Postgres, Paystack, Meta and the platforms are external: they are modelled by what the code in `apps/` relies on, with the failures it
handles.

*Next.* Refinements of single components against the cell they stand for (a
payment as a set of references, a session family as a state that only ends), stated as abstract specifications in the manner of `PostPromise`.
