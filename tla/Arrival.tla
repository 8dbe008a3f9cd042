------------------------------ MODULE Arrival ------------------------------
(***************************************************************************)
(* How a person gets into a workspace in one tab: the sign-in, sign-up,    *)
(* invitation, forgotten-password and reset pages, onboarding, and the     *)
(* redirects that the landing page, onboarding and the app's layout make   *)
(* from what the auth store says.                                          *)
(*                                                                         *)
(* A form is right or refused as a whole.  Who may sign in, with what, is  *)
(* in Accounts, SecondFactor and Members; tokens are in Sessions and       *)
(* Browser.  An answer is applied wherever the tab has got to by then.     *)
(***************************************************************************)
EXTENDS Integers, FiniteSets

CONSTANTS
    Own, Theirs,    \* the workspace registered here, the one an invitation is to
    MaxMoves        \* bound: what the person and the world do

VARIABLES
    page,
    store,      \* the auth store: status, workspace, its hasProfile and access.locked
    cookie,     \* the workspace the refresh cookie is good for
    member,     \* the workspaces the account belongs to
    truth,      \* of each workspace: has a profile, is locked
    asked,      \* of each request: not made, sent, done, with what it asks for or brings
    step,       \* of the onboarding form
    done,       \* the page shows its confirmation instead of its form
    moves

vars == <<page, store, cookie, member, truth, asked, step, done, moves>>

None == "none"
Workspaces == {Own, Theirs}
AuthPages == {"login", "register", "invite", "forgot", "reset"}
AppPages == {"app", "billing"}
Pages == AuthPages \cup AppPages \cup {"landing", "onboarding"}
SignIns == {"login", "register", "invite"}
Ops == SignIns \cup {"forgot", "reset", "refresh", "profile", "switch", "logout", "overview"}

Guest == [status |-> "guest", org |-> None, profile |-> FALSE, locked |-> FALSE]
Loading == [Guest EXCEPT !.status = "loading"]
NoRequest == [pc |-> "none", got |-> Guest]

\* buildSession: what the store is given of a workspace, as it is when the request is served
Session(w) == [status |-> "authed", org |-> w, profile |-> truth[w].profile,
               locked |-> truth[w].locked]

Init ==
    /\ page \in Pages /\ store = Loading
    /\ member \in {{}, {Own}} /\ cookie \in member \cup {None}
    /\ truth \in [Workspaces -> [profile : BOOLEAN, locked : BOOLEAN]]
    /\ Own \in member \/ truth[Own] = [profile |-> FALSE, locked |-> FALSE]
    /\ asked = [op \in Ops |-> NoRequest]
    /\ step = 0 /\ done = FALSE /\ moves = 0

Authed == store.status = "authed"
Home(profile) == IF profile THEN "app" ELSE "onboarding"

-----------------------------------------------------------------------------
\* The redirects, each an effect that runs again when the store changes
LandingSends == IF Authed THEN Home(store.profile) ELSE page

\* replace() is called for each that holds, and the last one counts
OnboardingSends ==
    CASE store.status = "guest" -> "login"
      [] Authed /\ store.locked -> "billing"
      [] Authed /\ ~store.locked /\ store.profile -> "app"
      [] OTHER -> page

LayoutSendsAlways ==
    CASE store.status = "guest" -> "login"
      [] Authed /\ ~store.profile -> "onboarding"
      [] OTHER -> page

\* "Not while locked."
LayoutSends ==
    CASE store.status = "guest" -> "login"
      [] Authed /\ ~store.profile /\ ~store.locked -> "onboarding"
      [] OTHER -> page

SentTo ==
    CASE page = "landing" -> LandingSends
      [] page = "onboarding" -> OnboardingSends
      [] page \in AppPages -> LayoutSends
      [] OTHER -> page

Due == SentTo # page

To(p) == page' = p /\ step' = 0 /\ done' = FALSE

Redirect ==
    /\ Due /\ To(SentTo)
    /\ UNCHANGED <<store, cookie, member, truth, asked, moves>>

-----------------------------------------------------------------------------
\* What the person does.  A link keeps the store and what is on its way ...
Moves == moves < MaxMoves /\ moves' = moves + 1

Follow(p) ==
    /\ Moves /\ p # page /\ To(p)
    /\ UNCHANGED <<store, cookie, member, truth, asked>>

\* ... an address, or a reload, forgets both
Open(p) ==
    /\ Moves /\ To(p)
    /\ store' = Loading /\ asked' = [op \in Ops |-> NoRequest]
    /\ UNCHANGED <<cookie, member, truth>>

Send(op, w) ==
    /\ asked[op] = NoRequest
    /\ asked' = [asked EXCEPT ![op] = [pc |-> "sent", got |-> [Guest EXCEPT !.org = w]]]
    /\ UNCHANGED <<page, store, cookie, member, truth, step, done>>

\* The submit of each of the five pages; a reset link and an invitation are at hand
Submit(op) ==
    /\ Moves /\ page = op /\ op \in AuthPages /\ ~done
    /\ Send(op, None)

\* "try another address"
TryAnother ==
    /\ Moves /\ page = "forgot" /\ done
    /\ done' = FALSE
    /\ UNCHANGED <<page, store, cookie, member, truth, asked, step>>

Onboarding == page = "onboarding" /\ Authed

Continue ==
    /\ Onboarding /\ step < 2 /\ step' = step + 1
    /\ UNCHANGED <<page, store, cookie, member, truth, asked, done, moves>>

Back ==
    /\ Moves /\ Onboarding /\ step > 0 /\ step' = step - 1
    /\ UNCHANGED <<page, store, cookie, member, truth, asked, done>>

Finish == Onboarding /\ step = 2 /\ Send("profile", store.org) /\ UNCHANGED moves

\* the layout's list of one's workspaces
SwitchOrg(w) ==
    /\ Moves /\ page \in AppPages /\ Authed /\ w \in member \ {store.org}
    /\ Send("switch", w)

SignOut == Moves /\ page \in AppPages /\ Authed /\ Send("logout", None)

\* Providers on load; api() when a call is answered 401
Restore == store.status = "loading" /\ Send("refresh", None) /\ UNCHANGED moves
Renew == Moves /\ Authed /\ Send("refresh", None)

\* the billing page's query, and its effect that gives the answer to the store
AskOverview ==
    /\ page = "billing" /\ Authed /\ store.locked # truth[store.org].locked
    /\ Send("overview", store.org) /\ UNCHANGED moves

-----------------------------------------------------------------------------
\* The server.  The trial ends, somebody pays, somebody writes the profile
WorldChanges(w, to) ==
    /\ Moves /\ w \in member /\ to # truth[w]
    /\ truth[w].profile => to.profile
    /\ truth' = [truth EXCEPT ![w] = to]
    /\ UNCHANGED <<page, store, cookie, member, asked, step, done>>

Joined(op) == member \cup (CASE op = "register" -> {Own} [] op = "invite" -> {Theirs} [] OTHER -> {})

\* A session is given in a workspace the account belongs to, the form kept while unlocked
Granted(op, w) ==
    CASE op = "login" -> w \in member
      [] op = "register" -> w = Own /\ Own \notin member
      [] op = "invite" -> w = Theirs /\ Theirs \notin member
      [] op = "refresh" -> w = cookie /\ cookie # None
      [] op = "switch" -> w = asked[op].got.org /\ w \in member /\ cookie # None
      [] op = "profile" -> w = asked[op].got.org /\ cookie # None /\ ~truth[w].locked
      [] op = "overview" -> w = asked[op].got.org /\ cookie # None
      [] OTHER -> w = None

Brought(w) == IF w = None THEN Guest ELSE Session(w)

Serve(op, w) ==
    /\ asked[op].pc = "sent" /\ Granted(op, w)
    /\ member' = Joined(op)
    /\ truth' = IF op = "profile" THEN [truth EXCEPT ![w].profile = TRUE] ELSE truth
    /\ cookie' = CASE op \in SignIns \cup {"switch"} -> w
                   [] op \in {"reset", "logout"} -> None
                   [] OTHER -> cookie
    /\ asked' = [asked EXCEPT ![op] = [pc |-> "done", got |-> Brought(w)]]
    /\ UNCHANGED <<page, store, step, done, moves>>

-----------------------------------------------------------------------------
\* The answers
GotSession(op) ==
    /\ op \in SignIns \cup {"refresh", "switch"}
    /\ store' = asked[op].got
    /\ IF op \in SignIns
       THEN To(IF op = "register" THEN "onboarding" ELSE Home(store'.profile))
       ELSE UNCHANGED <<page, step, done>>

\* markProfileComplete marks the workspace the store has by now
GotProfile ==
    /\ store' = IF store.org = None THEN store ELSE [store EXCEPT !.profile = TRUE]
    /\ To("app")

OverviewKept == [store EXCEPT !.locked = IF Authed THEN asked["overview"].got.locked ELSE @]

GotOverview ==
    /\ store' = OverviewKept
    /\ UNCHANGED <<page, step, done>>

LoggedOut == store' = Guest /\ To("login")

Confirmed(op) ==
    /\ done' = (done \/ page = op)
    /\ UNCHANGED <<page, store, step>>

Arrive(op) ==
    /\ asked[op].pc = "done"
    /\ \/ GotSession(op)
       \/ op = "profile" /\ GotProfile
       \/ op = "overview" /\ GotOverview
       \/ op = "logout" /\ LoggedOut
       \/ op \in {"forgot", "reset"} /\ Confirmed(op)
    /\ asked' = [asked EXCEPT ![op] = NoRequest]
    /\ UNCHANGED <<cookie, member, truth, moves>>

\* No answer, or a refusal: a note on the page.  A refresh that gets none ends the session
\* here, and so does a call that finds no session and may not refresh.
Unanswered(op) ==
    /\ asked' = [asked EXCEPT ![op] = NoRequest]
    /\ store' = IF \/ op = "refresh"
                   \/ op \in {"profile", "switch", "overview"} /\ cookie = None
                THEN Guest ELSE store
    /\ UNCHANGED <<page, cookie, member, truth, step, done>>

Fail(op) == Moves /\ asked[op].pc # "none" /\ Unanswered(op)

Refused(op) ==
    /\ asked[op].pc = "sent" /\ ~\E w \in Workspaces \cup {None} : Granted(op, w)
    /\ Unanswered(op) /\ UNCHANGED moves

Next ==
    \/ Redirect \/ TryAnother \/ Continue \/ Back \/ Finish \/ SignOut \/ Restore \/ Renew
    \/ AskOverview
    \/ \E p \in Pages : Follow(p) \/ Open(p) \/ Submit(p)
    \/ \E w \in Workspaces : SwitchOrg(w)
    \/ \E w \in Workspaces, to \in [profile : BOOLEAN, locked : BOOLEAN] : WorldChanges(w, to)
    \/ \E op \in Ops : \/ Arrive(op) \/ Fail(op) \/ Refused(op)
                       \/ \E w \in Workspaces \cup {None} : Serve(op, w)

\* Effects run, requests are answered; the person fills the onboarding form in and
\* the billing page keeps its overview fresh.
Goes == Redirect \/ Continue \/ Restore
Answered == \E op \in Ops : Arrive(op) \/ Refused(op) \/ \E w \in Workspaces \cup {None} : Serve(op, w)

Spec ==
    /\ Init /\ [][Next]_vars
    /\ WF_vars(Goes) /\ WF_vars(Answered) /\ WF_vars(Finish) /\ WF_vars(AskOverview)

-----------------------------------------------------------------------------
\* Onboarding and the layout send to each other's pages (their effects), and both go by what
\* the store heard last.  A person whose workspace may be written, and whose session lasts,
\* waits at the landing page, at the onboarding form or at the billing page while the store
\* still sends them back there.
Waiting ==
    /\ Authed /\ cookie = store.org /\ ~truth[store.org].locked
    /\ page \in {"landing", "onboarding", "billing"} /\ ~store.profile

\* Wherever a person comes in and whatever answer arrives, the redirects come to rest, and
\* who pays at the billing page or fills in the form is let on.
ComesToRest == []<>(~Due /\ ~Waiting)
=============================================================================
