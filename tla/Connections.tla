---------------------------- MODULE Connections ----------------------------
(***************************************************************************)
(* Connecting channels to one workspace (apps/api/src/connections): the    *)
(* OAuth 2.0 flows with their single-use state, X's OAuth 1.0a, and the    *)
(* credentials that are pasted in.                                         *)
(*                                                                         *)
(* A step is one statement, one Redis command or one call to a platform.   *)
(* A state's signature and a wrong nonce are refused without a write, so   *)
(* they are guards here.  Names, tokens and error texts are left out.      *)
(***************************************************************************)
EXTENDS Integers, Sequences, FiniteSets

CONSTANTS
    Tasks,          \* requests being served at the same time
    Browsers,
    Providers,      \* of "reddit", "linkedin", "tiktok", "instagram", "meta", "x"
    Direct,         \* of "telegram", "discord", "x"
    Accounts,       \* what can be connected: pages, profiles, chats
    Limit,          \* connections of the workspace's plan
    MaxFlows,       \* bound: authorizations ever begun
    MaxRows,        \* bound: channels ever created
    MaxChanges      \* bound: removals and changes of the person's role

VARIABLES
    admin,      \* whether the person who connects is OWNER or ADMIN
    changes,    \* how many removals and changes of role there were
    flow,       \* authorizations in order: provider and the browser that began it
    kept,       \* those whose Redis record is still there
    cookie,     \* per browser and provider: the flow whose nonce it holds
    channel,    \* SocialConnection rows in order of creation
    task,       \* requests in flight
    traded      \* ghost: how often each flow's code was exchanged

vars == <<admin, changes, flow, kept, cookie, channel, task, traded>>

Idle == [pc |-> "idle", flow |-> 0, browser |-> "none", platform |-> "none",
         todo |-> {}, account |-> "none", row |-> 0]

Init ==
    /\ admin = TRUE /\ changes = 0
    /\ flow = <<>> /\ kept = {} /\ channel = <<>> /\ traded = <<>>
    /\ cookie = [b \in Browsers |-> [p \in Providers |-> 0]]
    /\ task = [t \in Tasks |-> Idle]

Flows == 1..Len(flow)
Rows == {i \in 1..Len(channel) : channel[i].live}
Goto(t, pc) == task' = [task EXCEPT ![t].pc = pc]

\* the redirect to the page; it also carries the cleared cookie
Respond(t) ==
    /\ task' = [task EXCEPT ![t] = Idle]
    /\ cookie' = IF task[t].flow # 0 /\ task[t].platform # "x"
                 THEN [cookie EXCEPT ![task[t].browser][task[t].platform] = 0] ELSE cookie

-----------------------------------------------------------------------------
(* What a platform must answer for its account to be usable *)

TelegramNeeds == {"bot", "chat", "not the bot itself", "bot is admin"}
DiscordNeeds == {"bot", "channel"}
PastedXNeeds == {"app keys", "account"}
RedditNeeds == {"token", "refresh token", "name"}
LinkedInNeeds == {"token", "profile"}
TikTokNeeds == {"token", "profile"}
InstagramNeeds == {"token", "long-lived token", "profile"}
MetaNeeds == {"token", "long-lived token", "pages"}
XNeeds == {"app keys", "token", "secret"}

NeedsOf == [reddit |-> RedditNeeds, linkedin |-> LinkedInNeeds, tiktok |-> TikTokNeeds,
            instagram |-> InstagramNeeds, meta |-> MetaNeeds, x |-> XNeeds]
DirectNeeds == [telegram |-> TelegramNeeds, discord |-> DiscordNeeds, x |-> PastedXNeeds]

\* everything that is needed, or all but one
Answers(needs) == {needs} \cup {needs \ {n} : n \in needs}

\* a login yields one account; Facebook's yields the pages the person chose, or none
Connectable(p) == IF p = "meta" THEN SUBSET Accounts ELSE {{a} : a \in Accounts}

-----------------------------------------------------------------------------
(* OAuth 2.0 *)

\* issue: the record first, then the cookie, which replaces an older nonce
Issue(b, p) ==
    /\ p # "x" /\ admin /\ Len(flow) < MaxFlows
    /\ flow' = Append(flow, [provider |-> p, browser |-> b])
    /\ kept' = kept \cup {Len(flow) + 1}
    /\ traded' = Append(traded, 0)
    /\ cookie' = [cookie EXCEPT ![b][p] = Len(flow) + 1]
    /\ UNCHANGED <<admin, changes, channel, task>>

\* a browser comes back with a state; the provider and the nonce must be the flow's
Callback(t, f, b) ==
    LET p == flow[f].provider IN
    /\ task[t] = Idle /\ p # "x" /\ cookie[b][p] = f
    /\ task' = [task EXCEPT ![t] = [Idle EXCEPT !.pc = "take", !.flow = f,
                                                !.browser = b, !.platform = p]]
    /\ UNCHANGED <<admin, changes, flow, kept, cookie, channel, traded>>

\* GETDEL: the record is read and gone in one command
TakenAndLeft(f) == kept
Taken(f) == kept \ {f}

Take(t) ==
    /\ task[t].pc = "take"
    /\ kept' = Taken(task[t].flow)
    /\ IF task[t].flow \in kept THEN Goto(t, "member") /\ UNCHANGED cookie ELSE Respond(t)
    /\ UNCHANGED <<admin, changes, flow, channel, traded>>

\* beginCallback: who began the flow may have been demoted or removed since
CheckMember(t) ==
    /\ task[t].pc = "member"
    /\ IF admin THEN Goto(t, "trade") /\ UNCHANGED cookie ELSE Respond(t)
    /\ UNCHANGED <<admin, changes, flow, kept, channel, traded>>

Trade(t) ==
    /\ task[t].pc = "trade"
    /\ \E got \in Answers(NeedsOf[task[t].platform]), all \in Connectable(task[t].platform) :
         IF NeedsOf[task[t].platform] \subseteq got /\ all # {}
         THEN task' = [task EXCEPT ![t].pc = "find", ![t].todo = all] /\ UNCHANGED cookie
         ELSE Respond(t)
    /\ traded' = [traded EXCEPT ![task[t].flow] = @ + 1]
    /\ UNCHANGED <<admin, changes, flow, kept, channel>>

\* ten minutes: the record, the state and the cookie end together
Expire(f) ==
    /\ f \in kept
    /\ kept' = kept \ {f}
    /\ UNCHANGED <<admin, changes, flow, cookie, channel, task, traded>>

-----------------------------------------------------------------------------
(* X: the pair is read and deleted in two commands, and nobody is asked *)

XAuthorize(b) ==
    /\ "x" \in Providers /\ admin /\ Len(flow) < MaxFlows
    /\ flow' = Append(flow, [provider |-> "x", browser |-> b])
    /\ kept' = kept \cup {Len(flow) + 1}
    /\ traded' = Append(traded, 0)
    /\ UNCHANGED <<admin, changes, cookie, channel, task>>

XCallback(t, f) ==
    /\ task[t] = Idle /\ flow[f].provider = "x" /\ f \in kept
    /\ task' = [task EXCEPT ![t] = [Idle EXCEPT !.pc = "forget", !.flow = f, !.platform = "x"]]
    /\ UNCHANGED <<admin, changes, flow, kept, cookie, channel, traded>>

XForget(t) ==
    /\ task[t].pc = "forget"
    /\ kept' = kept \ {task[t].flow}
    /\ Goto(t, "trade")
    /\ UNCHANGED <<admin, changes, flow, cookie, channel, traded>>

-----------------------------------------------------------------------------
(* Pasted credentials, and what all of them end in *)

Connect(t, p, a) ==
    /\ task[t] = Idle /\ admin
    /\ \E got \in Answers(DirectNeeds[p]) :
         /\ DirectNeeds[p] \subseteq got
         /\ task' = [task EXCEPT ![t] = [Idle EXCEPT !.pc = "find", !.platform = p, !.todo = {a}]]
    /\ UNCHANGED <<admin, changes, flow, kept, cookie, channel, traded>>

Matching(p, a) == {i \in Rows : channel[i].platform = p /\ channel[i].account = a}

Found(p, a) == IF Matching(p, a) = {} THEN {0} ELSE Matching(p, a)

Aiming(x, a, r) == [x EXCEPT !.pc = IF r = 0 THEN "limit" ELSE "update",
                             !.account = a, !.row = r, !.todo = @ \ {a}]

\* upsertConnection's findFirst; storeMetaPages goes on with the next page
Find(t) ==
    LET x == task[t] IN
    /\ x.pc = "find"
    /\ \E a \in x.todo :
         \E r \in Found(x.platform, a) :
            task' = [task EXCEPT ![t] = Aiming(x, a, r)]
    /\ UNCHANGED <<admin, changes, flow, kept, cookie, channel, traded>>

HasRoom(x) == Cardinality(Rows) < Limit

\* a page that does not fit ends the callback; the pages before it stay
AssertLimit(t) ==
    /\ task[t].pc = "limit"
    /\ IF HasRoom(task[t]) THEN Goto(t, "create") /\ UNCHANGED cookie ELSE Respond(t)
    /\ UNCHANGED <<admin, changes, flow, kept, channel, traded>>

Next1(t) == IF task[t].todo = {} THEN Respond(t) ELSE Goto(t, "find") /\ UNCHANGED cookie

Create(t) ==
    /\ task[t].pc = "create" /\ Len(channel) < MaxRows
    /\ channel' = Append(channel, [platform |-> task[t].platform, account |-> task[t].account,
                                   live |-> TRUE])
    /\ Next1(t)
    /\ UNCHANGED <<admin, changes, flow, kept, traded>>

\* the new tokens go into the row found, by id: one removed meanwhile fails the request
Update(t) ==
    /\ task[t].pc = "update"
    /\ IF task[t].row \in Rows THEN Next1(t) ELSE Respond(t)
    /\ UNCHANGED <<admin, changes, flow, kept, channel, traded>>

Remove(i) ==
    /\ admin /\ i \in Rows /\ changes < MaxChanges
    /\ changes' = changes + 1
    /\ channel' = [channel EXCEPT ![i].live = FALSE]
    /\ UNCHANGED <<admin, flow, kept, cookie, task, traded>>

-----------------------------------------------------------------------------
RoleChanges ==
    /\ changes < MaxChanges
    /\ admin' = ~admin /\ changes' = changes + 1
    /\ UNCHANGED <<flow, kept, cookie, channel, task, traded>>

Next ==
    \/ \E b \in Browsers, p \in Providers : Issue(b, p)
    \/ \E b \in Browsers : XAuthorize(b)
    \/ \E t \in Tasks :
         \/ \E f \in Flows, b \in Browsers : Callback(t, f, b)
         \/ \E f \in Flows : XCallback(t, f)
         \/ \E p \in Direct, a \in Accounts : Connect(t, p, a)
         \/ Take(t) \/ CheckMember(t) \/ Trade(t) \/ XForget(t)
         \/ Find(t) \/ AssertLimit(t) \/ Create(t) \/ Update(t)
    \/ \E f \in Flows : Expire(f)
    \/ \E i \in Rows : Remove(i)
    \/ RoleChanges

Spec == Init /\ [][Next]_vars

-----------------------------------------------------------------------------
\* An authorization works once: however often and from wherever its callback is
\* opened, its code is exchanged at most once (consume: "two concurrent callbacks
\* with the same state must not both read it as valid").
StateWorksOnce == \A f \in Flows : flow[f].provider # "x" => traded[f] <= 1
=============================================================================
