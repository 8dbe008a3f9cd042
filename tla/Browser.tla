------------------------------ MODULE Browser -------------------------------
(***************************************************************************)
(* The session as a browser keeps it: apps/web's api() with its one retry, *)
(* tryRefresh and its shared promise, the auth store, the workspace        *)
(* switcher and the sign-out button of the layout, and the cookie all tabs *)
(* share.  Of AuthService only the rotation and its alarm are kept, each   *)
(* handler in one step; Sessions has their interleavings.                  *)
(***************************************************************************)
EXTENDS Integers, Sequences, FiniteSets

CONSTANTS
    Tabs,
    Requests,       \* requests a tab may have under way
    Orgs,           \* the person's workspaces; the first session is in Home
    Home,
    MaxTokens,      \* bound: refresh tokens
    MaxExpiries     \* bound: access tokens that expire

VARIABLES
    token,      \* RefreshToken rows: workspace, family, revoked
    jar,        \* the cookie
    tab,        \* status, workspace of the access token, whether it is still good
    refresh,    \* refreshPromise of each tab: token sent, token answered
    call,       \* requests of api(): token used, its workspace, whether it is the retry
    leave,      \* a sign-out under way, with the cookie it was sent with
    expiries,
    out,        \* ghost: somebody pressed "Sign out"
    lost,       \* ghost: a refresh or its answer was lost
    alarm       \* ghost: the reuse alarm has gone off

vars == <<token, jar, tab, refresh, call, leave, expiries, out, lost, alarm>>

NoRefresh == [pc |-> "none", sent |-> 0, got |-> 0]
NoCall == [pc |-> "idle", org |-> 0, good |-> FALSE, retry |-> FALSE, to |-> 0]

Init ==
    /\ token = <<[org |-> Home, family |-> 1, revoked |-> FALSE]>>
    /\ jar = 1
    /\ tab = [t \in Tabs |-> [status |-> "loading", org |-> 0, good |-> FALSE]]
    /\ refresh = [t \in Tabs |-> NoRefresh]
    /\ call = [t \in Tabs |-> [c \in Requests |-> NoCall]]
    /\ leave = [t \in Tabs |-> 0]
    /\ expiries = 0 /\ out = FALSE /\ lost = FALSE /\ alarm = FALSE

Set(t, c, x) == call' = [call EXCEPT ![t][c] = x]

\* refreshPromise ??= : a refresh under way is shared
AskedAgain(t) == [refresh EXCEPT ![t] = [pc |-> "sent", sent |-> jar, got |-> 0]]
Asked(t) == IF refresh[t].pc = "none" THEN AskedAgain(t) ELSE refresh

\* Providers, on load
Load(t) ==
    /\ tab[t].status = "loading"
    /\ refresh[t].pc = "none"
    /\ refresh' = Asked(t)
    /\ UNCHANGED <<token, jar, tab, call, leave, expiries, out, lost, alarm>>

\* a page's request, or the switcher's when "to" names a workspace
Send(t, c, to) ==
    /\ tab[t].status = "authed" /\ call[t][c] = NoCall
    /\ to # tab[t].org
    /\ Set(t, c, [pc |-> "sent", org |-> tab[t].org, good |-> tab[t].good, retry |-> FALSE, to |-> to])
    /\ UNCHANGED <<token, jar, tab, refresh, leave, expiries, out, lost, alarm>>

\* an access token lives for fifteen minutes, whatever becomes of the session
Expires(t) ==
    /\ tab[t].good /\ expiries < MaxExpiries
    /\ expiries' = expiries + 1
    /\ tab' = [tab EXCEPT ![t].good = FALSE]
    /\ call' = [call EXCEPT ![t] = [c \in Requests |-> [call[t][c] EXCEPT !.good = FALSE]]]
    /\ UNCHANGED <<token, jar, refresh, leave, out, lost, alarm>>

\* served: an ordinary answer, or a session of a family of its own
Served(t, c) ==
    LET x == call[t][c]
    IN  /\ x.pc = "sent" /\ x.good
        /\ Set(t, c, NoCall)
        /\ IF x.to = 0 THEN UNCHANGED <<token, jar, tab>>
           ELSE /\ Len(token) < MaxTokens
                /\ token' = Append(token, [org |-> x.to, family |-> Len(token) + 1, revoked |-> FALSE])
                /\ jar' = Len(token) + 1
                /\ tab' = [tab EXCEPT ![t] = [status |-> "authed", org |-> x.to, good |-> TRUE]]
        /\ UNCHANGED <<refresh, leave, expiries, out, lost, alarm>>

\* 401: the retry's is an error, the first one's waits for a refresh
Rejected(t, c) ==
    LET x == call[t][c]
    IN  /\ x.pc = "sent" /\ ~x.good
        /\ IF x.retry THEN Set(t, c, NoCall) /\ UNCHANGED refresh
           ELSE /\ Set(t, c, [x EXCEPT !.pc = "wait"])
                /\ refresh' = Asked(t)
        /\ UNCHANGED <<token, jar, tab, leave, expiries, out, lost, alarm>>

\* AuthService.refresh: rotate, or revoke the family of a token used before
RefreshServed(t) ==
    LET sent == refresh[t].sent
    IN  /\ refresh[t].pc = "sent"
        /\ IF sent = 0
           THEN /\ refresh' = [refresh EXCEPT ![t].pc = "answered"]
                /\ UNCHANGED <<token, alarm>>
           ELSE IF token[sent].revoked
           THEN /\ token' = [k \in DOMAIN token |->
                    IF token[k].family = token[sent].family THEN [token[k] EXCEPT !.revoked = TRUE]
                    ELSE token[k]]
                /\ alarm' = TRUE
                /\ refresh' = [refresh EXCEPT ![t].pc = "answered"]
           ELSE /\ Len(token) < MaxTokens
                /\ token' = Append([token EXCEPT ![sent].revoked = TRUE],
                                   [token[sent] EXCEPT !.revoked = FALSE])
                /\ refresh' = [refresh EXCEPT ![t].pc = "answered", ![t].got = Len(token) + 1]
                /\ UNCHANGED alarm
        /\ UNCHANGED <<jar, tab, call, leave, expiries, out, lost>>

\* a request held back by the refresh is sent again, once, with the new token
Resent(request) == [request EXCEPT !.pc = "sent", !.good = TRUE, !.retry = TRUE]

\* all that waited go on: with the new session, or by clearing the store
RefreshArrives(t, got) ==
    /\ refresh' = [refresh EXCEPT ![t] = NoRefresh]
    /\ LET waits(c) == call[t][c].pc = "wait"
       IN  IF got # 0
           THEN /\ jar' = got
                /\ tab' = [tab EXCEPT ![t] = [status |-> "authed", org |-> token[got].org, good |-> TRUE]]
                /\ call' = [call EXCEPT ![t] = [c \in Requests |->
                      IF waits(c) THEN Resent(call[t][c]) ELSE call[t][c]]]
           ELSE /\ tab' = IF tab[t].status = "loading" \/ \E c \in Requests : waits(c)
                          THEN [tab EXCEPT ![t] = [status |-> "guest", org |-> 0, good |-> FALSE]]
                          ELSE tab
                /\ call' = [call EXCEPT ![t] = [c \in Requests |->
                      IF waits(c) THEN NoCall ELSE call[t][c]]]
                /\ UNCHANGED jar
    /\ UNCHANGED <<token, leave, expiries, out, alarm>>

RefreshEnds(t) ==
    \/ refresh[t].pc = "answered" /\ RefreshArrives(t, refresh[t].got) /\ UNCHANGED lost
    \/ refresh[t].pc # "none" /\ RefreshArrives(t, 0) /\ lost' = TRUE

\* the sign-out button: revokes the cookie's token if it is not revoked yet
SignOut(t) ==
    /\ tab[t].status = "authed" /\ leave[t] = 0 /\ jar # 0
    /\ leave' = [leave EXCEPT ![t] = jar]
    /\ out' = TRUE
    /\ UNCHANGED <<token, jar, tab, refresh, call, expiries, lost, alarm>>

SignedOut(t) ==
    /\ leave[t] # 0
    /\ token' = [token EXCEPT ![leave[t]].revoked = TRUE]
    /\ jar' = 0
    /\ tab' = [tab EXCEPT ![t] = [status |-> "guest", org |-> 0, good |-> FALSE]]
    /\ leave' = [leave EXCEPT ![t] = 0]
    /\ UNCHANGED <<refresh, call, expiries, out, lost, alarm>>

Next ==
    \E t \in Tabs :
        \/ Load(t) \/ Expires(t) \/ RefreshServed(t) \/ RefreshEnds(t)
        \/ SignOut(t) \/ SignedOut(t)
        \/ \E c \in Requests : \/ Served(t, c) \/ Rejected(t, c)
                               \/ \E to \in Orgs \cup {0} : Send(t, c, to)

Spec == Init /\ [][Next]_vars

-----------------------------------------------------------------------------
\* Rotation with reuse detection does not turn on the person it protects
\* (tryRefresh, AuthService.refresh): a browser with one tab open is signed out
\* by nothing but "Sign out" and a lost answer, however many requests find
\* their token expired at once and whichever workspace is switched to meanwhile.
OneTabStaysSignedIn ==
    ~out /\ ~lost => ~alarm /\ \A t \in Tabs : tab[t].status # "guest"
=============================================================================
