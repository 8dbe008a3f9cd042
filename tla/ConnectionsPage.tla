-------------------------- MODULE ConnectionsPage --------------------------
(***************************************************************************)
(* The Connections page: the list, the two forms that take a bot token,    *)
(* and the buttons that leave for a platform's sign-in, over the           *)
(* endpoints of module Connections.                                        *)
(*                                                                         *)
(* The forms share one set of fields, and botToken is a key of both.  A    *)
(* value is known by the form it was typed into.                           *)
(***************************************************************************)
EXTENDS Integers, FiniteSets

CONSTANTS
    Kinds,          \* "telegram", "discord"
    Buttons,        \* OAuth providers
    MaxRequests     \* bound

VARIABLES
    stored,     \* SocialConnection rows, by what they connect
    shown,      \* the list as the page last got it
    stale,      \* it is to be fetched again
    openForm, fields, error,
    connecting, \* connectMutation
    removing,   \* removeMutation, of each row: "no", "sent" or "done"
    leaving,    \* authorize links being asked for
    away,       \* the browser follows one
    requests

vars == <<stored, shown, stale, openForm, fields, error, connecting, removing, leaving, away,
          requests>>

Null == "null"
Empty == [botToken |-> Null, place |-> Null]
Idle == [pc |-> "idle", kind |-> Null, body |-> Empty]
Rows == Kinds \cup Buttons

Init ==
    /\ stored = {} /\ shown = {} /\ stale = FALSE
    /\ openForm = Null /\ fields = Empty /\ error = FALSE
    /\ connecting = Idle
    /\ removing = [r \in Rows |-> "no"]
    /\ leaving = {} /\ away = FALSE /\ requests = 0

Refetch ==
    /\ stale /\ ~away
    /\ shown' = stored /\ stale' = FALSE
    /\ UNCHANGED <<stored, openForm, fields, error, connecting, removing, leaving, away, requests>>

-----------------------------------------------------------------------------
FieldsCleared == Empty

\* "Connect" and "Close": another form may be open, and a connect on its way
ToggleForm(kind) ==
    /\ ~away
    /\ openForm' = IF openForm = kind THEN Null ELSE kind
    /\ fields' = FieldsCleared /\ error' = FALSE
    /\ UNCHANGED <<stored, shown, stale, connecting, removing, leaving, away, requests>>

Type(key) ==
    /\ openForm # Null /\ ~away
    /\ fields' = [fields EXCEPT ![key] = openForm]
    /\ UNCHANGED <<stored, shown, stale, openForm, error, connecting, removing, leaving, away,
                   requests>>

\* both inputs are required; the button is disabled while a connect is on its way
Submit ==
    /\ openForm # Null /\ ~away /\ connecting = Idle /\ requests < MaxRequests
    /\ \A key \in DOMAIN fields : fields[key] # Null
    /\ connecting' = [pc |-> "sent", kind |-> openForm, body |-> fields]
    /\ requests' = requests + 1
    /\ UNCHANGED <<stored, shown, stale, openForm, fields, error, removing, leaving, away>>

\* connectTelegram, connectDiscord: validated, then upserted
Store ==
    /\ connecting.pc = "sent"
    /\ stored' = stored \cup {connecting.kind}
    /\ connecting' = [connecting EXCEPT !.pc = "stored"]
    /\ UNCHANGED <<shown, stale, openForm, fields, error, removing, leaving, away, requests>>

\* closes whichever form is open by now
Connected ==
    /\ connecting.pc = "stored" /\ ~away
    /\ connecting' = Idle /\ stale' = TRUE
    /\ openForm' = Null /\ fields' = Empty /\ error' = FALSE
    /\ UNCHANGED <<stored, shown, removing, leaving, away, requests>>

\* the token was refused, the plan is full, or the answer was lost
ConnectFails ==
    /\ connecting # Idle /\ ~away
    /\ connecting' = Idle /\ error' = TRUE
    /\ UNCHANGED <<stored, shown, stale, openForm, fields, removing, leaving, away, requests>>

-----------------------------------------------------------------------------
\* The bin: pressed without a question, and as often as one likes
Disconnect(r) ==
    /\ r \in shown /\ ~away /\ requests < MaxRequests
    /\ removing' = [removing EXCEPT ![r] = "sent"] /\ requests' = requests + 1
    /\ UNCHANGED <<stored, shown, stale, openForm, fields, error, connecting, leaving, away>>

Remove(r) ==
    /\ removing[r] = "sent"
    /\ stored' = stored \ {r} /\ removing' = [removing EXCEPT ![r] = "done"]
    /\ UNCHANGED <<shown, stale, openForm, fields, error, connecting, leaving, away, requests>>

Removed(r) ==
    /\ removing[r] = "done" /\ ~away
    /\ removing' = [removing EXCEPT ![r] = "no"] /\ stale' = TRUE
    /\ UNCHANGED <<stored, shown, openForm, fields, error, connecting, leaving, away, requests>>

\* there is no onError: nothing on the page says so
RemoveFails(r) ==
    /\ removing[r] # "no" /\ ~away
    /\ removing' = [removing EXCEPT ![r] = "no"]
    /\ UNCHANGED <<stored, shown, stale, openForm, fields, error, connecting, leaving, away,
                   requests>>

-----------------------------------------------------------------------------
\* connectMeta and its five brothers
Authorize(b) ==
    /\ b \notin leaving /\ ~away /\ requests < MaxRequests
    /\ leaving' = leaving \cup {b} /\ requests' = requests + 1
    /\ UNCHANGED <<stored, shown, stale, openForm, fields, error, connecting, removing, away>>

AuthorizeFails(b) ==
    /\ b \in leaving /\ ~away
    /\ leaving' = leaving \ {b} /\ error' = TRUE
    /\ UNCHANGED <<stored, shown, stale, openForm, fields, connecting, removing, away, requests>>

\* window.location: the page goes, what it sent does not
Leave(b) ==
    /\ b \in leaving /\ ~away
    /\ away' = TRUE /\ leaving' = {b}
    /\ UNCHANGED <<stored, shown, stale, openForm, fields, error, connecting, removing, requests>>

\* back with connected, or with error: a page loaded anew
Return(b) ==
    /\ away /\ b \in leaving
    /\ stored' \in {stored, stored \cup {b}} /\ shown' = stored'
    /\ stale' = FALSE /\ openForm' = Null /\ fields' = Empty /\ error' = FALSE
    /\ connecting' = Idle /\ removing' = [r \in Rows |-> "no"]
    /\ leaving' = {} /\ away' = FALSE
    /\ UNCHANGED requests

Next ==
    \/ Refetch \/ Submit \/ Store \/ Connected \/ ConnectFails
    \/ \E kind \in Kinds : ToggleForm(kind)
    \/ \E key \in DOMAIN Empty : Type(key)
    \/ \E r \in Rows : Disconnect(r) \/ Remove(r) \/ Removed(r) \/ RemoveFails(r)
    \/ \E b \in Buttons : Authorize(b) \/ AuthorizeFails(b) \/ Leave(b) \/ Return(b)

Spec == Init /\ [][Next]_vars

-----------------------------------------------------------------------------
\* A bot token typed for one platform is never sent to the other's endpoint, and none
\* stays in the page once its form is closed, whichever form was open when an answer
\* came (botToken is a key of both forms).
TokenStaysInItsForm ==
    /\ connecting # Idle => \A key \in DOMAIN Empty : connecting.body[key] = connecting.kind
    /\ \A key \in DOMAIN Empty : fields[key] \in {Null, openForm}
=============================================================================
