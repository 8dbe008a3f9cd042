---------------------------- MODULE TokenRefresh ----------------------------
(***************************************************************************)
(* The hourly sweep that keeps expiring connections alive                  *)
(* (tasks/token_refresh.py), under once_per_tick (periodic_lock.py), with  *)
(* the people who reconnect or revoke and the publish task that blames a   *)
(* channel or clears it.                                                   *)
(*                                                                         *)
(* Connections whose token has no expiry are never selected and are left   *)
(* out.  A platform's answer is external: it takes a token it issued and   *)
(* may replace it.  One unit of the clock is the interval of the sweep.    *)
(***************************************************************************)
EXTENDS Integers, FiniteSets

CONSTANTS
    Channels,
    Sweeps,         \* worker slots
    Window, Batch,  \* REFRESH_WINDOW, BATCH
    Life,           \* how long a new access token lives
    Jitter,         \* MAX_JITTER_SECONDS
    MaxTime,        \* bound: the clock
    MaxFaults       \* bound: what people, platforms and crashes do

VARIABLES
    row,        \* SocialConnection: status, credentials as a token, expiresAt
    valid,      \* the tokens each platform takes
    sweep,      \* per slot: where it is, when it began, the rows it has yet to deal with, its answer
    ticked,     \* the key of this interval's sweep is set in Redis
    clock,
    faults,
    spoiled     \* connections hit by a crash, a lost answer or two writers at once

vars == <<row, valid, sweep, ticked, clock, faults, spoiled>>

\* what a refresher goes by; LinkedIn has none, and another platform may have given none
First == [grant |-> 0, gen |-> 0]
NoToken == [First EXCEPT !.gen = -1]
NoAnswer == [outcome |-> "none", token |-> First, expires |-> 0]
Off == [pc |-> "off", now |-> 0, read |-> <<>>, got |-> NoAnswer]

Init ==
    /\ row \in [Channels -> [status : {"ACTIVE"}, token : {First, NoToken}, expires : 1..Life]]
    /\ valid = [c \in Channels |-> {row[c].token}]
    /\ sweep = [s \in Sweeps |-> Off]
    /\ ticked = FALSE /\ clock = 0 /\ faults = 0 /\ spoiled = {}

Fault == faults < MaxFaults /\ faults' = faults + 1

\* Connections a sweep has read and not yet written
Held == UNION {DOMAIN sweep[s].read : s \in Sweeps}

-----------------------------------------------------------------------------
\* _due: inside the window and not yet given up, the earliest first, BATCH at most
SweptIfActive == {"ACTIVE"}
Swept == {"ACTIVE", "EXPIRING_SOON"}

Due == {c \in Channels : row[c].expires <= clock + Window /\ row[c].status \in Swept}

Batches == {B \in SUBSET Due :
    /\ Cardinality(B) = (IF Cardinality(Due) < Batch THEN Cardinality(Due) ELSE Batch)
    /\ \A b \in B, c \in Due \ B : row[b].expires <= row[c].expires}

\* The beat of any scheduler, taken by a free worker; the first to set the key runs, and
\* all do without Redis
Idle == {s \in Sweeps : sweep[s] = Off}

Fire(s) ==
    /\ Idle # {} /\ s = (CHOOSE t \in Idle : TRUE) /\ Due # {}
    /\ \/ ~ticked /\ UNCHANGED faults
       \/ ticked /\ Fault
    /\ ticked' = TRUE
    /\ \E B \in Batches :
         /\ sweep' = [sweep EXCEPT ![s] =
              [Off EXCEPT !.pc = "call", !.now = clock, !.read = [c \in B |-> row[c]]]]
         /\ spoiled' = spoiled \cup (B \cap Held)
    /\ UNCHANGED <<row, valid, clock>>

\* The one that is dealt with next, of those that expire first whichever the query gave first
At(s) == CHOOSE c \in DOMAIN sweep[s].read :
    \A d \in DOMAIN sweep[s].read : sweep[s].read[c].expires <= sweep[s].read[d].expires

Got(s, outcome, token) ==
    \E j \in 0..Jitter :
        /\ outcome # "refreshed" => j = 0
        /\ sweep' = [sweep EXCEPT ![s].pc = "save",
             ![s].got = [outcome |-> outcome, token |-> token,
                         expires |-> IF Life > j THEN sweep[s].now + Life - j ELSE sweep[s].now + 1]]

\* what is stored of the answer: "including a rotated refresh token"
Rotated(old, new) == new

\* The platform is asked with the credentials that were read
Call(s) ==
    LET c == At(s)
        old == sweep[s].read[c].token
        new == [old EXCEPT !.gen = @ + 1]
        Replaced == [valid EXCEPT ![c] = (@ \ {old}) \cup {new}]
    IN  /\ sweep[s].pc = "call"
        /\ \/ /\ old.gen = -1 /\ Got(s, "unsupported", old)
              /\ UNCHANGED <<valid, faults, spoiled>>
           \/ /\ old.gen # -1 /\ old \notin valid[c] /\ Got(s, "revoked", old)
              /\ UNCHANGED <<valid, faults, spoiled>>
           \* some platforms return a new refresh token, some the one they were given
           \/ /\ old.gen # -1 /\ old \in valid[c]
              /\ \/ /\ valid' = Replaced
                    /\ Got(s, "refreshed", Rotated(old, new))
                 \/ valid' = valid /\ Got(s, "refreshed", old)
              /\ UNCHANGED <<faults, spoiled>>
           \* unreachable, 5xx, the soft time limit, credentials that do not decrypt ...
           \/ /\ Fault /\ \E e \in {"failed", "undecryptable"} : Got(s, e, old)
              /\ UNCHANGED <<valid, spoiled>>
           \* ... a 4xx without a token, whatever its cause, counts as a revoked grant ...
           \/ /\ Fault /\ old.gen # -1 /\ old \in valid[c] /\ Got(s, "revoked", old)
              /\ UNCHANGED <<valid, spoiled>>
           \* ... or the answer is lost after the platform has replaced the token
           \/ /\ Fault /\ old.gen # -1 /\ old \in valid[c] /\ Got(s, "failed", old)
              /\ valid' = Replaced
              /\ spoiled' = spoiled \cup {c}
        /\ UNCHANGED <<row, ticked, clock>>

Status(s) ==
    LET lapsed == sweep[s].read[At(s)].expires <= sweep[s].now
    IN  CASE sweep[s].got.outcome = "refreshed" -> "ACTIVE"
          [] sweep[s].got.outcome = "revoked" -> "REVOKED"
          [] sweep[s].got.outcome = "undecryptable" -> "ERROR"
          [] OTHER -> IF lapsed THEN "EXPIRED" ELSE "EXPIRING_SOON"

\* _save writes by id, whatever the row says by now
Save(s) ==
    LET c == At(s)
        rest == DOMAIN sweep[s].read \ {c}
        ok == sweep[s].got.outcome = "refreshed"
    IN  /\ sweep[s].pc = "save"
        /\ row' = [row EXCEPT ![c] =
             [status |-> Status(s),
              token |-> IF ok THEN sweep[s].got.token ELSE @.token,
              expires |-> IF ok THEN sweep[s].got.expires ELSE @.expires]]
        /\ sweep' = [sweep EXCEPT ![s] =
             IF rest = {} THEN Off
             ELSE [@ EXCEPT !.pc = "call", !.got = NoAnswer,
                            !.read = [d \in rest |-> sweep[s].read[d]]]]
        /\ UNCHANGED <<valid, ticked, clock, faults, spoiled>>

\* The worker dies, or is killed at its hard limit; redelivered, it finds the key set
Die(s) ==
    /\ sweep[s] # Off /\ Fault
    /\ spoiled' = IF sweep[s].got.outcome = "refreshed" THEN spoiled \cup {At(s)} ELSE spoiled
    /\ sweep' = [sweep EXCEPT ![s] = Off]
    /\ UNCHANGED <<row, valid, ticked, clock>>

-----------------------------------------------------------------------------
\* upsertConnection of an existing row: a new grant beside the old one
Reconnect(c) ==
    LET new == [row[c].token EXCEPT !.grant = @ + 1, !.gen = IF @ = -1 THEN -1 ELSE 0]
    IN  /\ Fault
        /\ row' = [row EXCEPT ![c] = [status |-> "ACTIVE", token |-> new, expires |-> clock + Life]]
        /\ valid' = [valid EXCEPT ![c] = @ \cup {new}]
        /\ spoiled' = spoiled \cup ({c} \cap Held)
        /\ UNCHANGED <<sweep, ticked, clock>>

\* the account's owner withdraws the permission at the platform
Withdraw(c) ==
    /\ Fault /\ valid[c] # {}
    /\ valid' = [valid EXCEPT ![c] = {}]
    /\ UNCHANGED <<row, sweep, ticked, clock, spoiled>>

\* the publish task: a failure that blames the channel, by id; a success lifts ERROR
Blame(c) ==
    /\ Fault /\ row[c].status # "ERROR"
    /\ row' = [row EXCEPT ![c].status = "ERROR"]
    /\ UNCHANGED <<valid, sweep, ticked, clock, spoiled>>

Publishes(c) ==
    /\ row[c].status = "ERROR" /\ row[c].expires > clock
    /\ row' = [row EXCEPT ![c].status = "ACTIVE"]
    /\ UNCHANGED <<valid, sweep, ticked, clock, faults, spoiled>>

\* an hour passes and the key runs out, just before the next beat
Tick ==
    /\ clock' = IF clock < MaxTime THEN clock + 1 ELSE clock
    /\ ticked' = FALSE /\ <<clock', ticked'>> # <<clock, ticked>>
    /\ UNCHANGED <<row, valid, sweep, faults, spoiled>>

Next ==
    \/ \E s \in Sweeps : Fire(s) \/ Call(s) \/ Save(s) \/ Die(s)
    \/ \E c \in Channels : Reconnect(c) \/ Withdraw(c) \/ Blame(c) \/ Publishes(c)
    \/ Tick

\* beats fire, and a worker goes on with its sweep
Spec ==
    /\ Init /\ [][Next]_vars /\ WF_vars(Tick)
    /\ WF_vars(\E s \in Sweeps : Fire(s)) /\ \A s \in Sweeps : WF_vars(Call(s) \/ Save(s))

-----------------------------------------------------------------------------
\* "TikTok rotates the refresh token on every use", and "dropping it bricks the connection
\* on the next cycle": while the platform takes any token of the connection, the stored one
\* is taken, unless a crash, a lost answer or a second writer fell between call and save.
StoredTokenIsTaken ==
    \A c \in Channels \ spoiled :
        \/ valid[c] = {} \/ row[c].token \in valid[c]
        \/ \E s \in Sweeps : sweep[s].pc = "save" /\ At(s) = c

\* "Every TikTok connection stopped working a day after it was made while the Connections
\* page still showed ACTIVE" (token_refresh.py:3-6): whatever fails, a connection whose token
\* has lapsed is renewed or shown as what it is.
LapsedIsShown ==
    \A c \in Channels : []<>~(row[c].status \in {"ACTIVE", "EXPIRING_SOON"} /\ row[c].expires <= clock)
=============================================================================
