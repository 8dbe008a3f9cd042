---------------------------- MODULE MetaWebhooks ----------------------------
(***************************************************************************)
(* webhooks.controller.ts and webhooks.module.ts: Meta's deliveries, which *)
(* are stored once each.  Meta, and anybody else who posts here, is        *)
(* external: it repeats what was not answered, and sends anything.         *)
(***************************************************************************)
EXTENDS Integers, FiniteSets

CONSTANTS
    Tasks,      \* deliveries being served
    Events,     \* batches of entries
    Named,      \* those whose entries carry an id, and so have an external id
    Big,        \* those above MAX_BODY_BYTES
    Signed,     \* those signed with the app secret
    Declared,   \* those whose content-length says so
    MaxRows     \* bound: rows ever stored

VARIABLES
    task,       \* per delivery: where it is
    stored,     \* WebhookEvent rows per event
    answered    \* events Meta has had a 2xx for

vars == <<task, stored, answered>>

Idle == [pc |-> "idle", ev |-> "none"]
Init ==
    /\ task = [t \in Tasks |-> Idle]
    /\ stored = [e \in Events |-> 0]
    /\ answered = {}

Goto(t, pc) == task' = [task EXCEPT ![t].pc = pc]
End(t) == task' = [task EXCEPT ![t] = Idle]

\* WebhookBodyLimitMiddleware judges the declared length, before the body is read
Arrive(t, e) ==
    /\ task[t] = Idle
    /\ e \notin answered
    /\ ~(e \in Big /\ e \in Declared)
    /\ task' = [task EXCEPT ![t] = [pc |-> "verify", ev |-> e]]
    /\ UNCHANGED <<stored, answered>>

Valid(e) == e \in Signed

\* the size of what was read, then the signature; a refusal writes nothing
Verify(t) ==
    /\ task[t].pc = "verify"
    /\ IF task[t].ev \in Big \/ ~Valid(task[t].ev) THEN End(t) ELSE Goto(t, "find")
    /\ UNCHANGED <<stored, answered>>

Answer(t) == answered' = answered \cup {task[t].ev} /\ End(t)

Seen(e) == e \in Named /\ stored[e] > 0

FindFirst(t) ==
    /\ task[t].pc = "find"
    /\ IF Seen(task[t].ev) THEN Answer(t) ELSE Goto(t, "create") /\ UNCHANGED answered
    /\ UNCHANGED stored

Create(t) ==
    /\ task[t].pc = "create" /\ stored[task[t].ev] < MaxRows
    /\ stored' = [stored EXCEPT ![task[t].ev] = @ + 1]
    /\ Goto(t, "answer")
    /\ UNCHANGED answered

Reply(t) == task[t].pc = "answer" /\ Answer(t) /\ UNCHANGED stored

\* the process dies, or the answer is lost: Meta sends it again
Lose(t) ==
    /\ task[t] # Idle
    /\ End(t)
    /\ UNCHANGED <<stored, answered>>

Next == \E t \in Tasks :
    \/ \E e \in Events : Arrive(t, e)
    \/ Verify(t) \/ FindFirst(t) \/ Create(t) \/ Reply(t) \/ Lose(t)

Spec == Init /\ [][Next]_vars

-----------------------------------------------------------------------------

\* An event that was sent again after an answer got lost is not stored again, as
\* long as its deliveries come one after the other ("Replay protection").
StoredOnce == \A e \in Named : stored[e] <= 1

=============================================================================
