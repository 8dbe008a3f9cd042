--------------------------- MODULE Reconciliation ---------------------------
(***************************************************************************)
(* reconciliation.service.ts: every day the leader compares Paystack's     *)
(* successful transactions with the PaymentApplication rows and reports    *)
(* what is missing.  Paystack and its webhooks are external; a tick is a   *)
(* day, and the lock of module LeaderLock is held for minutes of it.       *)
(***************************************************************************)
EXTENDS Integers, FiniteSets

CONSTANTS
    Replicas,
    Refs,       \* Paystack references
    Foreign,    \* those whose metadata names no workspace
    PerPage,    \* perPage: how many transactions the one page that is read holds
    MaxTime     \* bound: the clock

Day == 1        \* DAY_MS
Lookback == 2   \* LOOKBACK_MS

VARIABLES
    now,
    paid,       \* Paystack: when each reference was paid, or Unpaid
    applied,    \* references with a PaymentApplication row
    due,        \* per replica: when its timer fires next
    list,       \* per replica: the references Paystack listed, while it compares
    reported,   \* references ever named by the error line
    missed      \* ghost: passes that failed over a reference or had no room for it, up to two
vars == <<now, paid, applied, due, list, reported, missed>>

Unpaid == -9
None == [busy |-> FALSE, refs |-> {}]

Init ==
    /\ now = 0 /\ applied = {} /\ reported = {}
    /\ paid = [r \in Refs |-> Unpaid]
    /\ due = [p \in Replicas |-> 0]     \* a first pass shortly after boot
    /\ list = [p \in Replicas |-> None]
    /\ missed = [r \in Refs |-> 0]

Charge(r) ==
    /\ paid[r] = Unpaid
    /\ paid' = [paid EXCEPT ![r] = now]
    /\ UNCHANGED <<now, applied, due, list, reported, missed>>

\* the webhook or the browser's verify, which may never come
Apply(r) ==
    /\ paid[r] # Unpaid /\ r \notin Foreign
    /\ applied' = applied \cup {r}
    /\ UNCHANGED <<now, paid, due, list, reported, missed>>

Leading == \E p \in Replicas : list[p].busy

Window == {r \in Refs : paid[r] # Unpaid /\ paid[r] >= now - Lookback}

\* the one page of the window that Paystack answers with
Pages ==
    LET room == IF PerPage < Cardinality(Window) THEN PerPage ELSE Cardinality(Window)
    IN  {refs \in SUBSET Window : Cardinality(refs) = room}

Miss(refs) == missed' = [r \in Refs |-> IF r \in refs /\ missed[r] < 2 THEN missed[r] + 1
                                                                 ELSE missed[r]]

\* the timer fires; only the leader asks Paystack
List(p) ==
    /\ now >= due[p]
    /\ due' = [due EXCEPT ![p] = now + Day]
    /\ IF Leading THEN UNCHANGED <<list, missed>>
                  ELSE \E refs \in Pages :
                          /\ list' = [list EXCEPT ![p] = [busy |-> TRUE, refs |-> refs]]
                          /\ Miss(Window \ refs)
    /\ UNCHANGED <<now, paid, applied, reported>>

Missing(refs) == refs \ (applied \cup Foreign)

\* reads the rows of the listed references
Compare(p) ==
    /\ list[p].busy
    /\ reported' = reported \cup Missing(list[p].refs)
    /\ list' = [list EXCEPT ![p] = None]
    /\ UNCHANGED <<now, paid, applied, due, missed>>

\* Paystack, or the database, does not answer: a line in the log, and the next pass is a
\* day away
Fail(p) ==
    /\ list[p].busy
    /\ Miss(list[p].refs)
    /\ list' = [list EXCEPT ![p] = None]
    /\ UNCHANGED <<now, paid, applied, due, reported>>

\* a deploy: the pass is lost, the next comes shortly after boot
Restart(p) ==
    /\ list[p].busy \/ due[p] > now
    /\ list' = [list EXCEPT ![p] = None]
    /\ due' = [due EXCEPT ![p] = now]
    /\ UNCHANGED <<now, paid, applied, reported, missed>>

\* setInterval fires on the day it is due, and the lock outlives no day
Tick ==
    /\ now < MaxTime
    /\ \A p \in Replicas : due[p] > now
    /\ ~Leading
    /\ now' = now + 1
    /\ UNCHANGED <<paid, applied, due, list, reported, missed>>

Next ==
    \/ \E r \in Refs : Charge(r) \/ Apply(r)
    \/ \E p \in Replicas : List(p) \/ Compare(p) \/ Fail(p) \/ Restart(p)
    \/ Tick

\* a running process fires its timers and goes on; it restarts finitely often a day
Spec == Init /\ [][Next]_vars
Fair == Spec /\ WF_vars(Tick) /\ \A p \in Replicas : SF_vars(List(p)) /\ SF_vars(Compare(p))

-----------------------------------------------------------------------------
\* The money that moved is seen: a payment for a workspace is applied, or reported
\* ("so a transaction near a boundary is never missed"), although one pass over it fails
\* or finds the page full.  Two in a row are more than the look-back covers.
PaymentIsSeen ==
    \A r \in Refs \ Foreign :
        (paid[r] # Unpaid /\ paid[r] < MaxTime - 1)
            ~> (r \in applied \cup reported \/ missed[r] = 2)

=============================================================================
