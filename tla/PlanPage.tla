------------------------------ MODULE PlanPage ------------------------------
(***************************************************************************)
(* The Autopilot page: its list of plans, and the one form that opens a    *)
(* new plan and edits an old one, over SchedulingService.createPlan and    *)
(* updatePlan.                                                             *)
(*                                                                         *)
(* A plan is its channels, its times and how long its photographs show;    *)
(* the other fields are handled as times are.                              *)
(***************************************************************************)
EXTENDS Integers, FiniteSets

CONSTANTS
    Platforms,      \* AVAILABLE_PLATFORMS
    Times,          \* what the time input can be set to
    Looks,          \* photograph lengths offered
    FirstLook,      \* emptyForm's
    Plans,          \* identifiers, in the order they are given out
    MaxSaves        \* bound

PlanPageAssumption == FirstLook \in Looks /\ Plans \subseteq Nat

VARIABLES
    connected,  \* platforms with an active connection
    stored,     \* the plans
    shown,      \* the plans as the page last got them
    form,
    pending,    \* the save on its way
    saves

vars == <<connected, stored, shown, form, pending, saves>>

New == 0        \* "Null while creating"
EmptyForm == [open |-> FALSE, editing |-> New, of |-> New, platforms |-> {}, times |-> {},
              look |-> FirstLook, error |-> FALSE]
Nothing == [pc |-> "none", id |-> New, of |-> New, platforms |-> {}, times |-> {}]

Init ==
    /\ connected \in SUBSET Platforms
    /\ stored = <<>> /\ shown = <<>>
    /\ form = EmptyForm /\ pending = Nothing /\ saves = 0

ConnectionChanges(p) ==
    /\ connected' = IF p \in connected THEN connected \ {p} ELSE connected \cup {p}
    /\ UNCHANGED <<stored, shown, form, pending, saves>>

Refetch ==
    /\ shown # stored /\ shown' = stored
    /\ UNCHANGED <<connected, stored, form, pending, saves>>

-----------------------------------------------------------------------------
\* "New plan" while the form is closed; what it holds is what closeForm left
OpenNew ==
    /\ ~form.open
    /\ form' = [form EXCEPT !.open = TRUE, !.of = New]
    /\ UNCHANGED <<connected, stored, shown, pending, saves>>

\* The plans with a pencil beside them
Listed == DOMAIN shown

\* The pencil: also over an open form, also while a save is on its way
StartEdit(p) ==
    /\ p \in Listed
    /\ form' = [open |-> TRUE, editing |-> p, of |-> p, platforms |-> shown[p].platforms,
                times |-> shown[p].times, look |-> shown[p].look, error |-> FALSE]
    /\ UNCHANGED <<connected, stored, shown, pending, saves>>

\* A platform that is not connected cannot be taken in, or out
TogglePlatform(p) ==
    /\ form.open /\ p \in connected
    /\ form' = [form EXCEPT !.platforms = IF p \in @ THEN @ \ {p} ELSE @ \cup {p}]
    /\ UNCHANGED <<connected, stored, shown, pending, saves>>

ToggleTime(t) ==
    /\ form.open
    /\ form' = [form EXCEPT !.times = IF t \in @ THEN @ \ {t} ELSE @ \cup {t}]
    /\ UNCHANGED <<connected, stored, shown, pending, saves>>

PickLook(look) ==
    /\ form.open
    /\ form' = [form EXCEPT !.look = look]
    /\ UNCHANGED <<connected, stored, shown, pending, saves>>

ClosedStillEditing == [EmptyForm EXCEPT !.editing = form.editing]
Closed == EmptyForm

\* "Close", and "Cancel" while editing
CloseForm ==
    /\ form.open
    /\ form' = Closed
    /\ UNCHANGED <<connected, stored, shown, pending, saves>>

Blocked == connected = {} \/ form.platforms = {}

\* planBody: the look is not in it
Submit ==
    /\ form.open /\ pending = Nothing /\ ~Blocked /\ saves < MaxSaves
    /\ pending' = [pc |-> "sent", id |-> form.editing, of |-> form.of,
                   platforms |-> form.platforms, times |-> form.times]
    /\ saves' = saves + 1
    /\ UNCHANGED <<connected, stored, shown, form>>

-----------------------------------------------------------------------------
\* createPlan gives the look its default; updatePlan leaves it
Store ==
    LET id == IF pending.id # New THEN pending.id ELSE Cardinality(DOMAIN stored) + 1
    IN  /\ pending.pc = "sent" /\ id \in Plans
        /\ stored' = [p \in DOMAIN stored \cup {id} |->
                        IF p # id THEN stored[p]
                        ELSE [platforms |-> pending.platforms, times |-> pending.times,
                              look |-> IF pending.id = New THEN FirstLook ELSE stored[p].look]]
        /\ pending' = [pending EXCEPT !.pc = "stored"]
        /\ UNCHANGED <<connected, shown, form, saves>>

\* closeForm closes whatever form is open by then
Succeed ==
    /\ pending.pc = "stored"
    /\ form' = Closed /\ pending' = Nothing
    /\ UNCHANGED <<connected, stored, shown, saves>>

\* Refused, or stored with its answer lost: the form stays for another press
Fail ==
    /\ pending # Nothing
    /\ form' = [form EXCEPT !.error = TRUE] /\ pending' = Nothing
    /\ UNCHANGED <<connected, stored, shown, saves>>

Next ==
    \/ Refetch \/ OpenNew \/ CloseForm \/ Submit \/ Store \/ Succeed \/ Fail
    \/ \E p \in Platforms : ConnectionChanges(p) \/ TogglePlatform(p)
    \/ \E p \in Plans : StartEdit(p)
    \/ \E t \in Times : ToggleTime(t)
    \/ \E look \in Looks : PickLook(look)

Spec == Init /\ [][Next]_vars

-----------------------------------------------------------------------------
\* A save changes the plan its form was opened on and no other, and one from a form
\* opened as new changes none (editingId against the form's contents).
EditLandsOnItsPlan ==
    [][\A p \in DOMAIN stored : stored'[p] # stored[p] => pending.of = p]_vars
=============================================================================
