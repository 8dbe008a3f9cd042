----------------------------- MODULE Autopilot -----------------------------
(***************************************************************************)
(* One posting plan: SchedulingService.createPlan and updatePlan, the      *)
(* planner that queues a message for each coming slot and then moves the   *)
(* plan's high-water mark, and the task that writes a slot's posts.        *)
(*                                                                         *)
(* A plan's times and its channels are what an edit can move; the rest of  *)
(* a plan, the text of a post and the approval gate decide nothing here.   *)
(* Every channel is connected.  booked holds the posts not sent yet: two   *)
(* alike are one.  recycle_evergreen's posts are left out.                 *)
(***************************************************************************)
EXTENDS Integers, FiniteSets, FiniteSetsExt

CONSTANTS
    Timings,        \* what the times, the cadence and the zone may be
    SlotsOf,        \* [Timings -> the publish times each gives]
    Channels,       \* the sets of channels it may name
    Editors,        \* people saving the plan
    Tasks,          \* messages of the planner not finished yet
    Horizon,        \* PLAN_HORIZON_HOURS
    Grace,          \* FIRST_RUN_GRACE_MINUTES
    PerRun,         \* MAX_SLOTS_PER_RUN
    MaxTime, MaxEdits, MaxCrashes   \* bounds

AutopilotAssumption ==
    /\ \A times \in Timings : SlotsOf[times] \subseteq 1..MaxTime
    /\ {Horizon, Grace, PerRun} \subseteq Nat

VARIABLES
    now,
    plan,       \* times, channels, active, lastPlannedAt
    planner,    \* the run under way: what it read, the slots it has still to queue
    message,    \* of each task
    booked,     \* PENDING posts of the plan
    saving,     \* of each editor: the update it is in the middle of
    edits, crashes,
    crossed     \* a save kept settings that another save had replaced under it

vars == <<now, plan, planner, message, booked, saving, edits, crashes, crossed>>

Never == 0
Idle == [pc |-> "idle", mark |-> 0, slots |-> {}, late |-> FALSE]
Free == [pc |-> "free", slot |-> 0, channels |-> {}, late |-> FALSE]
Rest == [pc |-> "idle", input |-> [times |-> "same", channels |-> {}, active |-> TRUE],
         changed |-> FALSE, stale |-> FALSE]

Timing(p) == [times |-> p.times, channels |-> p.channels]

\* createPlan: nothing planned yet
Init ==
    /\ now = 0
    /\ plan \in [times : Timings, channels : Channels, active : {TRUE},
                 planned : {Never}]
    /\ planner = Idle
    /\ message = [t \in Tasks |-> Free]
    /\ booked = {}
    /\ saving = [e \in Editors |-> Rest]
    /\ edits = 0 /\ crashes = 0 /\ crossed = FALSE

-----------------------------------------------------------------------------
\* plan_autopilot
EarliestOf(slots) == {s \in slots : Cardinality({r \in slots : r < s}) < PerRun}

\* From the high-water mark or from now; a plan never planned reaches back a little
Coming ==
    LET start == IF plan.planned = Never THEN now - Grace ELSE Max({plan.planned, now})
    IN  EarliestOf({s \in SlotsOf[plan.times] : start < s /\ s <= now + Horizon})

PlannerReads ==
    /\ planner.pc = "idle" /\ plan.active /\ Coming # {}
    /\ planner' = [pc |-> "queue", mark |-> Max(Coming), slots |-> Coming, late |-> FALSE]
    /\ UNCHANGED <<now, plan, message, booked, saving, edits, crashes, crossed>>

PlannerQueues(t) ==
    /\ planner.slots # {} /\ message[t].pc = "free"
    /\ message' = [message EXCEPT ![t] = [Free EXCEPT !.pc = "queued", !.slot = Min(planner.slots),
                                                      !.late = planner.late]]
    /\ planner' = [planner EXCEPT !.slots = @ \ {Min(@)}]
    /\ UNCHANGED <<now, plan, booked, saving, edits, crashes, crossed>>

\* By id, whatever the plan has become
PlannerSaves ==
    /\ planner.pc = "queue" /\ planner.slots = {}
    /\ plan' = [plan EXCEPT !.planned = planner.mark]
    /\ planner' = Idle
    /\ UNCHANGED <<now, message, booked, saving, edits, crashes, crossed>>

PlannerDies ==
    /\ planner.pc = "queue" /\ crashes < MaxCrashes
    /\ planner' = Idle /\ crashes' = crashes + 1
    /\ UNCHANGED <<now, plan, message, booked, saving, edits, crossed>>

\* autopilot_generate: the plan is read anew, and not again after the model answered
Begin(t) ==
    /\ message[t].pc = "queued"
    /\ message' = [message EXCEPT ![t] = IF plan.active
                       THEN [@ EXCEPT !.pc = "writing", !.channels = plan.channels]
                       ELSE Free]
    /\ UNCHANGED <<now, plan, planner, booked, saving, edits, crashes, crossed>>

\* The model failed and the catalogue has nothing to post: the slot is spent
GiveUp(t) ==
    /\ message[t].pc = "writing"
    /\ message' = [message EXCEPT ![t] = Free]
    /\ UNCHANGED <<now, plan, planner, booked, saving, edits, crashes, crossed>>

Book(t) ==
    /\ message[t].pc = "writing"
    /\ booked' = booked \cup [at : {message[t].slot}, channel : message[t].channels,
                              late : {message[t].late}]
    /\ message' = [message EXCEPT ![t].pc = "done"]
    /\ UNCHANGED <<now, plan, planner, saving, edits, crashes, crossed>>

Acknowledge(t) ==
    /\ message[t].pc = "done"
    /\ message' = [message EXCEPT ![t] = Free]
    /\ UNCHANGED <<now, plan, planner, booked, saving, edits, crashes, crossed>>

\* A worker that dies leaves the message to be delivered again
Redelivered(t) ==
    /\ message[t].pc \in {"writing", "done"} /\ crashes < MaxCrashes
    /\ message' = [message EXCEPT ![t].pc = "queued", ![t].channels = {}]
    /\ crashes' = crashes + 1
    /\ UNCHANGED <<now, plan, planner, booked, saving, edits, crossed>>

-----------------------------------------------------------------------------
\* updatePlan: the page sends the whole plan, or the switch alone
TimesChanged(input, existing) ==
    input.times # "same" /\ input.times # existing.times

TimingChanged(input, existing) ==
    input.times # "same" /\ (input.times # existing.times \/ input.channels # existing.channels)

Inputs == [times : Timings, channels : Channels, active : {TRUE}]
          \cup [times : {"same"}, channels : {{}}, active : BOOLEAN]

ReadPlan(e, input) ==
    /\ saving[e].pc = "idle" /\ edits < MaxEdits
    /\ saving' = [saving EXCEPT ![e] = [pc |-> "write", input |-> input,
                                        changed |-> TimingChanged(input, plan),
                                        stale |-> FALSE]]
    /\ edits' = edits + 1
    /\ UNCHANGED <<now, plan, planner, message, booked, crashes, crossed>>

\* What is queued or being written now was planned under the settings replaced
WritePlan(e) ==
    LET save == saving[e]
        whole == save.input.times # "same"
    IN  /\ save.pc = "write"
        /\ plan' = [times |-> IF whole THEN save.input.times ELSE plan.times,
                    channels |-> IF whole THEN save.input.channels ELSE plan.channels,
                    active |-> IF whole THEN plan.active ELSE save.input.active,
                    planned |-> IF save.changed THEN Never ELSE plan.planned]
        /\ saving' = [f \in Editors |->
               CASE f = e -> IF save.changed THEN [save EXCEPT !.pc = "cancel"] ELSE Rest
                 [] f # e -> [saving[f] EXCEPT !.stale = @ \/ (saving[f].pc = "write"
                                                             /\ Timing(plan') # Timing(plan))]]
        /\ crossed' = (~save.changed /\ (crossed \/ (whole /\ save.stale)))
        /\ IF Timing(plan') # Timing(plan)
           THEN /\ planner' = [planner EXCEPT !.late = planner.pc # "idle"]
                /\ message' = [t \in Tasks |-> [message[t] EXCEPT !.late = message[t].pc # "free"]]
           ELSE UNCHANGED <<planner, message>>
        /\ UNCHANGED <<now, booked, edits, crashes>>

CancelBooked(e) ==
    /\ saving[e].pc = "cancel"
    /\ booked' = {p \in booked : p.at <= now}
    /\ saving' = [saving EXCEPT ![e] = Rest]
    /\ UNCHANGED <<now, plan, planner, message, edits, crashes, crossed>>

\* The dispatcher takes what is due
Dispatch ==
    /\ \E p \in booked : p.at <= now /\ booked' = booked \ {p}
    /\ UNCHANGED <<now, plan, planner, message, saving, edits, crashes, crossed>>

Tick ==
    /\ now < MaxTime /\ now' = now + 1
    /\ UNCHANGED <<plan, planner, message, booked, saving, edits, crashes, crossed>>

Next ==
    \/ PlannerReads \/ PlannerSaves \/ PlannerDies \/ Dispatch \/ Tick
    \/ \E t \in Tasks : PlannerQueues(t) \/ Begin(t) \/ GiveUp(t) \/ Book(t) \/ Acknowledge(t)
                        \/ Redelivered(t)
    \/ \E e \in Editors : \/ WritePlan(e) \/ CancelBooked(e)
                          \/ \E input \in Inputs : ReadPlan(e, input)

Spec == Init /\ [][Next]_vars

-----------------------------------------------------------------------------
\* An edit reaches "the slots it already booked" (updatePlan): between edits no post
\* waits for a time or a channel the plan no longer has, but one written by work the
\* planner had begun before the edit; saves that crossed are the next edit's to clear.
EditReachesWhatIsBooked ==
    (~crossed /\ \A e \in Editors : saving[e].pc # "cancel") =>
        \A p \in booked :
            p.at > now /\ ~p.late => p.at \in SlotsOf[plan.times] /\ p.channel \in plan.channels
=============================================================================
