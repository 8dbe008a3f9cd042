------------------------------ MODULE Composer ------------------------------
(***************************************************************************)
(* Writing, reviewing and booking a post: the composer page of apps/web,   *)
(* ContentService, SchedulingService.schedule and the content task of the  *)
(* engine.                                                                 *)
(*                                                                         *)
(* "page" is the person at the composer, "other" somebody else of the      *)
(* workspace.  Each has one request under way at most, and a request is    *)
(* its reads and its writes.  Of a text only its A/B split is kept.        *)
(***************************************************************************)
EXTENDS Integers, FiniteSets, Sequences

CONSTANTS
    Channels,       \* the workspace's channels, numbered in the order they are listed
    TikToks,        \* those of TikTok
    Offers,         \* the audiences creator_info lists for each TikTok channel
    Reviews,        \* what people do to an item: "submit", "approve", "reject", "draft"
    MaxRuns,        \* bound: generations
    MaxPosts,       \* bound: bookings
    MaxFlips,       \* bound: changes of the approval gate
    MaxEdits        \* bound: chosen variants

ChannelAssumption == TikToks \subseteq Channels /\ Channels \subseteq Nat

VARIABLES
    gate,       \* requireApproval of the workspace
    flips,
    item,       \* ContentItem rows: status, A/B split; approved is a ghost
    run,        \* AgentRun rows
    post,       \* bookings: the ScheduledPost rows one transaction made
    call,       \* each person's request
    save,       \* PATCHes of the page on their way
    edits,
    draft,      \* the page: agentRunId, the cached run, the content on screen
    form        \* the page: channels, TikTok settings, the gate it knows; by is a ghost:
                \* the choice its audience comes from

vars == <<gate, flips, item, run, post, call, save, edits, draft, form>>

People == {"page", "other"}
Nobody == "none"
\* the creator's last choice of an audience: for which item, in which channel's panel
NoPick == <<0, 0, Nobody>>
LeftOver == <<0, 0, "left">>
Idle == [op |-> "none", pc |-> "idle", item |-> 0, seen |-> "none", ab |-> FALSE,
         chosen |-> {}, level |-> Nobody, by |-> NoPick]
NoDraft == [run |-> 0, seen |-> "none", shown |-> 0, status |-> "none", ab |-> FALSE,
            fetch |-> 0]

Init ==
    /\ gate \in BOOLEAN /\ flips = 0
    /\ item = <<>> /\ run = <<>> /\ post = <<>>
    /\ call = [p \in People |-> Idle]
    /\ save = {} /\ edits = 0
    /\ draft = NoDraft
    /\ form = [chosen |-> {}, level |-> Nobody, by |-> NoPick, branded |-> FALSE,
               scheduled |-> FALSE, gate |-> gate]

Items == 1..Len(item)
Done(p) == call' = [call EXCEPT ![p] = Idle]
At(p, op, pc) == call[p].op = op /\ call[p].pc = pc

-----------------------------------------------------------------------------
(* The draft *)

Generating ==
    \/ call["page"].op = "generate"
    \/ draft.run # 0 /\ draft.seen # "SUCCEEDED" /\ draft.shown = 0

\* what was picked stays, whatever the panel is opened for next
StillPicked == IF form.by = NoPick THEN NoPick ELSE LeftOver

\* onMutate clears the screen, not agentRunId, nor the TikTok settings
Generate ==
    /\ call["page"] = Idle /\ ~Generating /\ form.chosen # {}
    /\ call' = [call EXCEPT !["page"] = [Idle EXCEPT !.op = "generate", !.pc = "queue"]]
    /\ draft' = [draft EXCEPT !.shown = 0]
    /\ form' = [form EXCEPT !.scheduled = FALSE, !.by = StillPicked]
    /\ UNCHANGED <<gate, flips, item, run, post, save, edits>>

\* generate: refused, queued, or FAILED because the engine cannot be reached
QueueRun ==
    /\ At("page", "generate", "queue") /\ Len(run) < MaxRuns
    /\ \/ Done("page") /\ UNCHANGED run
       \/ /\ run' = Append(run, [status |-> "QUEUED", item |-> 0])
          /\ call' = [call EXCEPT !["page"].pc = "answer", !["page"].item = Len(run) + 1]
       \/ /\ run' = Append(run, [status |-> "FAILED", item |-> 0])
          /\ Done("page")
    /\ UNCHANGED <<gate, flips, item, post, save, edits, draft, form>>

RunIsKnown ==
    /\ At("page", "generate", "answer")
    /\ draft' = [draft EXCEPT !.run = call["page"].item, !.seen = "none"]
    /\ Done("page")
    /\ UNCHANGED <<gate, flips, item, run, post, save, edits, form>>

\* the content task stores a DRAFT with the run's end, or ends it FAILED
WriterEnds(r) ==
    /\ run[r].status = "QUEUED"
    /\ \/ \E ab \in BOOLEAN :
            /\ item' = Append(item, [status |-> "DRAFT", ab |-> ab, approved |-> FALSE])
            /\ run' = [run EXCEPT ![r] = [status |-> "SUCCEEDED", item |-> Len(item) + 1]]
       \/ run' = [run EXCEPT ![r].status = "FAILED"] /\ UNCHANGED item
    /\ UNCHANGED <<gate, flips, post, call, save, edits, draft, form>>

\* every 1.5 s until the run has ended; a failure forgets the run
Poll ==
    /\ draft.run # 0 /\ draft.seen # "SUCCEEDED"
    /\ LET status == run[draft.run].status
       IN  draft' = IF status = "FAILED" THEN [draft EXCEPT !.run = 0, !.seen = "none"]
                                         ELSE [draft EXCEPT !.seen = status]
    /\ UNCHANGED <<gate, flips, item, run, post, call, save, edits, form>>

\* the effect on [run, content]
FetchDraft ==
    /\ draft.run # 0 /\ draft.seen = "SUCCEEDED" /\ draft.shown = 0 /\ draft.fetch = 0
    /\ draft' = [draft EXCEPT !.fetch = run[draft.run].item]
    /\ UNCHANGED <<gate, flips, item, run, post, call, save, edits, form>>

DraftArrives ==
    /\ draft.fetch # 0
    /\ draft' = [draft EXCEPT !.shown = draft.fetch, !.fetch = 0,
                              !.status = item[draft.fetch].status, !.ab = item[draft.fetch].ab]
    /\ UNCHANGED <<gate, flips, item, run, post, call, save, edits, form>>

\* shown at once, saved by a PATCH that nobody waits for
ChooseVariant ==
    /\ draft.shown # 0 /\ draft.ab /\ edits < MaxEdits
    /\ edits' = edits + 1
    /\ draft' = [draft EXCEPT !.ab = FALSE]
    /\ save' = save \cup {draft.shown}
    /\ UNCHANGED <<gate, flips, item, run, post, call, form>>

\* update writes by id whatever the status; a failure is only logged
SaveLands(i) ==
    /\ i \in save
    /\ save' = save \ {i}
    /\ item' \in {item, [item EXCEPT ![i].ab = FALSE]}
    /\ UNCHANGED <<gate, flips, run, post, call, edits, draft, form>>

-----------------------------------------------------------------------------
(* The form *)

\* tiktokConnection: the first TikTok channel that is selected, or none
PanelOf(chosen) == {c \in TikToks \cap chosen : \A d \in TikToks \cap chosen : c <= d}
Panel == PanelOf(form.chosen)
ForTikTok == TikToks \cap form.chosen # {}
Ready == ForTikTok => form.level # Nobody
ApprovalPending ==
    form.gate /\ draft.shown # 0 /\ draft.status \notin {"APPROVED", "SCHEDULED", "PUBLISHED"}

Toggle(c) ==
    /\ LET chosen == IF c \in form.chosen THEN form.chosen \ {c} ELSE form.chosen \cup {c}
       IN  form' = [form EXCEPT !.chosen = chosen,
                                !.by = IF PanelOf(chosen) = Panel THEN @ ELSE StillPicked]
    /\ UNCHANGED <<gate, flips, item, run, post, call, save, edits, draft>>

\* a radio per audience the channel offers
PickAudience(c, level) ==
    /\ draft.shown # 0 /\ c \in Panel
    /\ level \in Offers[c] /\ ~(form.branded /\ level = "SELF_ONLY")
    /\ form' = [form EXCEPT !.level = level, !.by = <<draft.shown, c, level>>]
    /\ UNCHANGED <<gate, flips, item, run, post, call, save, edits, draft>>

\* the panel's effect: a partnership only the creator can see is not a choice
OpenedUp(level, branded) ==
    IF branded /\ level = "SELF_ONLY" THEN "PUBLIC_TO_EVERYONE" ELSE level
Kept(level, branded) == IF branded /\ level = "SELF_ONLY" THEN Nobody ELSE level

ToggleBranded ==
    /\ draft.shown # 0 /\ Panel # {}
    /\ LET level == Kept(form.level, ~form.branded)
       IN  form' = [form EXCEPT !.branded = ~@, !.level = level,
                                !.by = IF level = Nobody THEN NoPick ELSE @]
    /\ UNCHANGED <<gate, flips, item, run, post, call, save, edits, draft>>

\* the session is refreshed and brings the workspace's settings
Refresh ==
    /\ form.gate # gate
    /\ form' = [form EXCEPT !.gate = gate]
    /\ UNCHANGED <<gate, flips, item, run, post, call, save, edits, draft>>

\* everything is cleared but the channels and the TikTok settings
WriteAnother ==
    /\ form.scheduled
    /\ draft' = [NoDraft EXCEPT !.fetch = draft.fetch]
    /\ form' = [form EXCEPT !.scheduled = FALSE, !.by = StillPicked]
    /\ UNCHANGED <<gate, flips, item, run, post, call, save, edits>>

-----------------------------------------------------------------------------
(* Review *)

Requires == [submit |-> {"DRAFT"}, approve |-> {"PENDING_APPROVAL"},
             reject |-> {"PENDING_APPROVAL"},
             draft |-> {"DRAFT", "PENDING_APPROVAL", "APPROVED", "SCHEDULED"}]
Becomes == [submit |-> "PENDING_APPROVAL", approve |-> "APPROVED", reject |-> "DRAFT",
            draft |-> "DRAFT"]

\* the page's buttons follow its copy of the status
ReviewRead(p, op, i) ==
    /\ call[p] = Idle
    /\ p = "page" => op # "draft" /\ ApprovalPending /\ i = draft.shown
                     /\ draft.status \in Requires[op]
    /\ item[i].status \in Requires[op]
    /\ call' = [call EXCEPT ![p] = [Idle EXCEPT !.op = op, !.pc = "write", !.item = i]]
    /\ UNCHANGED <<gate, flips, item, run, post, save, edits, draft, form>>

\* by id; a rejection also cancels what is still pending
ReviewWrite(p) ==
    LET op == call[p].op
        i == call[p].item
    IN  /\ op \in Reviews /\ call[p].pc = "write"
        /\ item' = [item EXCEPT ![i].status = Becomes[op],
                                ![i].approved = @ \/ op = "approve"]
        /\ post' = IF op # "reject" THEN post
                   ELSE [k \in DOMAIN post |-> IF post[k].item = i /\ post[k].status = "PENDING"
                                               THEN [post[k] EXCEPT !.status = "CANCELLED"]
                                               ELSE post[k]]
        /\ draft' = IF p = "page" /\ draft.shown = i THEN [draft EXCEPT !.status = Becomes[op]]
                    ELSE draft
        /\ Done(p)
        /\ UNCHANGED <<gate, flips, run, save, edits, form>>

-----------------------------------------------------------------------------
(* Booking *)

Schedule ==
    /\ call["page"] = Idle
    /\ draft.shown # 0 /\ form.chosen # {}
    /\ ~form.scheduled /\ ~ApprovalPending /\ Ready
    /\ LET i == draft.shown
       IN  call' = [call EXCEPT !["page"] =
                      [op |-> "schedule", pc |-> "gate", item |-> i, seen |-> item[i].status,
                       ab |-> item[i].ab, chosen |-> form.chosen, by |-> form.by,
                       level |-> IF ForTikTok THEN form.level ELSE Nobody]]
    /\ UNCHANGED <<gate, flips, item, run, post, save, edits, draft, form>>

AcceptsSubmitted(status) == status \in {"PENDING_APPROVAL", "APPROVED"}
Accepts(status) == status = "APPROVED"

\* the gate, the channels and the quota are read after the item
CheckGate ==
    /\ At("page", "schedule", "gate")
    /\ IF gate /\ ~Accepts(call["page"].seen) THEN Done("page")
       ELSE \/ call' = [call EXCEPT !["page"].pc = IF gate THEN "bookGated" ELSE "book"]
            \/ Done("page")
    /\ UNCHANGED <<gate, flips, item, run, post, save, edits, draft, form>>

\* one transaction: a row for every channel, and the item's status
Book ==
    LET x == call["page"]
        booking == [item |-> x.item, status |-> "PENDING", split |-> x.ab,
                    gated |-> x.pc = "bookGated", by |-> x.by,
                    level |-> [c \in x.chosen |-> IF c \in TikToks THEN x.level ELSE Nobody]]
    IN  /\ x.pc \in {"book", "bookGated"} /\ Len(post) < MaxPosts
        /\ post' = Append(post, booking)
        /\ item' = [item EXCEPT ![x.item].status = "SCHEDULED"]
        /\ form' = [form EXCEPT !.scheduled = TRUE]
        /\ Done("page")
        /\ UNCHANGED <<gate, flips, run, save, edits, draft>>

GateFlips ==
    /\ flips < MaxFlips
    /\ flips' = flips + 1 /\ gate' = ~gate
    /\ UNCHANGED <<item, run, post, call, save, edits, draft, form>>

Next ==
    \/ Generate \/ QueueRun \/ RunIsKnown \/ Poll \/ FetchDraft \/ DraftArrives
    \/ \E r \in DOMAIN run : WriterEnds(r)
    \/ ChooseVariant \/ ToggleBranded \/ Refresh \/ WriteAnother
    \/ \E i \in save : SaveLands(i)
    \/ \E c \in Channels : Toggle(c)
    \/ \E c \in TikToks : \E level \in Offers[c] : PickAudience(c, level)
    \/ \E p \in People, op \in Reviews, i \in Items : ReviewRead(p, op, i)
    \/ \E p \in People : ReviewWrite(p)
    \/ Schedule \/ CheckGate \/ Book
    \/ GateFlips

Spec == Init /\ [][Next]_vars

-----------------------------------------------------------------------------
\* Every row for TikTok carries an audience, and it is the creator's last choice,
\* made for that very item in the panel of the first TikTok channel booked: no
\* disclosure switch, no late draft, no change of channels and no server chooses it.
\* Excepted is a choice the page leaves standing when another post is begun or the
\* panel becomes another channel's (tiktok-post-settings.tsx, composer page).
AudienceWasChosen ==
    \A k \in DOMAIN post : \A c \in TikToks \cap DOMAIN post[k].level :
        /\ post[k].level[c] # Nobody
        /\ \/ post[k].by = LeftOver
           \/ \A d \in PanelOf(DOMAIN post[k].level) :
                 post[k].by = <<post[k].item, d, post[k].level[c]>>

\* What was booked while the workspace asks for approval has been approved,
\* whatever the page believed and whoever reviewed meanwhile (schedule).
BookedAfterApproval ==
    \A k \in DOMAIN post : post[k].gated => item[post[k].item].approved

=============================================================================
