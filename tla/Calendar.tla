------------------------------ MODULE Calendar ------------------------------
(***************************************************************************)
(* The calendar page and SchedulingService's list, cancel, editPending and *)
(* retry behind it, for the posts of one content item.                     *)
(*                                                                         *)
(* A text is a value; Cut is what its first 140 characters are.  The page *)
(* works on the answer it last got, and has one request under way.         *)
(***************************************************************************)
EXTENDS Integers, FiniteSets

CONSTANTS
    Posts,
    Texts,      \* the bodies the item may have, long and short
    Cut,       \* the first 140 characters of each
    Title,      \* the item's title, or NoTitle
    NoTitle,
    Times,
    MaxEdits    \* bound: forms opened

VARIABLES
    body,       \* of the content item
    post,       \* status and time of each ScheduledPost
    list,       \* what the page last got: status, time and preview of each post
    form,       \* the edit dialog
    request,    \* the page's request under way
    edits

vars == <<body, post, list, form, request, edits>>

Closed == [open |-> FALSE, post |-> "none", body |-> "none", at |-> 0, typed |-> FALSE]
Nothing == [op |-> "none", pc |-> "idle", form |-> Closed]
Open == {"PENDING", "FAILED", "CANCELLED"}

\* list: the title stands for the text, and both are cut
Preview == IF Title = NoTitle THEN Cut[body] ELSE Title
Listed ==
    [p \in {q \in Posts : post[q].status # "CANCELLED"} |->
        [status |-> post[p].status, at |-> post[p].at, preview |-> Preview]]

Init ==
    /\ body \in Texts
    /\ post \in [Posts -> {[status |-> "PENDING", at |-> t] : t \in Times}]
    /\ list = Listed
    /\ form = Closed /\ request = Nothing /\ edits = 0

\* every 20 s, and after each mutation
Refetch ==
    /\ list # Listed /\ list' = Listed
    /\ UNCHANGED <<body, post, form, request, edits>>

\* the pencil, on a post that was not published or publishing when it was listed
OpenForm(p) ==
    /\ ~form.open /\ request = Nothing /\ edits < MaxEdits
    /\ p \in DOMAIN list /\ list[p].status \in Open
    /\ form' = [open |-> TRUE, post |-> p, body |-> list[p].preview, at |-> list[p].at,
                typed |-> FALSE]
    /\ edits' = edits + 1
    /\ UNCHANGED <<body, post, list, request>>

ChangeTime(t) ==
    /\ form.open /\ t # form.at
    /\ form' = [form EXCEPT !.at = t]
    /\ UNCHANGED <<body, post, list, request, edits>>

TypeText(text) ==
    /\ form.open
    /\ form' = [form EXCEPT !.body = text, !.typed = TRUE]
    /\ UNCHANGED <<body, post, list, request, edits>>

CloseForm ==
    /\ form.open /\ request = Nothing
    /\ form' = Closed
    /\ UNCHANGED <<body, post, list, request, edits>>

\* Save & re-queue, the cross, and the retry arrow: each reads the post first
Save ==
    /\ form.open /\ request = Nothing
    /\ post[form.post].status \in Open
    /\ request' = [op |-> "edit", pc |-> "body", form |-> form]
    /\ UNCHANGED <<body, post, list, form, edits>>

Press(op, p) ==
    /\ request = Nothing /\ p \in DOMAIN list
    /\ list[p].status = (IF op = "cancel" THEN "PENDING" ELSE "FAILED")
    /\ post[p].status = list[p].status
    /\ request' = [op |-> op, pc |-> "post", form |-> [Closed EXCEPT !.post = p]]
    /\ UNCHANGED <<body, post, list, form, edits>>

\* editPending writes whatever body it was sent
WriteBody ==
    /\ request.pc = "body"
    /\ body' = request.form.body
    /\ request' = [request EXCEPT !.pc = "post"]
    /\ UNCHANGED <<post, list, form, edits>>

\* by id; the answer closes the dialog and refetches the list
WritePost ==
    LET p == request.form.post
    IN  /\ request.pc = "post"
        /\ post' = [post EXCEPT ![p].status = IF request.op = "cancel" THEN "CANCELLED"
                                              ELSE "PENDING",
                                ![p].at = IF request.op = "edit" THEN request.form.at ELSE @]
        /\ form' = IF request.op = "edit" THEN Closed ELSE form
        /\ request' = Nothing
        /\ UNCHANGED <<body, list, edits>>

\* the publish pipeline
Publishes(p) ==
    /\ \/ post[p].status = "PENDING" /\ post' = [post EXCEPT ![p].status = "PROCESSING"]
       \/ /\ post[p].status = "PROCESSING"
          /\ \E end \in {"PUBLISHED", "FAILED"} : post' = [post EXCEPT ![p].status = end]
    /\ UNCHANGED <<body, list, form, request, edits>>

Next ==
    \/ Refetch \/ CloseForm \/ Save \/ WriteBody \/ WritePost
    \/ \E p \in Posts : OpenForm(p) \/ Publishes(p) \/ \E op \in {"cancel", "retry"} : Press(op, p)
    \/ \E t \in Times : ChangeTime(t)
    \/ \E text \in Texts : TypeText(text)

Spec == Init /\ [][Next]_vars

-----------------------------------------------------------------------------
\* "change its text and/or its time" (editPending): who changes the time alone
\* leaves the text of the post as it was.
TimeAloneKeepsTheText == [][body' # body => request.form.typed]_vars
=============================================================================
