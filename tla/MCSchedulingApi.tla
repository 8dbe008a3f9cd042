-------------------------- MODULE MCSchedulingApi --------------------------
(***************************************************************************)
(* Small instances of SchedulingApi for TLC.                               *)
(***************************************************************************)
EXTENDS SchedulingApi, TLC

CONSTANTS o1, c1, c2, k1, p1, p2, w1, w2

\* One workspace, one channel; one content item for all posts, or one for each.
OneOrg == {o1}
OneContent == {c1}
OneChannel == {k1}
TwoContents == {c1, c2}
OwnContent == [p \in Posts |-> IF p = p1 THEN c1 ELSE c2]
SameOrg == [p \in Posts |-> o1]
SameContent == [p \in Posts |-> c1]
SameChannel == [p \in Posts |-> k1]

\* Worker slots are interchangeable.
Slots == Permutations(Workers)

-----------------------------------------------------------------------------
(* Sentences of the repository about the pipeline that the code does not keep: each is
   checked by a run of its own, which ends in the counterexample. *)

\* "The claim check in publish_post is what actually prevents a duplicate; this only
\* decides how long a genuinely lost post waits" (scheduler.py, STUCK_POST_MINUTES).
\* Without a crash, a lost message or a user, the platform accepts a post once.
ClaimCheckPreventsDuplicates == \A p \in Posts : accepted[p] <= 1

\* "Already resolved, or never ours. Do not overwrite a real outcome."
\* (_fail_unclassified).  Its failure never lands on a published post.
RealOutcomeKept ==
    [][\A w \in Workers :
         pc[w] = "recording" /\ pc'[w] = "done" /\ post' # post
             => post[job[w].post].status # "PUBLISHED"]_apiVars
=============================================================================
