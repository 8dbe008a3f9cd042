---------------------------- MODULE PostPromise ----------------------------
(***************************************************************************)
(* What publishing promises about one scheduled post, with the queue, the  *)
(* workers, the clock and the sweeps left out: it is sent once, the send   *)
(* is recorded, and what was recorded stands.  A post that somebody wrote  *)
(* to without looking, or whose send went unrecorded, is loose: nothing is *)
(* promised about it any more.                                             *)
(***************************************************************************)
EXTENDS Naturals, TLAPS

CONSTANT Posts

VARIABLES
    state,  \* where each post is
    sends,  \* how often it went out, counted up to 2
    loose   \* the posts nothing is promised about

States == {"waiting", "claimed", "sent", "published", "failed", "cancelled"}

Init ==
    /\ state = [p \in Posts |-> "waiting"]
    /\ sends = [p \in Posts |-> 0]
    /\ loose = {}

Moves(p, from, to) == state[p] \in from /\ state'[p] = to /\ sends'[p] = sends[p]

Claim(p)  == Moves(p, {"waiting"}, "claimed")
Return(p) == Moves(p, {"claimed"}, "waiting")
Fail(p)   == Moves(p, {"claimed"}, "failed")
Record(p) == Moves(p, {"sent"}, "published")
Cancel(p) == Moves(p, {"waiting"}, "cancelled")
Reopen(p) == Moves(p, {"failed", "cancelled"}, "waiting")
Send(p)   == state[p] = "claimed" /\ state'[p] = "sent" /\ sends'[p] = sends[p] + 1
Keep(p)   == Moves(p, {state[p]}, state[p])

\* One transaction may move several posts.
Next ==
    /\ loose \subseteq loose'
    /\ \A p \in Posts \ loose' :
         \/ Claim(p) \/ Return(p) \/ Fail(p) \/ Send(p)
         \/ Record(p) \/ Cancel(p) \/ Reopen(p) \/ Keep(p)

Spec == Init /\ [][Next]_<<state, sends, loose>>

\* A post that is not loose goes out at most once.
SentOnce == \A p \in Posts \ loose : sends[p] <= 1

-----------------------------------------------------------------------------
\* A post counts one send from the moment it is sent, and none before.
Counted ==
    /\ \A p \in Posts \ loose :
         /\ state[p] \in {"waiting", "claimed", "failed", "cancelled"} => sends[p] = 0
         /\ state[p] \in {"sent", "published"} => sends[p] = 1
         /\ state[p] \in States

\* Nothing that implements PostPromise sends a post twice while the promise holds for it.
THEOREM PromiseMeansOnce == Spec => []SentOnce
<1>1. Init => Counted
  BY DEF Init, Counted, States
<1>2. Counted /\ [Next]_<<state, sends, loose>> => Counted'
  <2> SUFFICES ASSUME Counted, [Next]_<<state, sends, loose>>,
                      NEW p \in Posts, p \notin loose'
               PROVE  /\ state'[p] \in {"waiting", "claimed", "failed", "cancelled"}
                           => sends'[p] = 0
                      /\ state'[p] \in {"sent", "published"} => sends'[p] = 1
                      /\ state'[p] \in States
    BY DEF Counted
  <2>1. CASE UNCHANGED <<state, sends, loose>>
    BY <2>1 DEF Counted
  <2>2. CASE Next
    <3>1. p \notin loose
      BY <2>2 DEF Next
    <3> QED
      BY <2>2, <3>1 DEF Next, Counted, States, Claim, Return, Fail, Send, Record, Cancel,
                        Reopen, Keep, Moves
  <2> QED
    BY <2>1, <2>2
<1>3. Counted => SentOnce
  <2> SUFFICES ASSUME Counted, NEW p \in Posts \ loose
               PROVE  sends[p] <= 1
    BY DEF SentOnce
  <2>1. sends[p] = 0 \/ sends[p] = 1
    BY DEF Counted, States
  <2> QED
    BY <2>1
<1> QED
  BY <1>1, <1>2, <1>3, PTL DEF Spec
=============================================================================
