---------------------------- MODULE MoneyProofs ----------------------------
(***************************************************************************)
(* Proofs about the parts of MCMoney, for any requests, processes, plans,  *)
(* references, templates and bounds.                                       *)
(*                                                                         *)
(* Each part has the same three steps: what the part's steps keep, that a  *)
(* step of the whole run is a step of the part or leaves it alone, and the *)
(* property.                                                               *)
(***************************************************************************)
EXTENDS MCMoney, FiniteSetTheorems, SequenceTheorems, TLAPS

(***************************************************************************)
(* The periodic lock.  Tokens are drawn once each, so a holder never       *)
(* deletes the key of another; the key that a replica set stays its own    *)
(* until it expires, because nobody else gets in before.                   *)
(***************************************************************************)
LockTyped ==
    /\ clock \in Nat /\ draws \in Nat
    /\ key \in [token : Nat, until : Nat]
    /\ run \in [Servers -> [pc : {"off", "job", "release"}, token : Nat, at : Nat]]

TokensDiffer ==
    /\ key.token <= draws
    /\ \A r \in Servers : run[r].pc # "off" => run[r].token \in 1..draws
    /\ \A r, s \in Servers :
         r # s /\ run[r].pc # "off" /\ run[s].pc # "off" => run[r].token # run[s].token

KeyIsItsOwn ==
    \A r \in Servers :
       Lock!InTime(r) => key.token = run[r].token /\ key.until = run[r].at + LockTtl

LockInv == LockTyped /\ TokensDiffer /\ KeyIsItsOwn

LEMMA LockInvHolds == LockInv => KeepsItsLock
BY LockAssumption
   DEF LockInv, LockTyped, TokensDiffer, KeyIsItsOwn, KeepsItsLock, Lock!KeepsItsLock,
       Lock!InTime, Lock!Held

LEMMA LockInit == Lock!Init => LockInv
BY DEF Lock!Init, Lock!NoKey, Lock!Off, LockInv, LockTyped, TokensDiffer, KeyIsItsOwn,
       Lock!InTime

LEMMA LockStep ==
    ASSUME LockInv, [Lock!Next]_lockVars
    PROVE  LockInv'
<1> USE LockAssumption DEF LockInv, LockTyped, TokensDiffer, KeyIsItsOwn, Lock!InTime
<1>1. ASSUME NEW r \in Servers, Lock!Fire(r)
      PROVE  LockInv'
  <2>1. CASE up /\ ~Lock!Held
    <3>1. \A s \in Servers : ~Lock!InTime(s)
      BY <2>1 DEF Lock!Held
    <3> QED
      BY <1>1, <2>1, <3>1 DEF Lock!Fire, Lock!Off
  <2>2. CASE ~(up /\ ~Lock!Held)
    BY <1>1, <2>2 DEF Lock!Fire
  <2> QED
    BY <2>1, <2>2
<1>2. ASSUME NEW r \in Servers, Lock!Finish(r)
      PROVE  LockInv'
  BY <1>2 DEF Lock!Finish
<1>3. ASSUME NEW r \in Servers, Lock!Release(r)
      PROVE  LockInv'
  BY <1>3 DEF Lock!Release, Lock!Deletes, Lock!NoKey, Lock!Off
<1>4. ASSUME NEW r \in Servers, Lock!Die(r)
      PROVE  LockInv'
  BY <1>4 DEF Lock!Die, Lock!Off
<1>5. CASE Lock!RedisFails \/ Lock!RedisReturns \/ Lock!Tick \/ UNCHANGED lockVars
  BY <1>5 DEF Lock!RedisFails, Lock!RedisReturns, Lock!Tick, lockVars
<1> QED
  BY <1>1, <1>2, <1>3, <1>4, <1>5 DEF Lock!Next

LEMMA LockAlone == [Next]_vars => [Lock!Next]_lockVars
BY DEF Next, vars, lockVars

\* A replica that took the lock and is in its time keeps it, whatever an overrun or dead
\* holder does (leader-lock.ts), for any number of replicas and any time to live.
THEOREM LockKept == Spec => []KeepsItsLock
<1>1. Init => LockInv
  BY LockInit DEF Init
<1>2. LockInv /\ [Next]_vars => LockInv'
  BY LockStep, LockAlone
<1> QED
  BY <1>1, <1>2, LockInvHolds, PTL DEF Spec

-----------------------------------------------------------------------------
(***************************************************************************)
(* The posts of a month.  The requests that have passed the check and not  *)
(* written yet are Ahead.  The last of them to be checked found room for   *)
(* its own posts; what the others still add, and what the engine has added *)
(* since, comes on top of that.                                            *)
(***************************************************************************)
LEMMA TimesMonotone ==
    ASSUME NEW a \in Nat, NEW b \in Nat, NEW k \in Nat, a <= b
    PROVE  a * k <= b * k
<1>1. PICK d \in Nat : b = a + d
  BY Z3
<1>2. b * k = a * k + d * k /\ d * k >= 0 /\ a * k \in Nat /\ d * k \in Nat
  BY <1>1, Z3
<1> QED
  BY <1>2

LEMMA TimesNext ==
    ASSUME NEW a \in Int, NEW k \in Nat
    PROVE  (a + 1) * k = a * k + k /\ a * k \in Int
BY Z3

Ahead == {t \in Tasks : request[t].op = "schedule" /\ request[t].pc = "write"}
Others == Cardinality(Tasks) - 1

LimitTyped ==
    /\ posts \in Nat /\ uncounted \in Nat
    /\ passed \in [posts : Nat, tokens : Nat]
    /\ plan \in [code : Codes, canceled : BOOLEAN]
    /\ request \in [Tasks -> [op : {"none", "schedule", "generate"},
                              pc : {"idle", "usage", "write"}, code : Codes, n : 0..Batch]]

\* Room for t's own posts was found when nobody had yet added what the others may add.
RoomFor(t) ==
    posts + request[t].n + (Cardinality(Ahead) - 1) * Batch
        <= passed.posts + Others * Batch + uncounted

OvershootInv ==
    ~late => /\ Ahead = {} => posts <= passed.posts + Others * Batch + uncounted
             /\ Ahead # {} => \E t \in Ahead : RoomFor(t)

LimitInv == LimitTyped /\ OvershootInv

LEMMA Counts ==
    ASSUME NEW S, IsFiniteSet(S)
    PROVE  /\ Cardinality(S) \in Nat
           /\ S # {} => Cardinality(S) >= 1
<1>1. Cardinality(S) \in Nat
  BY FS_CardinalityType
<1>2. Cardinality(S) = 0 <=> S = {}
  BY FS_EmptySet
<1> QED
  BY <1>1, <1>2

LEMMA AheadIsFinite ==
    /\ IsFiniteSet(Ahead) /\ Cardinality(Ahead) \in Nat /\ Cardinality(Tasks) \in Nat
    /\ Cardinality(Ahead) <= Cardinality(Tasks) /\ Others \in Nat
    /\ Ahead # {} => Cardinality(Ahead) >= 1
<1>1. Ahead \subseteq Tasks
  BY DEF Ahead
<1>2. IsFiniteSet(Ahead) /\ Cardinality(Ahead) <= Cardinality(Tasks)
  BY <1>1, LimitAssumption, FS_Subset
<1>3. Cardinality(Tasks) \in Nat /\ Cardinality(Tasks) >= 1
  BY LimitAssumption, Counts
<1>4. Cardinality(Ahead) \in Nat /\ (Ahead # {} => Cardinality(Ahead) >= 1)
  BY <1>2, Counts
<1> QED
  BY <1>2, <1>3, <1>4 DEF Others

LEMMA SpareIsNat == Others * Batch \in Nat
<1>1. 0 * Batch = 0
  BY LimitAssumption, Z3
<1>2. 0 * Batch <= Others * Batch /\ Others * Batch \in Int
  BY AheadIsFinite, LimitAssumption, TimesMonotone, TimesNext
<1> QED
  BY <1>1, <1>2

LEMMA SameCount == Limits!Cardinality(Tasks) = Cardinality(Tasks)
BY DEF Limits!Cardinality, Cardinality

LEMMA LimitInvHolds == LimitInv => PostsOvershootIsBounded
<1> SUFFICES ASSUME LimitInv, ~late
             PROVE  posts <= passed.posts + Others * Batch + uncounted
  BY SameCount DEF PostsOvershootIsBounded, Limits!PostsOvershootIsBounded, Others
<1>1. CASE Ahead = {}
  BY <1>1 DEF LimitInv, OvershootInv
<1>2. CASE Ahead # {}
  <2>1. PICK t \in Ahead : RoomFor(t)
    BY <1>2 DEF LimitInv, OvershootInv
  <2>2. (Cardinality(Ahead) - 1) * Batch >= 0 * Batch /\ (Cardinality(Ahead) - 1) * Batch \in Int
    BY <1>2, AheadIsFinite, LimitAssumption, TimesMonotone, TimesNext
  <2>3. 0 * Batch = 0 /\ Others * Batch \in Int
    BY LimitAssumption, AheadIsFinite, TimesNext, Z3
  <2>4. request[t].n \in Nat
    BY LimitAssumption DEF LimitInv, LimitTyped, Ahead
  <2> QED
    BY <2>1, <2>2, <2>3, <2>4 DEF RoomFor, LimitInv, LimitTyped
<1> QED
  BY <1>1, <1>2

LEMMA LimitInit == Limits!Init => LimitInv
<1> SUFFICES ASSUME Limits!Init
             PROVE  LimitInv
  OBVIOUS
<1>1. LimitTyped
  BY LimitAssumption DEF Limits!Init, Limits!Idle, LimitTyped
<1>2. Ahead = {}
  BY DEF Limits!Init, Limits!Idle, Ahead
<1> QED
  BY <1>1, <1>2, SpareIsNat DEF Limits!Init, LimitInv, OvershootInv

LEMMA LimitTypedStep ==
    ASSUME LimitTyped, [Limits!Next]_planVars
    PROVE  LimitTyped'
<1> USE LimitAssumption DEF LimitTyped, Limits!Idle
<1>1. ASSUME NEW t \in Tasks, NEW n \in 1..Batch, Limits!BeginSchedule(t, n)
      PROVE  LimitTyped'
  BY <1>1 DEF Limits!BeginSchedule, Limits!EffectivePlan
<1>2. ASSUME NEW t \in Tasks, Limits!BeginGenerate(t)
      PROVE  LimitTyped'
  BY <1>2 DEF Limits!BeginGenerate, Limits!EffectivePlan
<1>3. ASSUME NEW t \in Tasks, Limits!AssertPosts(t) \/ Limits!AssertTokens(t)
      PROVE  LimitTyped'
  BY <1>3 DEF Limits!AssertPosts, Limits!AssertTokens, Limits!MaxOf, Limits!Done, Limits!At
<1>4. ASSUME NEW t \in Tasks, Limits!SchedulePosts(t) \/ Limits!CreateRun(t)
      PROVE  LimitTyped'
  BY <1>4 DEF Limits!SchedulePosts, Limits!CreateRun, Limits!Done, Limits!At
<1>5. ASSUME \/ \E k \in 1..Cost : Limits!RecordTokens(k)
             \/ Limits!RecordLate
             \/ UNCHANGED planVars
      PROVE  LimitTyped'
  BY <1>5 DEF Limits!RecordTokens, Limits!RecordLate, planVars
<1>6. CASE Limits!NewMonth
  BY <1>6 DEF Limits!NewMonth
<1>7. ASSUME NEW c \in Codes, Limits!ChangePlan(c)
      PROVE  LimitTyped'
  BY <1>7 DEF Limits!ChangePlan
<1>8. CASE Limits!Cancel
  BY <1>8 DEF Limits!Cancel
<1>9. ASSUME NEW n \in 1..Batch, NEW k, Limits!EnginePosts(n, k)
      PROVE  LimitTyped'
  BY <1>9 DEF Limits!EnginePosts
<1> QED
  BY <1>1, <1>2, <1>3, <1>4, <1>5, <1>6, <1>7, <1>8, <1>9 DEF Limits!Next

\* A request that passes the check joins those ahead and is the one room was found for.
LEMMA CheckFindsRoom ==
    ASSUME LimitInv, NEW t \in Tasks, Limits!AssertPosts(t)
    PROVE  OvershootInv'
<1>0. LimitTyped'
  BY LimitTypedStep DEF LimitInv, Limits!Next
<1> USE LimitAssumption DEF LimitInv, LimitTyped
<1>1. CASE Limits!Within(posts, request[t].n, Limit[request[t].code])
  <2>1. Ahead' = Ahead \cup {t} /\ request'[t].n = request[t].n
    BY <1>1 DEF Limits!AssertPosts, Limits!At, Ahead
  <2>2. posts + request[t].n <= passed'.posts /\ posts' = posts /\ uncounted' = 0
    BY <1>1 DEF Limits!AssertPosts, Limits!Within, Limits!MaxOf, Limits!At
  <2>3. Cardinality(Ahead') \in Nat /\ Cardinality(Ahead') >= 1
        /\ Cardinality(Ahead') - 1 <= Others /\ Others \in Nat
    <3>1. Ahead' \subseteq Tasks /\ Ahead' # {}
      BY <2>1 DEF Ahead
    <3>2. IsFiniteSet(Ahead') /\ Cardinality(Ahead') <= Cardinality(Tasks)
      BY <3>1, FS_Subset
    <3> QED
      BY <3>1, <3>2, Counts, AheadIsFinite DEF Others
  <2>4. /\ (Cardinality(Ahead') - 1) * Batch <= Others * Batch
        /\ (Cardinality(Ahead') - 1) * Batch \in Int /\ Others * Batch \in Int
    BY <2>3, TimesMonotone, TimesNext
  <2>5. RoomFor(t)'
    BY <1>0, <2>1, <2>2, <2>4 DEF RoomFor, Others
  <2> QED
    BY <2>1, <2>5 DEF OvershootInv
<1>2. CASE ~Limits!Within(posts, request[t].n, Limit[request[t].code])
  <2>1. Ahead' = Ahead /\ \A u \in Ahead : request'[u] = request[u]
    BY <1>2 DEF Limits!AssertPosts, Limits!At, Limits!Done, Limits!Idle, Ahead
  <2>2. UNCHANGED <<posts, passed, uncounted, late>>
    BY <1>2 DEF Limits!AssertPosts
  <2> QED
    BY <2>1, <2>2 DEF OvershootInv, RoomFor, Others
<1> QED
  BY <1>1, <1>2

\* What a request adds had been counted.
LEMMA PostsWereCounted ==
    ASSUME LimitInv, NEW t \in Tasks, Limits!SchedulePosts(t)
    PROVE  OvershootInv'
<1> SUFFICES ASSUME ~late
             PROVE  /\ Ahead' = {} => posts' <= passed'.posts + Others * Batch + uncounted'
                    /\ Ahead' # {} => \E u \in Ahead' : RoomFor(u)'
  BY DEF OvershootInv, Limits!SchedulePosts, Others
<1>1. t \in Ahead
  BY DEF Limits!SchedulePosts, Limits!At, Ahead
<1>2. /\ Ahead' = Ahead \ {t} /\ posts' = posts + request[t].n /\ passed' = passed
      /\ uncounted' = uncounted
      /\ \A u \in Ahead' : request'[u] = request[u]
  BY DEF Limits!SchedulePosts, Limits!At, Limits!Done, Limits!Idle, LimitInv, LimitTyped, Ahead
<1>3. Cardinality(Ahead') = Cardinality(Ahead) - 1 /\ Cardinality(Ahead) \in Nat
      /\ Cardinality(Ahead') \in Nat
  <2>1. /\ Cardinality(Ahead \ {t}) = Cardinality(Ahead) - 1
        /\ IsFiniteSet(Ahead \ {t})
    BY <1>1, AheadIsFinite, FS_RemoveElement
  <2> QED
    BY <1>2, <2>1, AheadIsFinite, Counts
<1>4. PICK v \in Ahead : RoomFor(v)
  BY <1>1 DEF LimitInv, OvershootInv
<1>5. /\ posts \in Nat /\ passed.posts \in Nat /\ uncounted \in Nat /\ Batch \in Nat
      /\ \A u \in Ahead : request[u].n \in Nat /\ request[u].n <= Batch
  BY LimitAssumption DEF LimitInv, LimitTyped, Ahead
<1> DEFINE c == Cardinality(Ahead)
<1>6. Others * Batch \in Int /\ (c - 1) * Batch \in Int
  BY <1>3, <1>5, AheadIsFinite, TimesNext
<1>7. CASE Ahead' = {}
  <2>1. c - 1 = 0 /\ v = t
    BY <1>2, <1>3, <1>7, FS_EmptySet
  <2>2. (c - 1) * Batch = 0
    BY <2>1, <1>5, Z3
  <2> QED
    BY <1>2, <1>4, <1>5, <1>6, <1>7, <2>1, <2>2 DEF RoomFor
<1>8. CASE Ahead' # {}
  <2>1. (c - 1) * Batch = (c - 2) * Batch + Batch /\ (c - 2) * Batch \in Int
    <3>1. c - 2 \in Int /\ (c - 2) + 1 = c - 1
      BY <1>3
    <3> QED
      BY <3>1, <1>5, TimesNext
  <2>2. PICK u \in Ahead' : u = v \/ v = t
    BY <1>2, <1>4, <1>8
  <2>3. posts + request[v].n + (c - 2) * Batch + Batch
          <= passed.posts + Others * Batch + uncounted
    BY <1>4, <1>5, <1>6, <2>1 DEF RoomFor
  <2>4. posts + request[t].n + request[u].n + (c - 2) * Batch
          <= passed.posts + Others * Batch + uncounted
    BY <1>1, <1>2, <1>4, <1>5, <1>6, <2>1, <2>2, <2>3
  <2>5. RoomFor(u)'
    <3>1. (Cardinality(Ahead') - 1) * Batch = (c - 2) * Batch
      BY <1>3
    <3> QED
      BY <1>2, <1>5, <1>6, <2>1, <2>2, <2>4, <3>1 DEF RoomFor, Others
  <2> QED
    BY <2>5, <1>8
<1> QED
  BY <1>7, <1>8

LEMMA LimitStep ==
    ASSUME LimitInv, [Limits!Next]_planVars
    PROVE  LimitInv'
<1>1. LimitTyped'
  BY LimitTypedStep DEF LimitInv
<1>2. ASSUME Ahead' = Ahead, \A t \in Ahead : request'[t] = request[t],
             UNCHANGED <<posts, passed, uncounted, late>>
      PROVE  OvershootInv'
  BY <1>2 DEF LimitInv, OvershootInv, RoomFor, Others
<1>3. ASSUME NEW t \in Tasks, NEW n \in 1..Batch,
             Limits!BeginSchedule(t, n) \/ Limits!BeginGenerate(t)
      PROVE  OvershootInv'
  BY <1>2, <1>3 DEF Limits!BeginSchedule, Limits!BeginGenerate, Limits!Idle, Ahead, LimitInv,
                    LimitTyped
<1>4. ASSUME NEW t \in Tasks, Limits!AssertTokens(t)
      PROVE  OvershootInv'
  <2>1. Ahead' = Ahead /\ (\A u \in Ahead : request'[u] = request[u])
        /\ posts' = posts /\ passed'.posts = passed.posts /\ uncounted' = uncounted
        /\ late' = late
    BY <1>4 DEF Limits!AssertTokens, Limits!At, Limits!Done, Limits!Idle, Ahead, LimitInv,
                LimitTyped
  <2> QED
    BY <2>1 DEF LimitInv, OvershootInv, RoomFor, Others
<1>5. ASSUME NEW t \in Tasks, Limits!CreateRun(t)
      PROVE  OvershootInv'
  BY <1>2, <1>5 DEF Limits!CreateRun, Limits!At, Limits!Done, Limits!Idle, Ahead, LimitInv,
                    LimitTyped
<1>6. ASSUME Limits!NewMonth
      PROVE  OvershootInv'
  <2>1. ~late' => Ahead' = {}
    BY <1>6 DEF Limits!NewMonth, Ahead
  <2>2. posts' = 0 /\ passed'.posts = 0 /\ uncounted' = 0
    BY <1>6 DEF Limits!NewMonth
  <2> QED
    BY <2>1, <2>2, SpareIsNat DEF OvershootInv, Others
<1>7. ASSUME \/ \E k \in 1..Cost : Limits!RecordTokens(k)
             \/ Limits!RecordLate
             \/ \E c \in Codes : Limits!ChangePlan(c)
             \/ Limits!Cancel
             \/ UNCHANGED planVars
      PROVE  OvershootInv'
  BY <1>2, <1>7 DEF Limits!RecordTokens, Limits!RecordLate, Limits!ChangePlan, Limits!Cancel,
                    planVars, Ahead
<1>8. 1 \in 1..Batch
  BY LimitAssumption
<1>9. ASSUME NEW n \in 1..Batch, NEW k, Limits!EnginePosts(n, k)
      PROVE  OvershootInv'
  <2>1. /\ Ahead' = Ahead /\ UNCHANGED <<request, passed, late>>
        /\ posts' = posts + n /\ uncounted' = uncounted + n
    BY <1>9 DEF Limits!EnginePosts, Ahead
  <2>2. /\ posts \in Nat /\ passed.posts \in Nat /\ uncounted \in Nat /\ n \in Nat
        /\ \A t \in Ahead : request[t].n \in Nat
    BY LimitAssumption DEF LimitInv, LimitTyped, Ahead
  <2>3. (Cardinality(Ahead) - 1) * Batch \in Int /\ Others * Batch \in Int
    BY AheadIsFinite, LimitAssumption, TimesNext
  <2>4. ASSUME NEW t \in Ahead, RoomFor(t)
        PROVE  RoomFor(t)'
    <3>1. /\ (Cardinality(Ahead') - 1) * Batch = (Cardinality(Ahead) - 1) * Batch
          /\ Others' * Batch = Others * Batch
      BY <2>1 DEF Others
    <3> QED
      BY <2>1, <2>2, <2>3, <2>4, <3>1 DEF RoomFor
  <2> QED
    BY <2>1, <2>2, <2>3, <2>4 DEF LimitInv, OvershootInv, Others
<1> QED
  BY <1>1, <1>3, <1>4, <1>5, <1>6, <1>7, <1>8, <1>9, CheckFindsRoom, PostsWereCounted
     DEF Limits!Next, LimitInv

LEMMA LimitAlone == [Next]_vars => [Limits!Next]_planVars
BY DEF Next, vars, planVars

\* Requests that check at the same time overshoot the posts of a month by what the others
\* of them add, and by what the engine added unasked since the last of them passed, and no
\* more (schedule's check and its transaction, the planner's inserts), however many
\* requests, channels and months there are and whatever the plan becomes in between.
THEOREM OvershootBounded == Spec => []PostsOvershootIsBounded
<1>1. Init => LimitInv
  BY LimitInit DEF Init
<1>2. LimitInv /\ [Next]_vars => LimitInv'
  BY LimitStep, LimitAlone
<1> QED
  BY <1>1, <1>2, LimitInvHolds, PTL DEF Spec

-----------------------------------------------------------------------------
(***************************************************************************)
(* Payments.  A reference is marked in the transaction that credits it,    *)
(* and at most one transaction at a time works on a reference.  What is    *)
(* owed never lies behind the date in the row, and a row leaves the paying *)
(* states only where nothing is owed, or by a cancellation.                *)
(***************************************************************************)
PayTask ==
    [op : {"none", "apply", "state", "cancel", "backfill"},
     pc : {"idle", "mark", "write", "invalidate", "fill", "update", "create"},
     proc : Processes \cup {"none"}, ref : Refs \cup {"none", "disable"}, end : Int,
     locked : BOOLEAN]

PayStates == {"none", "TRIALING", "ACTIVE", "PAST_DUE", "CANCELED"}

PayTyped ==
    /\ now \in Nat /\ owed \in Nat
    /\ sub \in [status : PayStates, end : Int, card : BOOLEAN]
    /\ event \subseteq Refs \cup {"disable"} /\ marker \subseteq Refs
    /\ credited \in [Refs -> Nat]
    /\ task \in [Tasks -> PayTask]
    /\ \A t \in Tasks : task[t].pc \in {"mark", "write"} => task[t].ref \in Refs

CreditedWhenMarked ==
    /\ \A r \in Refs : credited[r] = IF r \in marker THEN 1 ELSE 0
    /\ \A t \in Tasks : task[t].pc = "write" => task[t].ref \notin marker
    /\ \A t, u \in Tasks :
         t # u /\ task[t].pc = "write" /\ task[u].pc = "write" => task[t].ref # task[u].ref

OwedIsHeld ==
    /\ owed > 0 => sub.end >= owed /\ sub.status \notin {"none", "TRIALING"}
    /\ sub.status \in {"none", "TRIALING"} => ~sub.card
    /\ sub.status = "PAST_DUE" => owed <= now /\ ~sub.card

PayInv == PayTyped /\ CreditedWhenMarked /\ OwedIsHeld

LEMMA PayInit == Payments!Init => PayInv
BY DEF Payments!Init, Payments!Free, Payments!Never, PayTask, PayStates, PayInv, PayTyped,
       CreditedWhenMarked, OwedIsHeld

LEMMA FreeTask == Payments!Free \in PayTask /\ Payments!Free.pc = "idle"
BY DEF Payments!Free, Payments!Never, PayTask

LEMMA PayTypedStep ==
    ASSUME PayTyped, [Payments!Next]_moneyVars
    PROVE  PayTyped'
<1> USE DEF PayTyped, PayTask, PayStates, Payments!Free, Payments!Never, Payments!Begin,
            Payments!Done, Payments!At
<1>1. ASSUME NEW r \in Refs, Payments!Checkout(r) \/ Payments!Charge(r)
      PROVE  PayTyped'
  BY <1>1 DEF Payments!Checkout, Payments!Charge
<1>2. ASSUME NEW e \in event, Payments!GiveUp(e)
      PROVE  PayTyped'
  BY <1>2 DEF Payments!GiveUp
<1>3. CASE Payments!Tick \/ Payments!DisableCard \/ UNCHANGED moneyVars
  BY <1>3 DEF Payments!Tick, Payments!DisableCard, moneyVars
<1>4. ASSUME NEW p \in Processes, Payments!StartTrial(p)
      PROVE  PayTyped'
  BY <1>4 DEF Payments!StartTrial, Payments!Trial
<1>5. ASSUME NEW p \in Processes, Payments!Sweep(p)
      PROVE  PayTyped'
  <2>1. Payments!Swept \in [status : PayStates, end : Int, card : BOOLEAN]
    BY DEF Payments!Swept, Payments!TrialOver, Payments!MonthOver, Payments!Comped
  <2> QED
    BY <1>5, <2>1 DEF Payments!Sweep
<1>6. ASSUME NEW p \in Processes, Payments!Crash(p)
      PROVE  PayTyped'
  BY <1>6 DEF Payments!Crash
<1>7. ASSUME NEW t \in Tasks, Payments!FillCache(t)
      PROVE  PayTyped'
  BY <1>7 DEF Payments!FillCache
<1>13. ASSUME NEW t \in Tasks, Payments!MarkAndRead(t)
       PROVE  PayTyped'
  <2>1. CASE Payments!Marked(task[t].ref)
    <3>1. task' = [task EXCEPT ![t] = Payments!Free] /\ event' = event \ {task[t].ref}
      BY <1>13, <2>1 DEF Payments!MarkAndRead
    <3>2. UNCHANGED <<now, sub, marker, credited, owed>>
      BY <1>13 DEF Payments!MarkAndRead
    <3> QED
      BY <3>1, <3>2
  <2>2. CASE ~Payments!Marked(task[t].ref)
    <3>1. task' = [task EXCEPT ![t] = [task[t] EXCEPT !.pc = "write", !.end = sub.end]]
      BY <1>13, <2>2 DEF Payments!MarkAndRead
    <3>2. task[t].ref \in Refs
      BY <1>13 DEF Payments!MarkAndRead
    <3> QED
      BY <1>13, <2>2, <3>1, <3>2 DEF Payments!MarkAndRead
  <2> QED
    BY <2>1, <2>2
<1>8. ASSUME NEW t \in Tasks, Payments!ApplyPayment(t)
      PROVE  PayTyped'
  <2>1. task[t].end \in Int /\ Payments!Extended(task[t].end) \in Int /\ Payments!Earned(t) \in Nat
    BY DEF Payments!Extended, Payments!Earned, Payments!Month
  <2>2. task[t].ref \in Refs
    BY <1>8 DEF Payments!ApplyPayment
  <2>3. sub' \in [status : PayStates, end : Int, card : BOOLEAN]
    BY <1>8, <2>1 DEF Payments!ApplyPayment, Payments!Month
  <2>4. task' \in [Tasks -> PayTask]
        /\ \A u \in Tasks : task'[u].pc \in {"mark", "write"} => task'[u].ref \in Refs
    BY <1>8 DEF Payments!ApplyPayment
  <2> QED
    BY <1>8, <2>1, <2>2, <2>3, <2>4 DEF Payments!ApplyPayment
<1>9. ASSUME NEW t \in Tasks, Payments!Invalidate(t)
      PROVE  PayTyped'
  BY <1>9 DEF Payments!Invalidate
<1>14. ASSUME NEW t \in Tasks, Payments!CancelSubscription(t)
       PROVE  PayTyped'
  BY <1>14 DEF Payments!CancelSubscription
<1>15. ASSUME NEW t \in Tasks, Payments!CreateMissing(t)
       PROVE  PayTyped'
  <2>1. /\ task' = [task EXCEPT ![t] = Payments!Free] /\ task[t].end \in Int
        /\ UNCHANGED <<now, owed, event, marker, credited>>
    BY <1>15 DEF Payments!CreateMissing
  <2>2. CASE Payments!NoRowYet
    <3>1. \E x \in PayStates, e \in Int : sub' = [status |-> x, end |-> e, card |-> FALSE]
      BY <1>15, <2>1, <2>2 DEF Payments!CreateMissing
    <3> QED
      BY <2>1, <3>1
  <2>3. CASE ~Payments!NoRowYet
    BY <1>15, <2>1, <2>3 DEF Payments!CreateMissing
  <2> QED
    BY <2>2, <2>3
<1>10. ASSUME NEW t \in Tasks, NEW p \in Processes, NEW m, NEW x,
              Payments!ReadState(t, p, m, x)
       PROVE  PayTyped'
  <2>1. Payments!Locked \in BOOLEAN /\ Payments!EndsAt \in Int
    BY DEF Payments!Locked, Payments!EndsAt
  <2> QED
    BY <1>10, <2>1 DEF Payments!ReadState
<1>11. ASSUME NEW t \in Tasks, NEW p \in Processes, NEW r \in Refs,
              Payments!Deliver(t, p, r) \/ Payments!VerifyPayment(t, p, r)
       PROVE  PayTyped'
  <2>1. task' = [task EXCEPT ![t] = [Payments!Free EXCEPT !.op = "apply", !.pc = "mark",
                                                        !.proc = p, !.ref = r]]
    BY <1>11 DEF Payments!Deliver, Payments!VerifyPayment
  <2>2. UNCHANGED <<now, sub, marker, event, credited, owed>>
    BY <1>11 DEF Payments!Deliver, Payments!VerifyPayment
  <2> HIDE DEF Payments!Free
  <2> QED
    BY <2>1, <2>2, FreeTask
<1>12. ASSUME NEW t \in Tasks, NEW p \in Processes, Payments!FindDisabled(t, p)
       PROVE  PayTyped'
  <2>1. task' = [task EXCEPT ![t] = [Payments!Free EXCEPT !.op = "cancel", !.pc = "update",
                                                        !.proc = p, !.ref = "disable"]]
    BY <1>12 DEF Payments!FindDisabled
  <2>2. UNCHANGED <<now, sub, marker, event, credited, owed>>
    BY <1>12 DEF Payments!FindDisabled
  <2> HIDE DEF Payments!Free
  <2> QED
    BY <2>1, <2>2, FreeTask
<1>16. ASSUME NEW t \in Tasks, NEW p \in Processes, Payments!FindOrphan(t, p)
       PROVE  PayTyped'
  <2>1. task' = [task EXCEPT ![t] = [Payments!Free EXCEPT !.op = "backfill", !.pc = "create",
                                                        !.proc = p, !.end = now + Payments!Trial]]
    BY <1>16 DEF Payments!FindOrphan
  <2>2. UNCHANGED <<now, sub, marker, event, credited, owed>> /\ now + Payments!Trial \in Int
    BY <1>16 DEF Payments!FindOrphan, Payments!Trial
  <2> HIDE DEF Payments!Free
  <2> QED
    BY <2>1, <2>2, FreeTask
<1> QED
  BY <1>1, <1>2, <1>3, <1>4, <1>5, <1>6, <1>7, <1>8, <1>9, <1>10, <1>11, <1>12,
     <1>13, <1>14, <1>15, <1>16
     DEF Payments!Next, Payments!Paystack, Payments!Work, Payments!Arrive

LEMMA CreditedStep ==
    ASSUME PayTyped, CreditedWhenMarked, [Payments!Next]_moneyVars
    PROVE  CreditedWhenMarked'
<1> USE DEF PayTyped, PayTask, CreditedWhenMarked, Payments!Free, Payments!Begin,
            Payments!Done, Payments!At
<1>1. CASE UNCHANGED <<marker, credited, task>>
  BY <1>1
<1>2. ASSUME NEW p \in Processes, Payments!Crash(p)
      PROVE  CreditedWhenMarked'
  BY <1>2 DEF Payments!Crash
<1>3. ASSUME NEW t \in Tasks,
             Payments!FillCache(t) \/ Payments!Invalidate(t) \/ Payments!CreateMissing(t)
      PROVE  CreditedWhenMarked'
  BY <1>3 DEF Payments!FillCache, Payments!Invalidate, Payments!CreateMissing
<1>4. ASSUME NEW t \in Tasks, Payments!MarkAndRead(t)
      PROVE  CreditedWhenMarked'
  BY <1>4 DEF Payments!MarkAndRead, Payments!Holding, Payments!Marked
<1>5. ASSUME NEW t \in Tasks, Payments!ApplyPayment(t)
      PROVE  CreditedWhenMarked'
  <2>1. task[t].ref \in Refs /\ task[t].ref \notin marker
    BY <1>5 DEF Payments!ApplyPayment
  <2> QED
    BY <1>5, <2>1 DEF Payments!ApplyPayment
<1>6. ASSUME NEW t \in Tasks, Payments!CancelSubscription(t)
      PROVE  CreditedWhenMarked'
  BY <1>6 DEF Payments!CancelSubscription
<1>7. ASSUME NEW t \in Tasks, NEW p \in Processes, NEW r \in Refs,
             Payments!Deliver(t, p, r) \/ Payments!VerifyPayment(t, p, r)
      PROVE  CreditedWhenMarked'
  <2>1. task' = [task EXCEPT ![t] = [Payments!Free EXCEPT !.op = "apply", !.pc = "mark",
                                                        !.proc = p, !.ref = r]]
    BY <1>7 DEF Payments!Deliver, Payments!VerifyPayment
  <2>2. UNCHANGED <<marker, credited>>
    BY <1>7 DEF Payments!Deliver, Payments!VerifyPayment
  <2> QED
    BY <2>1, <2>2
<1>8. ASSUME NEW t \in Tasks, NEW p \in Processes, NEW m, NEW x, Payments!ReadState(t, p, m, x)
      PROVE  CreditedWhenMarked'
  BY <1>8 DEF Payments!ReadState
<1>9. ASSUME NEW t \in Tasks, NEW p \in Processes,
             Payments!FindDisabled(t, p) \/ Payments!FindOrphan(t, p)
      PROVE  CreditedWhenMarked'
  <2>1. task'[t].pc # "write" /\ \A u \in Tasks : u # t => task'[u] = task[u]
    <3>1. CASE Payments!FindDisabled(t, p)
      <4>1. task' = [task EXCEPT ![t] = [Payments!Free EXCEPT !.op = "cancel", !.pc = "update",
                                                            !.proc = p, !.ref = "disable"]]
        BY <3>1 DEF Payments!FindDisabled
      <4> QED
        BY <4>1
    <3>2. CASE Payments!FindOrphan(t, p)
      <4>1. task' = [task EXCEPT ![t] = [Payments!Free EXCEPT !.op = "backfill", !.pc = "create",
                                           !.proc = p, !.end = now + Payments!Trial]]
        BY <3>2 DEF Payments!FindOrphan
      <4> QED
        BY <4>1
    <3> QED
      BY <1>9, <3>1, <3>2
  <2>2. UNCHANGED <<marker, credited>>
    BY <1>9 DEF Payments!FindDisabled, Payments!FindOrphan
  <2> QED
    BY <2>1, <2>2
<1> QED
  BY <1>1, <1>2, <1>3, <1>4, <1>5, <1>6, <1>7, <1>8, <1>9
     DEF Payments!Next, Payments!Paystack, Payments!Checkout, Payments!Charge,
         Payments!DisableCard, Payments!GiveUp, Payments!Tick, Payments!StartTrial,
         Payments!Sweep, Payments!Work, Payments!Arrive, moneyVars

LEMMA OwedStep ==
    ASSUME PayTyped, OwedIsHeld, [Payments!Next]_moneyVars
    PROVE  OwedIsHeld'
<1> USE DEF PayTyped, PayTask, PayStates, OwedIsHeld
<1>1. CASE UNCHANGED <<now, sub, owed>>
  BY <1>1
<1>2. CASE Payments!Tick
  BY <1>2 DEF Payments!Tick
<1>3. ASSUME NEW p \in Processes, Payments!StartTrial(p)
      PROVE  OwedIsHeld'
  BY <1>3 DEF Payments!StartTrial
<1>4. ASSUME NEW p \in Processes, Payments!Sweep(p)
      PROVE  OwedIsHeld'
  <2>1. sub' = Payments!Swept /\ UNCHANGED <<now, owed>>
    BY <1>4 DEF Payments!Sweep
  <2>2. CASE Payments!TrialOver \/ Payments!MonthOver
    <3>1. sub' = [sub EXCEPT !.status = "PAST_DUE"]
      BY <2>1, <2>2 DEF Payments!Swept, Payments!TrialOver, Payments!MonthOver, Payments!Comped
    <3>2. sub.end <= now /\ ~sub.card
      BY <2>2 DEF Payments!TrialOver, Payments!MonthOver, Payments!Over
    <3> QED
      BY <2>1, <3>1, <3>2
  <2>3. CASE ~(Payments!TrialOver \/ Payments!MonthOver) /\ Payments!Comped
    <3>1. sub' = [sub EXCEPT !.status = "ACTIVE"]
      BY <2>1, <2>3 DEF Payments!Swept
    <3> QED
      BY <2>1, <3>1
  <2>4. CASE ~(Payments!TrialOver \/ Payments!MonthOver) /\ ~Payments!Comped
    <3>1. Payments!Swept = sub
      BY <2>4, Zenon DEF Payments!Swept
    <3> QED
      BY <1>1, <2>1, <3>1
  <2> QED
    BY <2>2, <2>3, <2>4
<1>5. ASSUME NEW t \in Tasks, Payments!CreateMissing(t)
      PROVE  OwedIsHeld'
  BY <1>5 DEF Payments!CreateMissing, Payments!NoRowYet
<1>6. ASSUME NEW t \in Tasks, Payments!ApplyPayment(t)
      PROVE  OwedIsHeld'
  <2> DEFINE k == Kind[task[t].ref]
             from == IF task[t].end = sub.end THEN owed ELSE task[t].end
  <2>1. /\ sub'.status = "ACTIVE" /\ owed' = Payments!Earned(t)
        /\ sub'.end = CASE k = "once" -> Payments!Extended(task[t].end)
                        [] k = "card" -> now + Payments!Month
                        [] OTHER -> sub.end
    BY <1>6 DEF Payments!ApplyPayment
  <2>2. CASE k = "once"
    <3>1. owed' = Payments!Month + (IF from > now THEN from ELSE now)
          /\ sub'.end = Payments!Extended(task[t].end)
      BY <2>1, <2>2 DEF Payments!Earned
    <3>2. task[t].end \in Int /\ from \in Int /\ (from <= task[t].end \/ from = 0)
      OBVIOUS
    <3> QED
      BY <2>1, <3>1, <3>2 DEF Payments!Extended, Payments!Month, Payments!Never
  <2>3. CASE k = "card"
    <3>1. owed' = now + Payments!Month /\ sub'.end = now + Payments!Month
      BY <2>1, <2>3 DEF Payments!Earned
    <3> QED
      BY <2>1, <3>1 DEF Payments!Month
  <2>4. CASE k \notin {"once", "card"}
    BY <2>1, <2>4 DEF Payments!Earned
  <2> QED
    BY <2>2, <2>3, <2>4
<1>7. ASSUME NEW t \in Tasks, Payments!CancelSubscription(t)
      PROVE  OwedIsHeld'
  BY <1>7 DEF Payments!CancelSubscription
<1> QED
  BY <1>1, <1>2, <1>3, <1>4, <1>5, <1>6, <1>7
     DEF Payments!Next, Payments!Paystack, Payments!Checkout, Payments!Charge,
         Payments!DisableCard, Payments!GiveUp, Payments!Crash, Payments!Work,
         Payments!FillCache, Payments!MarkAndRead, Payments!Invalidate, Payments!Arrive,
         Payments!ReadState, Payments!Deliver, Payments!VerifyPayment, Payments!FindDisabled,
         Payments!FindOrphan, moneyVars

LEMMA PayStep ==
    ASSUME PayInv, [Payments!Next]_moneyVars
    PROVE  PayInv'
BY PayTypedStep, CreditedStep, OwedStep DEF PayInv

LEMMA PayAlone == [Next]_vars => [Payments!Next]_moneyVars
BY DEF Next, vars, moneyVars

LEMMA PayAlways == Spec => []PayInv
<1>1. Init => PayInv
  BY PayInit DEF Init
<1>2. PayInv /\ [Next]_vars => PayInv'
  BY PayStep, PayAlone
<1> QED
  BY <1>1, <1>2, PTL DEF Spec

\* Time that was paid for is not read-only before its end, and a workspace with a card
\* behind it is not, unless the card was cancelled: for any number of payments of any kind
\* at once, whatever is delivered again, crossed, swept, backfilled or lost in between
\* (applyPayment, sweep, backfillMissing, decide).
THEOREM PaidStands == Spec => []PaidTimeStands
<1>1. PayInv => PaidTimeStands
  BY DEF PayInv, PayTyped, PayStates, OwedIsHeld, PaidTimeStands, Payments!PaidTimeStands,
         Payments!Locked, Payments!Over
<1> QED
  BY <1>1, PayAlways, PTL

-----------------------------------------------------------------------------
(***************************************************************************)
(* Webhooks, one delivery at a time: what is being created is not stored.  *)
(***************************************************************************)
RepeatInv ==
    part = "repeats" =>
       /\ stored \in [Events -> Nat]
       /\ delivery \in [{"t"} -> [pc : {"idle", "verify", "find", "create", "answer"},
                                  ev : Events \cup {"none"}]]
       /\ delivery["t"].pc # "idle" => delivery["t"].ev \in Events
       /\ \A e \in Named : stored[e] <= 1
       /\ delivery["t"].pc = "create" /\ delivery["t"].ev \in Named
            => stored[delivery["t"].ev] = 0

LEMMA RepeatInit == Init => RepeatInv
<1> SUFFICES ASSUME Init, part = "repeats"
             PROVE  RepeatInv
  BY DEF RepeatInv
<1>1. Repeats!Init
  BY DEF Init
<1> QED
  BY <1>1, MetaAssumption DEF Repeats!Init, Repeats!Idle, RepeatInv

LEMMA RepeatStep ==
    ASSUME RepeatInv, [Next]_vars
    PROVE  RepeatInv'
<1> SUFFICES ASSUME part' = "repeats"
             PROVE  RepeatInv'
  BY DEF RepeatInv
<1>0. part = "repeats"
  BY DEF Next, vars
<1> USE <1>0, MetaAssumption DEF RepeatInv
<1>1. CASE UNCHANGED <<delivery, stored>>
  BY <1>1
<1>2. ASSUME NEW e \in Events, Repeats!Arrive("t", e)
      PROVE  RepeatInv'
  BY <1>2 DEF Repeats!Arrive, Repeats!Idle
<1>3. CASE Repeats!Verify("t")
  BY <1>3 DEF Repeats!Verify, Repeats!End, Repeats!Goto, Repeats!Idle
<1>4. CASE Repeats!FindFirst("t")
  BY <1>4 DEF Repeats!FindFirst, Repeats!Seen, Repeats!Answer, Repeats!End, Repeats!Goto,
              Repeats!Idle
<1>5. CASE Repeats!Create("t")
  BY <1>5 DEF Repeats!Create, Repeats!Goto
<1>6. CASE Repeats!Reply("t") \/ Repeats!Lose("t")
  BY <1>6 DEF Repeats!Reply, Repeats!Lose, Repeats!Answer, Repeats!End, Repeats!Idle
<1> QED
  BY <1>1, <1>2, <1>3, <1>4, <1>5, <1>6 DEF Next, vars, hookVars, Repeats!Next

\* A payment is credited once, by however many webhooks, retries and returning browsers it
\* is brought (applyPayment), and a delivery of Meta's that is repeated after a lost answer
\* is stored once (the webhook's event id).
THEOREM CountedOnce == Spec => []EachDeliveryCountsOnce
<1>1. Init => RepeatInv
  BY RepeatInit
<1>2. RepeatInv /\ [Next]_vars => RepeatInv'
  BY RepeatStep
<1>3. PayInv /\ RepeatInv => EachDeliveryCountsOnce
  BY DEF PayInv, CreditedWhenMarked, RepeatInv, EachDeliveryCountsOnce,
         Payments!CreditedOnce, Repeats!StoredOnce
<1> QED
  BY <1>1, <1>2, <1>3, PayAlways, PTL DEF Spec

-----------------------------------------------------------------------------
(***************************************************************************)
(* Letters.  Where Resend honours a key, a key it has answered was that of *)
(* a letter that arrived, and a letter that arrived has its key answered.  *)
(* Where it does not, a letter has no more copies than it has used tries.  *)
(***************************************************************************)
LetterTyped ==
    /\ honours \in BOOLEAN
    /\ letter \in [Letters -> [told : {"unwritten", "nothing", "sent", "failed", "lost"},
                               key : {<<>>} \cup (Templates \X Addresses \X Int),
                               tries : 0..2, copies : Nat]]
    /\ hour \in Int

LettersInv ==
    /\ LetterTyped
    /\ \A l \in Letters : Post!Sending(l) => letter[l].tries >= 1
    /\ \A l \in Letters : letter[l].told = "unwritten" => letter[l].copies = 0
    /\ \A l \in Letters : letter[l].told = "sent" => Post!Arrived(letter[l].key)
    /\ honours => /\ \A l \in Letters : letter[l].copies <= 1
                  /\ \A l \in Letters : letter[l].copies = 1 => letter[l].key \in taken
                  /\ \A k \in taken : Post!Arrived(k)
    /\ ~honours => /\ \A l \in Letters : letter[l].copies <= 2
                   /\ \A l \in Letters : Post!Sending(l) => letter[l].copies + letter[l].tries <= 2

LEMMA LettersInit == Post!Init => LettersInv
BY DEF Post!Init, Post!Unwritten, Post!Sending, LettersInv, LetterTyped

\* What a letter with one field changed is.
LEMMA Changed ==
    ASSUME LetterTyped, NEW l \in Letters
    PROVE  /\ \A told : [letter[l] EXCEPT !.told = told]
                 = [told |-> told, key |-> letter[l].key, tries |-> letter[l].tries,
                    copies |-> letter[l].copies]
           /\ \A n : [letter[l] EXCEPT !.tries = n]
                 = [told |-> letter[l].told, key |-> letter[l].key, tries |-> n,
                    copies |-> letter[l].copies]
           /\ \A told, its, tries, copies, n :
                 [[told |-> told, key |-> its, tries |-> tries, copies |-> copies]
                     EXCEPT !.copies = @ + n]
                 = [told |-> told, key |-> its, tries |-> tries, copies |-> copies + n]
BY DEF LetterTyped

\* What arrived stays so while letters keep their keys and their copies.
LEMMA ArrivedStays ==
    ASSUME NEW k, Post!Arrived(k),
           \A l \in Letters : letter[l].copies > 0
               => letter'[l].key = letter[l].key /\ letter'[l].copies > 0
    PROVE  Post!Arrived(k)'
BY DEF Post!Arrived

\* A step that delivers nothing: one letter is written, or hears of its last try.
LEMMA NothingDelivered ==
    ASSUME LettersInv, NEW l \in Letters, UNCHANGED <<hour, honours, taken>>,
           NEW told \in {"nothing", "failed", "lost"}, NEW tries \in 1..2,
           NEW its \in {<<>>} \cup (Templates \X Addresses \X Int),
           NEW new, new = [told |-> told, key |-> its, tries |-> tries,
                           copies |-> letter[l].copies],
           letter' = [letter EXCEPT ![l] = new],
           \/ letter[l].told = "unwritten"
           \/ Post!Sending(l) /\ its = letter[l].key /\ tries <= letter[l].tries
    PROVE  LettersInv'
<1> USE DEF LettersInv, LetterTyped, Post!Sending
<1>1. /\ letter'[l] = [told |-> told, key |-> its, tries |-> tries, copies |-> letter[l].copies]
      /\ \A m \in Letters \ {l} : letter'[m] = letter[m]
  OBVIOUS
<1>2. LetterTyped'
  OBVIOUS
<1>3. \A m \in Letters : letter[m].copies > 0
         => letter'[m].key = letter[m].key /\ letter'[m].copies > 0
  BY <1>1
<1>4. \A m \in Letters : letter'[m].told = "sent" => Post!Arrived(letter[m].key)'
  <2> SUFFICES ASSUME NEW m \in Letters, letter'[m].told = "sent"
               PROVE  Post!Arrived(letter[m].key)'
    OBVIOUS
  <2>1. m # l /\ letter'[m] = letter[m] /\ Post!Arrived(letter[m].key)
    BY <1>1
  <2>2. PICK k : k = letter[m].key
    OBVIOUS
  <2>3. Post!Arrived(k)'
    BY <1>3, <2>1, <2>2, ArrivedStays
  <2> QED
    BY <2>1, <2>2, <2>3 DEF Post!Arrived
<1>5. honours => \A k \in taken : Post!Arrived(k)'
  BY <1>3, ArrivedStays
<1>6. \A m \in Letters : letter'[m].copies = letter[m].copies
                         /\ (letter[m].copies = 1 => letter'[m].key = letter[m].key)
  BY <1>1
<1> QED
  BY <1>1, <1>2, <1>4, <1>5, <1>6

LEMMA LandStep ==
    ASSUME LettersInv, NEW l \in Letters, NEW b \in BOOLEAN, Post!Land(l, b)
    PROVE  LettersInv'
<1> USE DEF LettersInv, LetterTyped, Post!Sending
<1>1. PICK told \in {"nothing", "sent", "failed"}, tries \in 1..2 :
        /\ letter' = [letter EXCEPT ![l] = [told |-> told, key |-> letter[l].key, tries |-> tries,
                                            copies |-> letter[l].copies + Post!Copy(l)]]
        /\ told = "nothing" => tries + 1 <= letter[l].tries
  <2>1. letter[l].tries \in 1..2 /\ letter[l].told = "nothing"
    BY DEF Post!Land
  <2> DEFINE after == IF b THEN [letter[l] EXCEPT !.told = "sent"] ELSE Post!Unanswered(l)
  <2>2. letter' = [letter EXCEPT ![l] = [after EXCEPT !.copies = @ + Post!Copy(l)]]
    BY DEF Post!Land
  <2>3. PICK told \in {"nothing", "sent", "failed"}, tries \in 1..2 :
          /\ after = [told |-> told, key |-> letter[l].key, tries |-> tries,
                       copies |-> letter[l].copies]
          /\ told = "nothing" => tries + 1 <= letter[l].tries
    <3>1. CASE b
      <4>1. after = [told |-> "sent", key |-> letter[l].key, tries |-> letter[l].tries,
                     copies |-> letter[l].copies]
        BY <3>1, Changed
      <4> QED
        BY <2>1, <4>1
    <3>2. CASE ~b /\ letter[l].tries > 1
      <4>1. after = [told |-> "nothing", key |-> letter[l].key, tries |-> 1,
                     copies |-> letter[l].copies]
        BY <2>1, <3>2, Changed DEF Post!Unanswered
      <4> QED
        BY <2>1, <3>2, <4>1
    <3>3. CASE ~b /\ ~(letter[l].tries > 1)
      <4>1. after = [told |-> "failed", key |-> letter[l].key, tries |-> letter[l].tries,
                     copies |-> letter[l].copies]
        BY <2>1, <3>3, Changed DEF Post!Unanswered
      <4> QED
        BY <2>1, <4>1
    <3> QED
      BY <3>1, <3>2, <3>3
  <2>4. [after EXCEPT !.copies = @ + Post!Copy(l)]
          = [told |-> told, key |-> letter[l].key, tries |-> tries,
             copies |-> letter[l].copies + Post!Copy(l)]
    BY <2>3, Changed
  <2> QED
    BY <2>2, <2>3, <2>4
<1>2. /\ UNCHANGED <<hour, honours>> /\ taken' = taken \cup {letter[l].key}
      /\ Post!Copy(l) = IF honours /\ letter[l].key \in taken THEN 0 ELSE 1
      /\ letter[l].told = "nothing" /\ letter[l].tries >= 1
  BY DEF Post!Land, Post!Key, Post!Copy
<1>3. /\ letter'[l] = [told |-> told, key |-> letter[l].key, tries |-> tries,
                       copies |-> letter[l].copies + Post!Copy(l)]
      /\ \A m \in Letters \ {l} : letter'[m] = letter[m]
      /\ Post!Copy(l) \in Nat
  BY <1>1, <1>2
<1>4. LetterTyped'
  BY <1>1, <1>2, <1>3
<1>5. \A m \in Letters : letter[m].copies > 0
         => letter'[m].key = letter[m].key /\ letter'[m].copies > 0
  BY <1>3
<1>6. PICK k0 : k0 = letter[l].key /\ k0 = letter'[l].key
  BY <1>3
<1>12. Post!Arrived(k0)'
  <2>1. CASE honours /\ letter[l].key \in taken
    BY <1>5, <1>6, <2>1, ArrivedStays
  <2>2. CASE ~(honours /\ letter[l].key \in taken)
    <3>1. letter'[l].key = letter[l].key /\ letter'[l].copies > 0
      BY <1>2, <1>3, <2>2
    <3> QED
      BY <1>6, <3>1 DEF Post!Arrived
  <2> QED
    BY <2>1, <2>2
<1>7. \A m \in Letters : letter'[m].told = "sent" => Post!Arrived(letter[m].key)'
  <2> SUFFICES ASSUME NEW m \in Letters, letter'[m].told = "sent"
               PROVE  Post!Arrived(letter[m].key)'
    OBVIOUS
  <2>1. CASE m = l
    BY <1>6, <1>12, <2>1 DEF Post!Arrived
  <2>2. CASE m # l
    <3>1. letter'[m] = letter[m] /\ Post!Arrived(letter[m].key)
      BY <1>3, <2>2
    <3>2. PICK k : k = letter[m].key
      OBVIOUS
    <3>3. Post!Arrived(k)'
      BY <1>5, <3>1, <3>2, ArrivedStays
    <3> QED
      BY <3>1, <3>2, <3>3 DEF Post!Arrived
  <2> QED
    BY <2>1, <2>2
<1>8. honours => \A k \in taken' : Post!Arrived(k)'
  BY <1>2, <1>5, <1>6, <1>12, ArrivedStays
<1>9. honours => \A m \in Letters : /\ letter'[m].copies <= 1
                                    /\ letter'[m].copies = 1 => letter'[m].key \in taken'
  BY <1>2, <1>3
<1>10. ~honours => \A m \in Letters :
         /\ letter'[m].copies <= 2
         /\ letter'[m].told = "nothing" => letter'[m].copies + letter'[m].tries <= 2
  BY <1>1, <1>2, <1>3
<1>11. \A m \in Letters : /\ letter'[m].told = "nothing" => letter'[m].tries >= 1
                          /\ letter'[m].told = "unwritten" => letter'[m].copies = 0
  BY <1>1, <1>3
<1> QED
  BY <1>2, <1>4, <1>7, <1>8, <1>9, <1>10, <1>11

LEMMA LettersStep ==
    ASSUME LettersInv, [Post!Next]_mailVars
    PROVE  LettersInv'
<1>1. CASE UNCHANGED <<honours, letter, taken>> /\ hour' \in Int
  BY <1>1 DEF LettersInv, LetterTyped, Post!Sending, Post!Arrived
<1>2. ASSUME NEW l \in Letters, NEW k \in Templates, NEW o \in Addresses, Post!Send(l, k, o)
      PROVE  LettersInv'
  <2>1. <<k, o, hour>> \in Templates \X Addresses \X Int
    BY DEF LettersInv, LetterTyped
  <2>2. letter[l].told = "unwritten" /\ letter[l].copies = 0
    BY <1>2 DEF Post!Send, Post!Unwritten
  <2>3. letter' = [letter EXCEPT ![l] = [told |-> "nothing", key |-> <<k, o, hour>>,
                                         tries |-> 2, copies |-> letter[l].copies]]
    BY <1>2, <2>2 DEF Post!Send
  <2>4. UNCHANGED <<hour, honours, taken>> /\ 2 \in 1..2
    BY <1>2 DEF Post!Send
  <2> QED
    BY <2>1, <2>2, <2>3, <2>4, NothingDelivered
<1>3. ASSUME NEW l \in Letters, Post!Miss(l) \/ Post!Refuse(l) \/ Post!Crash(l)
      PROVE  LettersInv'
  <2>1. /\ Post!Sending(l) /\ UNCHANGED <<hour, honours, taken>>
        /\ letter[l].tries \in 1..2
        /\ letter[l].key \in {<<>>} \cup (Templates \X Addresses \X Int)
    BY <1>3 DEF Post!Miss, Post!Refuse, Post!Crash, LettersInv, LetterTyped
  <2>2. PICK new : /\ letter' = [letter EXCEPT ![l] = new]
                   /\ \/ letter[l].tries > 1 /\ new = [letter[l] EXCEPT !.tries = 1]
                      \/ new = [letter[l] EXCEPT !.told = "failed"]
                      \/ new = [letter[l] EXCEPT !.told = "lost"]
    BY <1>3 DEF Post!Miss, Post!Unanswered, Post!Refuse, Post!Crash
  <2>3. letter[l].told = "nothing" /\ LetterTyped
    BY <2>1 DEF Post!Sending, LettersInv
  <2>4. PICK told \in {"nothing", "failed", "lost"}, tries \in 1..2 :
          /\ tries <= letter[l].tries
          /\ new = [told |-> told, key |-> letter[l].key, tries |-> tries,
                    copies |-> letter[l].copies]
    <3>1. CASE letter[l].tries > 1 /\ new = [letter[l] EXCEPT !.tries = 1]
      <4>1. new = [told |-> "nothing", key |-> letter[l].key, tries |-> 1,
                   copies |-> letter[l].copies]
        BY <2>3, <3>1, Changed
      <4> QED
        BY <2>1, <3>1, <4>1
    <3>2. CASE new = [letter[l] EXCEPT !.told = "failed"]
      <4>1. new = [told |-> "failed", key |-> letter[l].key, tries |-> letter[l].tries,
                   copies |-> letter[l].copies]
        BY <2>3, <3>2, Changed
      <4> QED
        BY <2>1, <4>1
    <3>3. CASE new = [letter[l] EXCEPT !.told = "lost"]
      <4>1. new = [told |-> "lost", key |-> letter[l].key, tries |-> letter[l].tries,
                   copies |-> letter[l].copies]
        BY <2>3, <3>3, Changed
      <4> QED
        BY <2>1, <4>1
    <3> QED
      BY <2>2, <3>1, <3>2, <3>3
  <2> QED
    BY <2>1, <2>2, <2>4, NothingDelivered
<1> QED
  BY <1>1, <1>2, <1>3, LandStep DEF Post!Next, Post!Tick, mailVars, LettersInv, LetterTyped

LEMMA PostAlone == [Next]_vars => [Post!Next]_mailVars
BY DEF Next, vars, mailVars

\* A letter its caller is told was sent has arrived, from this call or one with its key, and
\* no letter arrives more than once where Resend honours the key, or more than twice where
\* it does not, for any number of calls at once, templates and addresses and however their
\* tries end (EmailService.deliver).
THEOREM MailedAsTold == Spec => []LettersArriveAsTold
<1>1. Init => LettersInv
  BY LettersInit DEF Init
<1>2. LettersInv /\ [Next]_vars => LettersInv'
  BY LettersStep, PostAlone
<1>3. LettersInv => LettersArriveAsTold
  BY DEF LettersInv, LettersArriveAsTold, Post!LettersArriveAsTold
<1> QED
  BY <1>1, <1>2, <1>3, PTL DEF Spec
=============================================================================
