-------------------------- MODULE WorkspaceProofs --------------------------
(***************************************************************************)
(* Proofs about the run of MCWorkspace, part by part as in SignInProofs:   *)
(* a step of MCWorkspace is a step of one instance or leaves the           *)
(* instance's variables alone (the lemmas named Alone), and each property  *)
(* has an inductive invariant over its own instance's variables.           *)
(***************************************************************************)
EXTENDS MCWorkspace, FiniteSetTheorems, SequenceTheorems,
        WellFoundedInduction, NaturalsInduction, TLAPS

-----------------------------------------------------------------------------
\* the least counterexample, which is how a fact about every number is proved here
LEMMA LeastNat ==
    ASSUME NEW T \in SUBSET Nat, T # {}
    PROVE  \E x \in T : \A y \in T : x <= y
<1> DEFINE R == {ss \in Nat \X Nat : ss[1] < ss[2]}
<1>1. IsWellFoundedOn(R, Nat)
  BY NatLessThanWellFounded DEF OpToRel
<1>2. PICK x \in T : \A y \in T : <<y, x>> \notin R
  BY <1>1, WFMin
<1>3. \A y \in T : ~(y < x)
  BY <1>2
<1> QED
  BY <1>3

-----------------------------------------------------------------------------
(***************************************************************************)
(* One account: whoever may yet set a password for a link has claimed it   *)
(* alone, before any was set.                                              *)
(***************************************************************************)
LinkStates == {"live", "used", "expired", "gone"}
Places == Addresses \cup {FirstAddress}
AskedRow ==
    [op : {"none", "register", "login", "change", "email", "request", "reset"},
     pc : {"idle", "create", "session", "write", "retire", "claim", "revoke"},
     pw : Passwords \cup {"none"}, seen : Nat, id : Nat, to : Places]

UserRow ==
    [exists : BOOLEAN, pw : Passwords \cup {"none"}, n : Nat, email : Places]
SessionRow == [n : Nat, live : BOOLEAN]

LinksTyped ==
    /\ link \in Seq([state : LinkStates, to : Places])
    /\ uses \in Seq(Nat) /\ Len(uses) = Len(link)
    /\ session \in Seq(SessionRow)
    /\ user \in UserRow
    /\ asked \in [Tasks -> AskedRow]

Resets(t, i) == asked[t].op = "reset" /\ asked[t].pc = "write" /\ asked[t].id = i

LinksInv ==
    /\ LinksTyped
    /\ \A t \in Tasks : asked[t].op = "reset" => asked[t].id \in DOMAIN link
    /\ \A i \in DOMAIN link :
          /\ uses[i] <= 1
          /\ Person!Unclaimed(i) => uses[i] = 0
          /\ \A t \in Tasks : Resets(t, i) => ~Person!Unclaimed(i) /\ uses[i] = 0
          /\ \A t, u \in Tasks : Resets(t, i) /\ Resets(u, i) => t = u

LEMMA PersonAlone == [Next]_vars => [Person!Next]_(Person!vars)
BY DEF Next, Guards, Posts, Pages, vars, callerVars, personVars, Person!vars

LEMMA LinksInit == Init => LinksInv
BY EmptySeq DEF Init, Person!Init, Person!Idle, LinksInv, LinksTyped, AskedRow, UserRow, Places,
   Resets

\* a step that leaves the links and their uses alone, and no task claiming one
LEMMA AskedOnly ==
    ASSUME LinksInv, NEW t \in Tasks, NEW x \in AskedRow, asked' = [asked EXCEPT ![t] = x],
           x.op = "reset" => x.pc # "write" /\ x.id \in DOMAIN link,
           UNCHANGED <<link, uses>>,
           session' \in Seq(SessionRow), user' \in UserRow
    PROVE  LinksInv'
<1>1. /\ asked' \in [Tasks -> AskedRow] /\ asked'[t] = x
      /\ \A u \in Tasks \ {t} : asked'[u] = asked[u]
  BY DEF LinksInv, LinksTyped
<1>2. LinksTyped'
  BY <1>1 DEF LinksInv, LinksTyped
<1>3. \A u \in Tasks, i \in DOMAIN link : Resets(u, i)' => Resets(u, i)
  BY <1>1 DEF Resets
<1> QED
  BY <1>1, <1>2, <1>3 DEF LinksInv, Person!Unclaimed

\* a link stops being claimable, or a new one is
LEMMA LinksOnly ==
    ASSUME LinksInv, UNCHANGED <<user, session, asked, uses>>,
           link' \in Seq([state : LinkStates, to : Places]), Len(link') = Len(link),
           \A i \in DOMAIN link : Person!Unclaimed(i)' => Person!Unclaimed(i)
    PROVE  LinksInv'
<1>1. LinksTyped'
  BY DEF LinksInv, LinksTyped
<1>2. DOMAIN link' = DOMAIN link
  BY LenProperties DEF LinksInv, LinksTyped
<1> QED
  BY <1>1, <1>2 DEF LinksInv, Resets

\* a task begins, or ends
LEMMA BeginsAsked ==
    ASSUME LinksInv, NEW t \in Tasks
    PROVE  /\ Person!Idle \in AskedRow /\ Person!Idle.op # "reset"
           /\ asked[t] \in AskedRow
           /\ Person!Done(t) => asked' = [asked EXCEPT ![t] = Person!Idle]
BY DEF Person!Idle, Person!Done, AskedRow, Places, LinksInv, LinksTyped

LEMMA AsksAgain ==
    ASSUME LinksInv, NEW t \in Tasks,
           \/ \E pw \in Passwords : Person!RegisterFind(t, pw)
           \/ Person!LoginVerify(t)
           \/ \E s \in Person!Sessions, pw \in Passwords : Person!ChangeVerify(t, s, pw)
           \/ \E s \in Person!Sessions, a \in Addresses : Person!EmailRead(t, s, a)
           \/ \E a \in Addresses : Person!RequestFind(t, a)
           \/ \E i \in Person!Links, pw \in Passwords : Person!ConsumeRead(t, i, pw)
    PROVE  LinksInv'
<1>1. /\ UNCHANGED <<user, link, session, uses>>
      /\ link \in Seq([state : LinkStates, to : Places]) /\ session \in Seq(SessionRow)
      /\ user \in UserRow
  BY DEF Person!RegisterFind, Person!LoginVerify, Person!ChangeVerify, Person!EmailRead,
     Person!RequestFind, Person!ConsumeRead, LinksInv, LinksTyped
<1>2. DOMAIN link = Person!Links /\ Person!Links \subseteq Nat /\ Person!Sessions \subseteq Nat
  BY <1>1, LenProperties DEF Person!Links, Person!Sessions
<1> DEFINE Begun == \E x \in AskedRow :
               /\ asked' = [asked EXCEPT ![t] = x]
               /\ x.op = "reset" => x.pc # "write" /\ x.id \in DOMAIN link
<1>3. Begun
  <2>1. ASSUME NEW pw \in Passwords, Person!RegisterFind(t, pw)
        PROVE  Begun
    <3> DEFINE x == [Person!Idle EXCEPT !.op = "register", !.pc = "create", !.pw = pw]
    <3>1. x \in AskedRow /\ x.op # "reset"
      BY <1>1, <1>2 DEF Person!Idle, AskedRow, Places
    <3>2. asked' = [asked EXCEPT ![t] = x]
      BY <2>1 DEF Person!RegisterFind
    <3> HIDE DEF x
    <3> QED
      BY <1>2, <3>1, <3>2
  <2>2. ASSUME Person!LoginVerify(t)
        PROVE  Begun
    <3> DEFINE x == [Person!Idle EXCEPT !.op = "login", !.pc = "session", !.seen = user.n]
    <3>1. x \in AskedRow /\ x.op # "reset"
      BY <1>1, <1>2 DEF Person!Idle, AskedRow, Places, UserRow
    <3>2. asked' = [asked EXCEPT ![t] = x]
      BY <2>2 DEF Person!LoginVerify
    <3> HIDE DEF x
    <3> QED
      BY <1>2, <3>1, <3>2
  <2>3. ASSUME NEW s \in Person!Sessions, NEW pw \in Passwords, Person!ChangeVerify(t, s, pw)
        PROVE  Begun
    <3> DEFINE x == [Person!Idle EXCEPT !.op = "change", !.pc = "write", !.pw = pw,
                                      !.seen = user.n, !.id = s]
    <3>1. x \in AskedRow /\ x.op # "reset"
      BY <1>1, <1>2 DEF Person!Idle, AskedRow, Places, UserRow
    <3>2. asked' = [asked EXCEPT ![t] = x]
      BY <2>3 DEF Person!ChangeVerify
    <3> HIDE DEF x
    <3> QED
      BY <1>2, <3>1, <3>2
  <2>4. ASSUME NEW s \in Person!Sessions, NEW a \in Addresses, Person!EmailRead(t, s, a)
        PROVE  Begun
    <3> DEFINE x == [Person!Idle EXCEPT !.op = "email", !.pc = "write", !.to = a]
    <3>1. x \in AskedRow /\ x.op # "reset"
      BY <1>1, <1>2 DEF Person!Idle, AskedRow, Places
    <3>2. asked' = [asked EXCEPT ![t] = x]
      BY <2>4 DEF Person!EmailRead
    <3> HIDE DEF x
    <3> QED
      BY <1>2, <3>1, <3>2
  <2>5. ASSUME NEW a \in Addresses, Person!RequestFind(t, a)
        PROVE  Begun
    <3> DEFINE x == [Person!Idle EXCEPT !.op = "request", !.pc = "retire", !.to = a]
    <3>1. x \in AskedRow /\ x.op # "reset"
      BY <1>1, <1>2 DEF Person!Idle, AskedRow, Places
    <3>2. asked' = [asked EXCEPT ![t] = x]
      BY <2>5 DEF Person!RequestFind
    <3> HIDE DEF x
    <3> QED
      BY <1>2, <3>1, <3>2
  <2>6. ASSUME NEW i \in Person!Links, NEW pw \in Passwords, Person!ConsumeRead(t, i, pw)
        PROVE  Begun
    <3> DEFINE x == [Person!Idle EXCEPT !.op = "reset", !.pc = "claim", !.pw = pw, !.id = i]
    <3>1. x \in AskedRow /\ x.op = "reset" /\ x.pc = "claim" /\ x.id = i
      BY <1>1, <1>2 DEF Person!Idle, AskedRow, Places
    <3>2. asked' = [asked EXCEPT ![t] = x]
      BY <2>6 DEF Person!ConsumeRead
    <3> HIDE DEF x
    <3> QED
      BY <1>2, <3>1, <3>2
  <2> QED
    BY <2>1, <2>2, <2>3, <2>4, <2>5, <2>6
<1> QED
  BY <1>1, <1>3, AskedOnly

LEMMA AskedGoes ==
    ASSUME LinksInv, NEW t \in Tasks,
           NEW pc \in {"idle", "create", "session", "write", "retire", "claim", "revoke"}
    PROVE  LET x == [asked[t] EXCEPT !.pc = pc] IN
           /\ x \in AskedRow /\ x.pc = pc /\ x.op = asked[t].op /\ x.id = asked[t].id
           /\ Person!Goto(t, pc) => asked' = [asked EXCEPT ![t] = x]
BY DEF Person!Goto, AskedRow, LinksInv, LinksTyped

LEMMA RowsWritten ==
    ASSUME LinksInv
    PROVE  /\ \A pw \in Passwords \cup {"none"} : Person!Written(pw) \in UserRow
           /\ \A keep : Person!Ended(keep) \in Seq(SessionRow)
           /\ \A n \in Nat : Person!Opened(n) \in Seq(SessionRow)
<1>1. ASSUME NEW i \in Person!Sessions
      PROVE  session[i] \in SessionRow /\ [session[i] EXCEPT !.live = FALSE] \in SessionRow
  <2>1. session[i] \in SessionRow
    BY ElementOfSeq DEF LinksInv, LinksTyped, Person!Sessions
  <2> QED
    BY <2>1 DEF SessionRow
<1>2. ASSUME NEW keep PROVE Person!Ended(keep) \in Seq(SessionRow)
  <2>1. Person!Ended(keep) \in [1..Len(session) -> SessionRow] /\ Len(session) \in Nat
    BY <1>1, LenProperties DEF Person!Ended, Person!Sessions, LinksInv, LinksTyped
  <2> QED
    BY <2>1, SeqDef
<1>3. ASSUME NEW n \in Nat PROVE Person!Opened(n) \in Seq(SessionRow)
  BY <1>3, AppendProperties DEF Person!Opened, SessionRow, LinksInv, LinksTyped
<1>4. user \in UserRow
  BY DEF LinksInv, LinksTyped
<1>5. ASSUME NEW pw \in Passwords \cup {"none"} PROVE Person!Written(pw) \in UserRow
  <2>1. user.n + 1 \in Nat
    BY <1>4 DEF UserRow
  <2>2. Person!Written(pw) = [user EXCEPT !.exists = TRUE, !.pw = pw, !.n = user.n + 1]
    BY DEF Person!Written
  <2>3. \A n \in Nat : [user EXCEPT !.exists = TRUE, !.pw = pw, !.n = n] \in UserRow
    BY <1>4 DEF UserRow
  <2> QED
    BY <2>1, <2>2, <2>3
<1> QED
  BY <1>2, <1>3, <1>5

LEMMA RegisterStep ==
    ASSUME LinksInv, NEW t \in Tasks, Person!RegisterCreate(t)
    PROVE  LinksInv'
<1> DEFINE x == [asked[t] EXCEPT !.pc = "session", !.seen = 1]
<1>1. UNCHANGED <<link, session, uses>> /\ session \in Seq(SessionRow) /\ user \in UserRow
      /\ asked[t].op = "register"
  BY DEF Person!RegisterCreate, Person!At, LinksInv, LinksTyped
<1>2. CASE Person!Done(t) /\ UNCHANGED user
  BY <1>1, <1>2, BeginsAsked, AskedOnly
<1>3. CASE user' = Person!Written(asked[t].pw)
           /\ asked' = [asked EXCEPT ![t].pc = "session", ![t].seen = 1]
  <2>1. x \in AskedRow /\ x.op = "register"
    BY <1>1, BeginsAsked DEF AskedRow
  <2>2. asked' = [asked EXCEPT ![t] = x]
    BY <1>3 DEF LinksInv, LinksTyped
  <2>3. user' \in UserRow
    BY <1>3, BeginsAsked, RowsWritten DEF AskedRow
  <2> HIDE DEF x
  <2> QED
    BY <1>1, <2>1, <2>2, <2>3, AskedOnly
<1> QED
  BY <1>2, <1>3 DEF Person!RegisterCreate

LEMMA SessionSteps ==
    ASSUME LinksInv, NEW t \in Tasks,
           Person!OpenSession(t) \/ Person!EmailWrite(t) \/ Person!ConsumeRevoke(t)
    PROVE  LinksInv'
<1>1. Person!Done(t) /\ UNCHANGED <<link, uses>> /\ asked[t] \in AskedRow
  BY BeginsAsked DEF Person!OpenSession, Person!EmailWrite, Person!ConsumeRevoke
<1>2. user' \in UserRow
  BY <1>1 DEF Person!OpenSession, Person!EmailWrite, Person!ConsumeRevoke, UserRow, AskedRow,
     LinksInv, LinksTyped
<1>3. session' \in Seq(SessionRow)
  BY <1>1, RowsWritten DEF Person!OpenSession, Person!EmailWrite, Person!ConsumeRevoke, AskedRow,
     LinksInv, LinksTyped
<1> QED
  BY <1>1, <1>2, <1>3, BeginsAsked, AskedOnly

LEMMA ChangeStep ==
    ASSUME LinksInv, NEW t \in Tasks, Person!ChangeWrite(t)
    PROVE  LinksInv'
<1> DEFINE ended == Person!Ended(asked[t].id)
<1>1. /\ Person!Done(t) /\ UNCHANGED <<link, uses>> /\ asked[t] \in AskedRow
      /\ user' = Person!Written(asked[t].pw)
      /\ session' = [ended EXCEPT ![asked[t].id].n = user'.n]
  BY BeginsAsked DEF Person!ChangeWrite
<1>2. user' \in UserRow /\ ended \in Seq(SessionRow)
  BY <1>1, RowsWritten DEF AskedRow
<1> HIDE DEF ended
<1>3. session' \in Seq(SessionRow)
  <2>1. Len(ended) \in Nat /\ ended \in [1..Len(ended) -> SessionRow]
    BY <1>2, LenProperties, ElementOfSeq
  <2>2. session' \in [1..Len(ended) -> SessionRow]
    BY <1>1, <1>2, <2>1 DEF SessionRow, UserRow
  <2> QED
    BY <2>1, <2>2, SeqDef
<1> QED
  BY <1>1, <1>2, <1>3, BeginsAsked, AskedOnly

LEMMA RequestSteps ==
    ASSUME LinksInv, NEW t \in Tasks, Person!RequestCreate(t)
    PROVE  LinksInv'
<1> DEFINE new == [state |-> "live", to |-> asked[t].to]
<1>1. /\ Person!Done(t) /\ UNCHANGED <<user, session>> /\ asked[t] \in AskedRow
      /\ link' = Append(link, new) /\ uses' = Append(uses, 0)
  BY BeginsAsked DEF Person!RequestCreate
<1>2. new \in [state : LinkStates, to : Places]
  BY <1>1 DEF AskedRow, LinkStates
<1> HIDE DEF new
<1>3. /\ link' \in Seq([state : LinkStates, to : Places]) /\ Len(link') = Len(link) + 1
      /\ \A i \in 1..Len(link) : link'[i] = link[i]
  BY <1>1, <1>2, AppendProperties DEF LinksInv, LinksTyped
<1>4. /\ uses' \in Seq(Nat) /\ Len(uses') = Len(link) + 1 /\ uses'[Len(link) + 1] = 0
      /\ \A i \in 1..Len(link) : uses'[i] = uses[i]
  BY <1>1, AppendProperties DEF LinksInv, LinksTyped
<1>5. DOMAIN link = 1..Len(link) /\ DOMAIN link' = 1..(Len(link) + 1) /\ Len(link) \in Nat
  BY <1>3, LenProperties DEF LinksInv, LinksTyped
<1>6. /\ asked' \in [Tasks -> AskedRow] /\ asked'[t].op # "reset"
      /\ \A u \in Tasks \ {t} : asked'[u] = asked[u]
  BY <1>1, BeginsAsked DEF LinksInv, LinksTyped
<1>7. \A u \in Tasks, i \in 1..(Len(link) + 1) :
         Resets(u, i)' => Resets(u, i) /\ i \in DOMAIN link
  BY <1>5, <1>6 DEF Resets, LinksInv
<1>8. LinksTyped'
  BY <1>1, <1>3, <1>4, <1>6 DEF LinksInv, LinksTyped
<1>9. \A u \in Tasks : asked'[u].op = "reset" => asked'[u].id \in DOMAIN link'
  BY <1>5, <1>6 DEF LinksInv
<1>10. ASSUME NEW i \in DOMAIN link'
       PROVE  /\ uses'[i] <= 1
              /\ Person!Unclaimed(i)' => uses'[i] = 0
              /\ \A u \in Tasks : Resets(u, i)' => ~Person!Unclaimed(i)' /\ uses'[i] = 0
              /\ \A u, v \in Tasks : Resets(u, i)' /\ Resets(v, i)' => u = v
  <2>1. CASE i \in DOMAIN link
    BY <1>3, <1>4, <1>5, <1>7, <2>1 DEF LinksInv, Person!Unclaimed
  <2>2. CASE i \notin DOMAIN link
    <3>1. i = Len(link) + 1
      BY <1>5, <1>10, <2>2
    <3> QED
      BY <1>4, <1>5, <1>7, <2>2, <3>1
  <2> QED
    BY <2>1, <2>2
<1> QED
  BY <1>8, <1>9, <1>10 DEF LinksInv

LEMMA RetireStep ==
    ASSUME LinksInv, NEW t \in Tasks, Person!RequestRetire(t)
    PROVE  LinksInv'
<1> DEFINE kept == [i \in Person!Links |-> IF Person!Unclaimed(i)
                                           THEN [link[i] EXCEPT !.state = "used"] ELSE link[i]]
           x == [asked[t] EXCEPT !.pc = "create"]
           LinkRow == [state : LinkStates, to : Places]
<1>1. /\ link' = kept /\ asked' = [asked EXCEPT ![t] = x] /\ UNCHANGED <<user, session, uses>>
      /\ x \in AskedRow /\ x.op # "reset"
  BY AskedGoes DEF Person!RequestRetire, Person!At
<1>2. Len(link) \in Nat /\ DOMAIN link = 1..Len(link) /\ \A i \in 1..Len(link) : link[i] \in LinkRow
  BY LenProperties, ElementOfSeq DEF LinksInv, LinksTyped
<1>3. \A row \in LinkRow : [row EXCEPT !.state = "used"] \in LinkRow
                           /\ [row EXCEPT !.state = "used"].state = "used"
  BY DEF LinkStates
<1>4. kept \in [1..Len(link) -> LinkRow]
  BY <1>2, <1>3 DEF Person!Links
<1>5. \A i \in 1..Len(link) : kept[i].state \notin {"live", "expired"}
  BY <1>2, <1>3 DEF Person!Links, Person!Unclaimed
<1> HIDE DEF kept, x, LinkRow
<1>6. link' \in Seq(LinkRow) /\ DOMAIN link' = 1..Len(link) /\ Len(link') = Len(link)
  BY <1>1, <1>2, <1>4, SeqDef, LenProperties
<1>7. /\ asked' \in [Tasks -> AskedRow] /\ asked'[t].op # "reset"
      /\ \A u \in Tasks \ {t} : asked'[u] = asked[u]
  BY <1>1 DEF LinksInv, LinksTyped
<1>8. \A u \in Tasks, i \in DOMAIN link : Resets(u, i)' => Resets(u, i)
  BY <1>7 DEF Resets
<1>9. LinksTyped'
  BY <1>1, <1>6, <1>7 DEF LinksInv, LinksTyped, LinkRow
<1> QED
  BY <1>1, <1>2, <1>5, <1>6, <1>7, <1>8, <1>9 DEF LinksInv, Person!Unclaimed

LEMMA ClaimStep ==
    ASSUME LinksInv, NEW t \in Tasks, Person!ConsumeClaim(t)
    PROVE  LinksInv'
<1> DEFINE LinkRow == [state : LinkStates, to : Places]
           i == asked[t].id
           x == [asked[t] EXCEPT !.pc = "write"]
           spent == [link[i] EXCEPT !.state = "used"]
<1>1. UNCHANGED <<user, session, uses>> /\ asked[t].op = "reset" /\ i \in DOMAIN link
      /\ session \in Seq(SessionRow) /\ user \in UserRow
  BY DEF Person!ConsumeClaim, Person!At, LinksInv, LinksTyped
<1>2. CASE Person!Done(t) /\ UNCHANGED link
  BY <1>1, <1>2, BeginsAsked, AskedOnly
<1>3. CASE /\ Person!Unclaimed(i) /\ link' = [link EXCEPT ![i].state = "used"]
           /\ Person!Goto(t, "write")
  <2>1. /\ asked' = [asked EXCEPT ![t] = x] /\ x \in AskedRow
        /\ x.id = i
    BY <1>3, AskedGoes
  <2>2. link[i] \in LinkRow /\ i \in 1..Len(link)
    BY <1>1, ElementOfSeq, LenProperties DEF LinksInv, LinksTyped
  <2>3. spent \in LinkRow /\ spent.state = "used"
    BY <2>2 DEF LinkStates
  <2>4. link' = [link EXCEPT ![i] = spent]
    BY <1>3
  <2> HIDE DEF spent, x, LinkRow
  <2>5. link' \in Seq(LinkRow) /\ Len(link') = Len(link)
    BY <2>2, <2>3, <2>4, ExceptSeq DEF LinksInv, LinksTyped, LinkRow
  <2>6. /\ link'[i] = spent /\ DOMAIN link' = DOMAIN link
        /\ \A j \in DOMAIN link : j # i => link'[j] = link[j]
    BY <1>1, <2>4
  <2>7. /\ asked' \in [Tasks -> AskedRow] /\ asked'[t] = x
        /\ \A u \in Tasks \ {t} : asked'[u] = asked[u]
    BY <2>1 DEF LinksInv, LinksTyped
  <2>8. LinksTyped'
    BY <1>1, <2>5, <2>7 DEF LinksInv, LinksTyped, LinkRow
  <2>9. \A u \in Tasks : asked'[u].op = "reset" => asked'[u].id \in DOMAIN link'
    BY <1>1, <2>1, <2>6, <2>7 DEF LinksInv
  <2>10. ASSUME NEW u \in Tasks, NEW j \in DOMAIN link, Resets(u, j)'
         PROVE  (u = t /\ j = i) \/ (u # t /\ j # i /\ Resets(u, j))
    <3>1. CASE u = t
      BY <2>1, <2>7, <2>10, <3>1 DEF Resets
    <3>2. CASE u # t
      BY <1>1, <1>3, <2>7, <2>10, <3>2 DEF Resets, LinksInv
    <3> QED
      BY <3>1, <3>2
  <2>11. ASSUME NEW j \in DOMAIN link'
         PROVE  /\ uses'[j] <= 1
                /\ Person!Unclaimed(j)' => uses'[j] = 0
                /\ \A u \in Tasks : Resets(u, j)' => ~Person!Unclaimed(j)' /\ uses'[j] = 0
                /\ \A u, v \in Tasks : Resets(u, j)' /\ Resets(v, j)' => u = v
    BY <1>1, <1>3, <2>3, <2>6, <2>10 DEF LinksInv, Person!Unclaimed
  <2> QED
    BY <2>8, <2>9, <2>11 DEF LinksInv
<1> QED
  BY <1>2, <1>3 DEF Person!ConsumeClaim, Person!Claims

LEMMA WriteStep ==
    ASSUME LinksInv, NEW t \in Tasks, Person!ConsumeWrite(t)
    PROVE  LinksInv'
<1> DEFINE i == asked[t].id
           x == [asked[t] EXCEPT !.pc = "revoke"]
<1>1. /\ UNCHANGED <<link, session>> /\ Resets(t, i) /\ user' = Person!Written(asked[t].pw)
      /\ uses' = [uses EXCEPT ![i] = uses[i] + 1] /\ i \in DOMAIN link
  BY DEF Person!ConsumeWrite, Person!At, Resets, LinksInv
<1>2. /\ asked' = [asked EXCEPT ![t] = x] /\ x \in AskedRow /\ x.id = i /\ x.pc = "revoke"
      /\ x.op = "reset"
  BY <1>1, AskedGoes DEF Person!ConsumeWrite, Resets
<1>3. user' \in UserRow
  BY <1>1, BeginsAsked, RowsWritten DEF AskedRow
<1>4. uses[i] = 0 /\ ~Person!Unclaimed(i) /\ i \in 1..Len(uses) /\ DOMAIN link = 1..Len(uses)
  BY <1>1, LenProperties DEF LinksInv, LinksTyped
<1> HIDE DEF x
<1>5. uses' \in Seq(Nat) /\ Len(uses') = Len(uses)
      /\ \A j \in 1..Len(uses) : uses'[j] = IF j = i THEN 1 ELSE uses[j]
  <2>1. uses[i] + 1 \in Nat
    BY <1>4
  <2> QED
    BY <1>1, <1>4, <2>1, ExceptSeq, LenProperties DEF LinksInv, LinksTyped
<1>6. /\ asked' \in [Tasks -> AskedRow] /\ asked'[t] = x
      /\ \A u \in Tasks \ {t} : asked'[u] = asked[u]
  BY <1>2 DEF LinksInv, LinksTyped
<1>7. LinksTyped'
  BY <1>1, <1>3, <1>5, <1>6 DEF LinksInv, LinksTyped
<1>8. \A u \in Tasks : asked'[u].op = "reset" => asked'[u].id \in DOMAIN link'
  BY <1>1, <1>2, <1>6 DEF LinksInv
<1>9. ASSUME NEW u \in Tasks, NEW j \in DOMAIN link, Resets(u, j)'
      PROVE  j # i /\ Resets(u, j)
  <2>1. u # t
    BY <1>2, <1>6, <1>9 DEF Resets
  <2>2. Resets(u, j)
    BY <1>6, <1>9, <2>1 DEF Resets
  <2> QED
    BY <1>1, <2>1, <2>2 DEF LinksInv
<1>10. ASSUME NEW j \in DOMAIN link'
       PROVE  /\ uses'[j] <= 1
              /\ Person!Unclaimed(j)' => uses'[j] = 0
              /\ \A u \in Tasks : Resets(u, j)' => ~Person!Unclaimed(j)' /\ uses'[j] = 0
              /\ \A u, v \in Tasks : Resets(u, j)' /\ Resets(v, j)' => u = v
  BY <1>1, <1>4, <1>5, <1>9 DEF LinksInv, Person!Unclaimed
<1> QED
  BY <1>7, <1>8, <1>10 DEF LinksInv

LEMMA LinkAges ==
    ASSUME LinksInv, NEW i \in Person!Links, Person!Expire(i) \/ Person!Purge(i)
    PROVE  LinksInv'
<1>1. /\ UNCHANGED <<user, session, asked, uses>> /\ link[i].state # "gone"
      /\ \E new \in {"expired", "gone"} :
            /\ link' = [link EXCEPT ![i].state = new]
            /\ new = "expired" => link[i].state = "live"
  BY DEF Person!Expire, Person!Purge, Person!Live
<1>2. PICK new \in {"expired", "gone"} :
            /\ link' = [link EXCEPT ![i].state = new]
            /\ new = "expired" => link[i].state = "live"
  BY <1>1
<1> DEFINE LinkRow == [state : LinkStates, to : Places]
           old == [link[i] EXCEPT !.state = new]
<1>3. /\ link[i] \in LinkRow /\ i \in 1..Len(link) /\ DOMAIN link = 1..Len(link)
  BY ElementOfSeq, LenProperties DEF Person!Links, LinksInv, LinksTyped
<1>4. old \in LinkRow /\ old.state = new /\ link' = [link EXCEPT ![i] = old]
  BY <1>2, <1>3 DEF LinkStates
<1> HIDE DEF old, LinkRow
<1>5. link' \in Seq(LinkRow) /\ Len(link') = Len(link)
  BY <1>3, <1>4, ExceptSeq DEF LinksInv, LinksTyped, LinkRow
<1>6. \A j \in DOMAIN link : link'[j] = IF j = i THEN old ELSE link[j]
  BY <1>4
<1>7. \A j \in DOMAIN link : Person!Unclaimed(j)' => Person!Unclaimed(j)
  BY <1>2, <1>4, <1>6 DEF Person!Unclaimed
<1> QED
  BY <1>1, <1>5, <1>7, LinksOnly DEF LinkRow

LEMMA LinksStep == LinksInv /\ [Next]_vars => LinksInv'
<1> SUFFICES ASSUME LinksInv, [Person!Next]_(Person!vars) PROVE LinksInv'
  BY PersonAlone
<1>1. CASE UNCHANGED Person!vars
  BY <1>1 DEF Person!vars, LinksInv, LinksTyped, Resets, Person!Unclaimed
<1>2. ASSUME NEW t \in Tasks, Person!Step(t) PROVE LinksInv'
  BY <1>2, RegisterStep, SessionSteps, ChangeStep, RetireStep, RequestSteps, ClaimStep,
     WriteStep DEF Person!Step
<1>3. ASSUME NEW t \in Tasks, Person!Start(t) PROVE LinksInv'
  BY <1>3, AsksAgain DEF Person!Start
<1>4. ASSUME NEW t \in Tasks, Person!Crash(t) PROVE LinksInv'
  BY <1>4, BeginsAsked, AskedOnly DEF Person!Crash, LinksInv, LinksTyped
<1> QED
  BY <1>1, <1>2, <1>3, <1>4, LinkAges DEF Person!Next

\* A reset link sets at most one password, however many requests carry it, whatever expires,
\* is purged or dies meanwhile (password-reset.service.ts consume).
THEOREM LinksSetOnce == Spec => []LinkSetsOnePassword
<1>1. LinksInv => LinkSetsOnePassword
  BY LenProperties DEF LinksInv, LinksTyped, LinkSetsOnePassword, Person!LinkSetsOnePassword,
     Person!Links
<1> QED
  BY <1>1, LinksInit, LinksStep, PTL DEF Spec

-----------------------------------------------------------------------------
(***************************************************************************)
(* Composer: what a booking relies on is established before it and never   *)
(* undone: an item that was APPROVED once stays approved, and an audience  *)
(* the form holds was picked for the draft on screen and the channel of    *)
(* the panel, or is left over from before they changed.                    *)
(***************************************************************************)
Levels == {"none"} \cup UNION {Offers[c] : c \in TikToks}
States == {"none", "DRAFT", "PENDING_APPROVAL", "APPROVED", "SCHEDULED", "PUBLISHED"}
Picks == Nat \X Nat \X (Levels \cup {"left"})
ItemRow == [status : States, ab : BOOLEAN, approved : BOOLEAN]
RunRow == [status : {"QUEUED", "FAILED", "SUCCEEDED"}, item : Nat]
BookingRow ==
    [item : Nat, status : {"PENDING", "CANCELLED"}, split : BOOLEAN, gated : BOOLEAN,
     by : Picks, level : UNION {[to -> Levels] : to \in SUBSET Channels}]
CallRow ==
    [op : {"none", "generate", "schedule"} \cup Reviews,
     pc : {"idle", "queue", "answer", "write", "gate", "book", "bookGated"},
     item : Nat, seen : States, ab : BOOLEAN, chosen : SUBSET Channels, level : Levels,
     by : Picks]
FormRow ==
    [chosen : SUBSET Channels, level : Levels, by : Picks, branded : BOOLEAN, scheduled : BOOLEAN,
     gate : BOOLEAN]
DraftRow ==
    [run : Nat, seen : {"none", "QUEUED", "FAILED", "SUCCEEDED"}, shown : Nat, status : States,
     ab : BOOLEAN, fetch : Nat]

WritingTyped ==
    /\ gate \in BOOLEAN
    /\ item \in Seq(ItemRow) /\ run \in Seq(RunRow) /\ booked \in Seq(BookingRow)
    /\ asking \in [Writing!People -> CallRow]
    /\ composer \in FormRow /\ draft \in DraftRow /\ save \subseteq 1..Len(item)

\* what is pointed at is there
Pointing ==
    /\ draft.run \in 0..Len(run) /\ draft.shown \in 0..Len(item) /\ draft.fetch \in 0..Len(item)
    /\ \A r \in 1..Len(run) : run[r].item \in 0..Len(item)
    /\ \A k \in 1..Len(booked) : booked[k].item \in 1..Len(item)

Points(x) ==
    /\ x.op = "generate" /\ x.pc = "answer" => x.item \in 1..Len(run)
    /\ x.op \in Reviews \cup {"schedule"} => x.item \in 1..Len(item)
    /\ x.pc \in {"gate", "book", "bookGated"} => x.op = "schedule"

Cleared(x) ==
    x.op = "schedule" /\ (x.seen = "APPROVED" \/ x.pc = "bookGated") => item[x.item].approved

\* the choice is of this audience, for this item and the panel these channels open
Owned(by, i, chosen, level) ==
    by = Writing!LeftOver \/ \A d \in Writing!PanelOf(chosen) : by = <<i, d, level>>

FormPicked(f, d) ==
    /\ d.fetch # 0 => d.shown = 0
    /\ f.level # "none" =>
          /\ f.by # Writing!NoPick
          /\ f.by = Writing!LeftOver \/ (d.shown # 0 /\ Owned(f.by, d.shown, f.chosen, f.level))

Settled(x) ==
    x.op = "schedule" /\ TikToks \cap x.chosen # {} =>
        x.level # "none" /\ Owned(x.by, x.item, x.chosen, x.level)

RowChosen(row) ==
    \A c \in TikToks \cap DOMAIN row.level :
        row.level[c] # "none" /\ Owned(row.by, row.item, DOMAIN row.level, row.level[c])

WritingInv ==
    /\ WritingTyped /\ Pointing
    /\ FormPicked(composer, draft)
    /\ \A p \in Writing!People : Points(asking[p]) /\ Cleared(asking[p]) /\ Settled(asking[p])
    /\ \A i \in 1..Len(item) : item[i].status = "APPROVED" => item[i].approved
    /\ \A k \in 1..Len(booked) :
          (booked[k].gated => item[booked[k].item].approved) /\ RowChosen(booked[k])

LEMMA WritingAlone == [Next]_vars => [Writing!Next]_(Writing!vars)
BY DEF Next, Guards, Posts, Pages, vars, postVars, writingVars, Writing!vars

LEMMA WritingInit == Init => WritingInv
<1> SUFFICES ASSUME Writing!Init PROVE WritingInv
  BY DEF Init
<1>1. WritingTyped
  BY EmptySeq DEF Writing!Init, Writing!Idle, Writing!NoDraft, Writing!Nobody, WritingTyped,
     Writing!NoPick, CallRow, FormRow, DraftRow, Levels, Picks, States
<1>2. Len(item) = 0 /\ Len(run) = 0 /\ Len(booked) = 0
  BY EmptySeq DEF Writing!Init
<1> QED
  BY <1>1, <1>2, ReviewAssumption DEF Writing!Init, Writing!Idle, Writing!NoDraft,
     Writing!Nobody, WritingInv, Pointing, Points, Cleared, FormPicked, Settled

\* what the page shows and what its requests carry may change; the rows do not
LEMMA PageTurns ==
    ASSUME WritingInv, UNCHANGED <<item, run, booked>>,
           gate' \in BOOLEAN, save' \subseteq 1..Len(item), composer' \in FormRow,
           FormPicked(composer', draft'),
           draft' \in DraftRow, draft'.run \in 0..Len(run), draft'.shown \in 0..Len(item),
           draft'.fetch \in 0..Len(item),
           asking' \in [Writing!People -> CallRow],
           \A p \in Writing!People :
              \/ asking'[p] = asking[p]
              \/ Points(asking'[p]) /\ Cleared(asking'[p]) /\ Settled(asking'[p])
    PROVE  WritingInv'
<1>1. \A x : (Points(x) <=> Points(x)') /\ (Cleared(x) <=> Cleared(x)')
  BY DEF Points, Cleared
<1>2. WritingTyped' /\ Pointing'
  BY DEF WritingInv, WritingTyped, Pointing
<1>3. ASSUME NEW p \in Writing!People
      PROVE  Points(asking[p])' /\ Cleared(asking[p])' /\ Settled(asking[p])'
  BY <1>1 DEF WritingInv, Points, Cleared, Settled
<1>4. FormPicked(composer, draft)'
  BY DEF FormPicked
<1>5. ASSUME NEW k \in 1..Len(booked) PROVE RowChosen(booked[k])'
  BY DEF WritingInv, RowChosen
<1> QED
  BY <1>2, <1>3, <1>4, <1>5 DEF WritingInv

LEMMA WriterTypes ==
    ASSUME WritingInv
    PROVE  /\ Len(item) \in Nat /\ Len(run) \in Nat /\ Len(booked) \in Nat
           /\ DOMAIN item = 1..Len(item) /\ DOMAIN run = 1..Len(run)
           /\ DOMAIN booked = 1..Len(booked)
           /\ \A i \in 1..Len(item) : item[i] \in ItemRow
           /\ \A r \in 1..Len(run) : run[r] \in RunRow
           /\ \A k \in 1..Len(booked) : booked[k] \in BookingRow
           /\ "page" \in Writing!People /\ asking["page"] \in CallRow
           /\ composer \in FormRow /\ draft \in DraftRow
BY LenProperties, ElementOfSeq DEF WritingInv, WritingTyped, Writing!People

LEMMA IdlePage ==
    ASSUME WritingInv
    PROVE  /\ Writing!Idle \in CallRow /\ Writing!Idle.op = "none"
           /\ Points(Writing!Idle) /\ Cleared(Writing!Idle) /\ Settled(Writing!Idle)
           /\ Writing!Nobody = "none" /\ Writing!NoDraft \in DraftRow
           /\ Writing!NoDraft.run = 0 /\ Writing!NoDraft.shown = 0
BY ReviewAssumption DEF Writing!Idle, Writing!NoDraft, Writing!Nobody, Writing!NoPick, CallRow,
   DraftRow, States, Levels, Picks, Points, Cleared, Settled

\* a choice that stays while the panel is opened for something else
LEMMA LeftOverIsNone ==
    ASSUME WritingInv
    PROVE  /\ Writing!StillPicked \in Picks
           /\ composer.level # "none" => Writing!StillPicked = Writing!LeftOver
           /\ Writing!NoPick \in Picks /\ Writing!LeftOver # Writing!NoPick
<1>1. Writing!NoPick \in Picks /\ Writing!LeftOver \in Picks
  BY DEF Writing!NoPick, Writing!LeftOver, Writing!Nobody, Picks, Levels
<1>2. Writing!LeftOver # Writing!NoPick
  BY DEF Writing!NoPick, Writing!LeftOver, Writing!Nobody
<1> QED
  BY <1>1, <1>2 DEF Writing!StillPicked, WritingInv, FormPicked

\* looking at the draft and filling in the form
LEMMA DraftSteps ==
    ASSUME WritingInv,
           \/ Writing!Poll \/ Writing!FetchDraft \/ Writing!DraftArrives
           \/ Writing!ChooseVariant \/ Writing!WriteAnother
    PROVE  WritingInv'
<1>1. /\ UNCHANGED <<gate, item, run, booked, asking>>
      /\ gate \in BOOLEAN /\ save \subseteq 1..Len(item)
      /\ asking \in [Writing!People -> CallRow]
      /\ draft.run \in 0..Len(run) /\ draft.shown \in 0..Len(item) /\ draft.fetch \in 0..Len(item)
      /\ draft \in DraftRow /\ composer \in FormRow
  BY DEF Writing!Poll, Writing!FetchDraft, Writing!DraftArrives, Writing!ChooseVariant,
     Writing!WriteAnother, WritingInv, WritingTyped, Pointing
<1>2. composer' \in FormRow /\ FormPicked(composer', draft')
  <2>1. CASE Writing!Poll \/ Writing!ChooseVariant
    <3>1. composer' = composer /\ draft'.shown = draft.shown /\ draft'.fetch = draft.fetch
      BY <1>1, <2>1 DEF Writing!Poll, Writing!ChooseVariant, DraftRow
    <3> QED
      BY <1>1, <3>1 DEF WritingInv, FormPicked
  <2>2. CASE Writing!FetchDraft
    <3>1. composer' = composer /\ draft'.shown = 0 /\ draft.shown = 0
      BY <1>1, <2>2 DEF Writing!FetchDraft, DraftRow
    <3> QED
      BY <1>1, <3>1 DEF WritingInv, FormPicked
  <2>3. CASE Writing!DraftArrives
    <3>1. composer' = composer /\ draft'.fetch = 0 /\ draft.shown = 0
      BY <1>1, <2>3 DEF Writing!DraftArrives, DraftRow, WritingInv, FormPicked
    <3> QED
      BY <1>1, <3>1 DEF WritingInv, FormPicked
  <2>4. CASE Writing!WriteAnother
    <3>1. /\ composer' = [composer EXCEPT !.scheduled = FALSE, !.by = Writing!StillPicked]
          /\ draft' = [Writing!NoDraft EXCEPT !.fetch = draft.fetch]
      BY <2>4 DEF Writing!WriteAnother
    <3>2. composer' \in FormRow /\ composer'.level = composer.level
          /\ composer'.by = Writing!StillPicked
      BY <1>1, <3>1, LeftOverIsNone DEF FormRow
    <3>3. draft'.shown = 0
      BY <3>1, IdlePage DEF DraftRow
    <3> QED
      BY <3>2, <3>3, LeftOverIsNone DEF FormPicked
  <2> QED
    BY <2>1, <2>2, <2>3, <2>4
<1>3. save' \subseteq 1..Len(item)
  BY <1>1 DEF Writing!Poll, Writing!FetchDraft, Writing!DraftArrives, Writing!ChooseVariant,
     Writing!WriteAnother, DraftRow
<1>4. /\ draft' \in DraftRow /\ draft'.run \in 0..Len(run) /\ draft'.shown \in 0..Len(item)
      /\ draft'.fetch \in 0..Len(item)
  <2>1. CASE Writing!Poll
    <3>1. draft.run \in 1..Len(run) /\ run[draft.run] \in RunRow
      BY <1>1, <2>1, WriterTypes DEF Writing!Poll, DraftRow
    <3>2. run[draft.run].status \in {"QUEUED", "FAILED", "SUCCEEDED"}
      BY <3>1 DEF RunRow
    <3>3. \/ draft' = [draft EXCEPT !.run = 0, !.seen = "none"]
          \/ draft' = [draft EXCEPT !.seen = run[draft.run].status]
      BY <2>1 DEF Writing!Poll
    <3>4. 0 \in 0..Len(run)
      BY <3>1, WriterTypes
    <3>5. CASE draft' = [draft EXCEPT !.run = 0, !.seen = "none"]
      BY <1>1, <3>4, <3>5 DEF DraftRow
    <3>6. CASE draft' = [draft EXCEPT !.seen = run[draft.run].status]
      BY <1>1, <3>2, <3>6 DEF DraftRow
    <3> QED
      BY <3>3, <3>5, <3>6
  <2>2. CASE Writing!FetchDraft
    <3>1. draft.run \in 1..Len(run)
      BY <1>1, <2>2, WriterTypes DEF Writing!FetchDraft, DraftRow
    <3>2. run[draft.run].item \in 0..Len(item) /\ 0..Len(item) \subseteq Nat
      BY <3>1, WriterTypes DEF WritingInv, Pointing
    <3>3. draft' = [draft EXCEPT !.fetch = run[draft.run].item]
      BY <2>2 DEF Writing!FetchDraft
    <3> QED
      BY <1>1, <3>2, <3>3 DEF DraftRow
  <2>3. CASE Writing!DraftArrives
    <3>1. item[draft.fetch] \in ItemRow
      BY <1>1, <2>3, WriterTypes DEF Writing!DraftArrives, DraftRow
    <3>2. item[draft.fetch].status \in States /\ item[draft.fetch].ab \in BOOLEAN
      BY <3>1 DEF ItemRow
    <3>3. draft' = [draft EXCEPT !.shown = draft.fetch, !.fetch = 0,
                                 !.status = item[draft.fetch].status,
                                 !.ab = item[draft.fetch].ab]
      BY <2>3 DEF Writing!DraftArrives
    <3>4. 0 \in 0..Len(item) /\ draft.fetch \in Nat
      BY <1>1, WriterTypes
    <3> QED
      BY <1>1, <3>2, <3>3, <3>4 DEF DraftRow
  <2>4. CASE Writing!ChooseVariant
    BY <1>1, <2>4 DEF Writing!ChooseVariant, DraftRow
  <2>5. CASE Writing!WriteAnother
    <3>1. draft' = [Writing!NoDraft EXCEPT !.fetch = draft.fetch]
      BY <2>5 DEF Writing!WriteAnother
    <3>2. /\ Writing!NoDraft \in DraftRow /\ Writing!NoDraft.run = 0
          /\ Writing!NoDraft.shown = 0
      BY IdlePage
    <3>3. 0 \in 0..Len(item) /\ 0 \in 0..Len(run) /\ draft.fetch \in Nat
      BY <1>1, WriterTypes
    <3> QED
      BY <1>1, <3>1, <3>2, <3>3 DEF DraftRow
  <2> QED
    BY <2>1, <2>2, <2>3, <2>4, <2>5
<1> QED
  BY <1>1, <1>2, <1>3, <1>4, PageTurns

LEMMA FormSteps ==
    ASSUME WritingInv,
           \/ Writing!ToggleBranded \/ Writing!Refresh \/ Writing!GateFlips
           \/ \E c \in Channels : Writing!Toggle(c)
           \/ \E c \in TikToks : \E level \in Offers[c] : Writing!PickAudience(c, level)
    PROVE  WritingInv'
<1>1. /\ UNCHANGED <<item, run, booked, asking, save, draft>>
      /\ gate \in BOOLEAN /\ gate' \in BOOLEAN /\ save \subseteq 1..Len(item)
      /\ asking \in [Writing!People -> CallRow]
      /\ draft.run \in 0..Len(run) /\ draft.shown \in 0..Len(item) /\ draft.fetch \in 0..Len(item)
      /\ draft \in DraftRow /\ composer \in FormRow
  BY DEF Writing!ToggleBranded, Writing!Refresh, Writing!GateFlips, Writing!Toggle,
     Writing!PickAudience, WritingInv, WritingTyped, Pointing
<1>2. CASE \E c \in TikToks : \E level \in Offers[c] : Writing!PickAudience(c, level)
  <2>1. PICK c \in TikToks : \E level \in Offers[c] : Writing!PickAudience(c, level)
    BY <1>2
  <2>2. PICK level \in Offers[c] : Writing!PickAudience(c, level)
    BY <2>1
  <2>3. draft.shown \in Nat /\ draft.shown # 0
    BY <1>1, <2>2 DEF Writing!PickAudience, DraftRow
  <2>4. /\ composer' = [composer EXCEPT !.level = level, !.by = <<draft.shown, c, level>>]
        /\ c \in Writing!PanelOf(composer.chosen)
    BY <2>2 DEF Writing!PickAudience, Writing!Panel
  <2>5. c \in Nat /\ level \in Levels
    BY <2>1, <2>2, ListAssumption DEF Levels
  <2>6. <<draft.shown, c, level>> \in Picks
    BY <2>3, <2>5 DEF Picks
  <2>7. /\ composer' \in FormRow /\ composer'.level = level
        /\ composer'.by = <<draft.shown, c, level>> /\ composer'.chosen = composer.chosen
    BY <1>1, <2>4, <2>5, <2>6 DEF FormRow
  <2>8. \A d \in Writing!PanelOf(composer.chosen) : d = c
    BY <2>4, ListAssumption DEF Writing!PanelOf
  <2>9. FormPicked(composer', draft')
    BY <1>1, <2>3, <2>7, <2>8 DEF FormPicked, Owned, Writing!NoPick, WritingInv
  <2> QED
    BY <1>1, <2>7, <2>9, PageTurns
<1>3. CASE Writing!ToggleBranded
  <2>1. PICK level : /\ level = Writing!Kept(composer.level, ~composer.branded)
                     /\ composer' = [composer EXCEPT !.branded = ~@, !.level = level,
                                        !.by = IF level = Writing!Nobody THEN Writing!NoPick ELSE @]
    BY <1>3 DEF Writing!ToggleBranded
  <2>2. level \in {"none", composer.level} /\ level \in Levels
    BY <1>1, <2>1 DEF Writing!Kept, Writing!Nobody, FormRow, Levels
  <2>3. /\ composer' \in FormRow /\ composer'.level = level /\ composer'.chosen = composer.chosen
        /\ composer'.by = IF level = "none" THEN Writing!NoPick ELSE composer.by
    BY <1>1, <2>1, <2>2, LeftOverIsNone DEF FormRow, Writing!Nobody
  <2>4. FormPicked(composer', draft')
    BY <1>1, <2>2, <2>3 DEF FormPicked, WritingInv
  <2> QED
    BY <1>1, <1>3, <2>3, <2>4, PageTurns
<1>4. ASSUME NEW c \in Channels, Writing!Toggle(c) PROVE WritingInv'
  <2>1. PICK chosen \in SUBSET Channels :
           composer' = [composer EXCEPT !.chosen = chosen,
                           !.by = IF Writing!PanelOf(chosen) = Writing!Panel THEN @
                                  ELSE Writing!StillPicked]
    BY <1>1, <1>4 DEF Writing!Toggle, FormRow
  <2>2. /\ composer' \in FormRow /\ composer'.level = composer.level /\ composer'.chosen = chosen
        /\ composer'.by = IF Writing!PanelOf(chosen) = Writing!Panel THEN composer.by
                          ELSE Writing!StillPicked
    BY <1>1, <2>1, LeftOverIsNone DEF FormRow
  <2>3. FormPicked(composer', draft')
    <3>1. CASE Writing!PanelOf(chosen) = Writing!Panel
      BY <1>1, <2>2, <3>1 DEF FormPicked, Owned, Writing!Panel, WritingInv
    <3>2. CASE Writing!PanelOf(chosen) # Writing!Panel
      BY <1>1, <2>2, <3>2, LeftOverIsNone DEF FormPicked, WritingInv
    <3> QED
      BY <3>1, <3>2
  <2> QED
    BY <1>1, <2>2, <2>3, PageTurns
<1>5. CASE Writing!Refresh \/ Writing!GateFlips
  <2>1. /\ composer' \in FormRow /\ composer'.level = composer.level
        /\ composer'.by = composer.by /\ composer'.chosen = composer.chosen
    BY <1>1, <1>5 DEF Writing!Refresh, Writing!GateFlips, FormRow
  <2>2. FormPicked(composer', draft')
    BY <1>1, <2>1 DEF FormPicked, WritingInv
  <2> QED
    BY <1>1, <2>1, <2>2, PageTurns
<1> QED
  BY <1>2, <1>3, <1>4, <1>5

\* the page's and the other's requests begin, end and go on; the rows stay
LEMMA CallTurns ==
    ASSUME WritingInv, NEW p \in Writing!People, NEW x \in CallRow,
           asking' = [asking EXCEPT ![p] = x], Points(x), Cleared(x), Settled(x),
           UNCHANGED <<gate, item, run, booked, save>>,
           composer' \in FormRow, FormPicked(composer', draft'),
           draft' \in DraftRow, draft'.run \in 0..Len(run), draft'.shown \in 0..Len(item),
           draft'.fetch = draft.fetch
    PROVE  WritingInv'
<1>1. /\ asking' \in [Writing!People -> CallRow] /\ asking'[p] = x
      /\ \A u \in Writing!People \ {p} : asking'[u] = asking[u]
  BY DEF WritingInv, WritingTyped
<1>2. gate \in BOOLEAN /\ save \subseteq 1..Len(item) /\ draft.fetch \in 0..Len(item)
  BY DEF WritingInv, WritingTyped, Pointing
<1> QED
  BY <1>1, <1>2, PageTurns

LEMMA CallEnds ==
    ASSUME WritingInv, NEW p \in Writing!People, Writing!Done(p),
           UNCHANGED <<gate, item, run, booked, save, composer, draft>>
    PROVE  WritingInv'
<1>1. asking' = [asking EXCEPT ![p] = Writing!Idle]
  BY DEF Writing!Done
<1>2. draft.run \in 0..Len(run) /\ draft.shown \in 0..Len(item)
  BY DEF WritingInv, Pointing
<1>3. FormPicked(composer', draft')
  BY DEF WritingInv, FormPicked
<1> QED
  BY <1>1, <1>2, <1>3, IdlePage, WriterTypes, CallTurns

LEMMA GenerateStep == WritingInv /\ Writing!Generate => WritingInv'
<1> SUFFICES ASSUME WritingInv, Writing!Generate PROVE WritingInv'
  OBVIOUS
<1> DEFINE x == [Writing!Idle EXCEPT !.op = "generate", !.pc = "queue"]
<1>1. /\ x \in CallRow /\ x.op = "generate" /\ x.pc = "queue"
  BY IdlePage DEF CallRow
<1>2. asking' = [asking EXCEPT !["page"] = x] /\ draft' = [draft EXCEPT !.shown = 0]
      /\ composer' = [composer EXCEPT !.scheduled = FALSE, !.by = Writing!StillPicked]
      /\ UNCHANGED <<gate, item, run, booked, save>>
  BY DEF Writing!Generate
<1> HIDE DEF x
<1>3. Points(x) /\ Cleared(x) /\ Settled(x)
  BY <1>1, ReviewAssumption DEF Points, Cleared, Settled
<1>4. /\ composer' \in FormRow /\ composer'.level = composer.level
      /\ composer'.by = Writing!StillPicked
  BY <1>2, LeftOverIsNone, WriterTypes DEF FormRow
<1>5. /\ draft' \in DraftRow /\ draft'.run = draft.run /\ draft'.shown = 0
      /\ draft'.fetch = draft.fetch
  BY <1>2, WriterTypes DEF DraftRow
<1>6. draft.run \in 0..Len(run) /\ 0 \in 0..Len(item)
  BY WriterTypes DEF WritingInv, Pointing
<1>7. FormPicked(composer', draft')
  BY <1>4, <1>5, LeftOverIsNone DEF FormPicked
<1> QED
  BY <1>1, <1>2, <1>3, <1>4, <1>5, <1>6, <1>7, CallTurns, WriterTypes

LEMMA RunIsKnownStep == WritingInv /\ Writing!RunIsKnown => WritingInv'
<1> SUFFICES ASSUME WritingInv, Writing!RunIsKnown PROVE WritingInv'
  OBVIOUS
<1>1. /\ asking' = [asking EXCEPT !["page"] = Writing!Idle]
      /\ draft' = [draft EXCEPT !.run = asking["page"].item, !.seen = "none"]
      /\ UNCHANGED <<gate, item, run, booked, save, composer>>
      /\ asking["page"].op = "generate" /\ asking["page"].pc = "answer"
  BY DEF Writing!RunIsKnown, Writing!Done, Writing!At
<1>2. asking["page"].item \in 1..Len(run)
  BY <1>1, WriterTypes DEF WritingInv, Points
<1>3. /\ draft' \in DraftRow /\ draft'.run = asking["page"].item /\ draft'.shown = draft.shown
      /\ draft'.fetch = draft.fetch
  <2>1. asking["page"].item \in Nat
    BY <1>2, WriterTypes
  <2> QED
    BY <1>1, <2>1, WriterTypes DEF DraftRow
<1>4. draft.shown \in 0..Len(item) /\ draft'.run \in 0..Len(run)
  BY <1>2, <1>3, WriterTypes DEF WritingInv, Pointing
<1>5. FormPicked(composer', draft')
  BY <1>1, <1>3 DEF WritingInv, FormPicked
<1> QED
  BY <1>1, <1>3, <1>4, <1>5, IdlePage, CallTurns, WriterTypes

LEMMA ScheduleStep == WritingInv /\ Writing!Schedule => WritingInv'
<1> SUFFICES ASSUME WritingInv, Writing!Schedule PROVE WritingInv'
  OBVIOUS
<1> DEFINE i == draft.shown
           level == IF Writing!ForTikTok THEN composer.level ELSE Writing!Nobody
           x == [op |-> "schedule", pc |-> "gate", item |-> i, seen |-> item[i].status,
                 ab |-> item[i].ab, chosen |-> composer.chosen, by |-> composer.by,
                 level |-> level]
<1>1. /\ asking' = [asking EXCEPT !["page"] = x] /\ i # 0 /\ Writing!Ready
      /\ UNCHANGED <<gate, item, run, booked, save, composer, draft>>
  BY DEF Writing!Schedule
<1>2. i \in 1..Len(item) /\ draft.run \in 0..Len(run) /\ i \in 0..Len(item)
  BY <1>1, WriterTypes DEF WritingInv, Pointing
<1>3. item[i].status \in States /\ item[i].ab \in BOOLEAN /\ i \in Nat
  BY <1>2, WriterTypes DEF ItemRow
<1>4. level \in Levels /\ composer.chosen \in SUBSET Channels /\ composer.by \in Picks
  BY WriterTypes, IdlePage DEF WritingInv, FormRow, Levels
<1>5. item[i].status = "APPROVED" => item[i].approved
  BY <1>2 DEF WritingInv
<1>9. TikToks \cap composer.chosen # {} => level = composer.level /\ level # "none"
  BY <1>1, IdlePage DEF Writing!Ready, Writing!ForTikTok
<1>10. /\ level # "none" => Owned(composer.by, i, composer.chosen, level)
       /\ FormPicked(composer', draft')
  BY <1>1, IdlePage DEF WritingInv, FormPicked, Owned
<1> HIDE DEF level, i
<1>6. x \in CallRow
  BY <1>3, <1>4 DEF CallRow
<1>7. Points(x) /\ Cleared(x) /\ Settled(x)
  BY <1>2, <1>5, <1>9, <1>10 DEF Points, Cleared, Settled
<1> HIDE DEF x
<1> QED
  BY <1>1, <1>2, <1>6, <1>7, <1>10, CallTurns, WriterTypes DEF i

LEMMA CheckGateStep == WritingInv /\ Writing!CheckGate => WritingInv'
<1> SUFFICES ASSUME WritingInv, Writing!CheckGate PROVE WritingInv'
  OBVIOUS
<1>1. /\ UNCHANGED <<gate, item, run, booked, save, composer, draft>>
      /\ asking["page"].op = "schedule" /\ asking["page"].pc = "gate"
      /\ "page" \in Writing!People
  BY WriterTypes DEF Writing!CheckGate, Writing!At
<1>2. CASE Writing!Done("page")
  BY <1>1, <1>2, CallEnds
<1>3. ASSUME NEW pc \in {"book", "bookGated"}, pc = "bookGated" => asking["page"].seen = "APPROVED",
             asking' = [asking EXCEPT !["page"].pc = pc]
      PROVE  WritingInv'
  <2> DEFINE x == [asking["page"] EXCEPT !.pc = pc]
  <2>1. /\ x \in CallRow /\ x.op = "schedule" /\ x.pc = pc /\ x.item = asking["page"].item
        /\ x.level = asking["page"].level /\ x.seen = asking["page"].seen
        /\ x.by = asking["page"].by /\ x.chosen = asking["page"].chosen
    BY <1>1, WriterTypes DEF CallRow
  <2>2. asking' = [asking EXCEPT !["page"] = x]
    BY <1>3
  <2> HIDE DEF x
  <2>3. Points(x) /\ Cleared(x) /\ Settled(x)
    BY <1>1, <1>3, <2>1 DEF WritingInv, Points, Cleared, Settled
  <2>4. /\ draft.run \in 0..Len(run) /\ draft.shown \in 0..Len(item)
        /\ FormPicked(composer', draft')
    BY <1>1 DEF WritingInv, Pointing, FormPicked
  <2> QED
    BY <1>1, <2>1, <2>2, <2>3, <2>4, CallTurns, WriterTypes
<1> QED
  BY <1>2, <1>3 DEF Writing!CheckGate, Writing!Accepts

\* rows are added and change, and what was approved stays so
LEMMA RowsTurn ==
    ASSUME WritingInv, UNCHANGED gate, save' \subseteq save,
           item' \in Seq(ItemRow), Len(item') >= Len(item),
           \A i \in 1..Len(item) : item[i].approved => item'[i].approved,
           \A i \in 1..Len(item') : item'[i].status = "APPROVED" => item'[i].approved,
           run' \in Seq(RunRow), Len(run') >= Len(run),
           \A r \in 1..Len(run') : run'[r].item \in 0..Len(item'),
           booked' \in Seq(BookingRow),
           \A k \in 1..Len(booked') :
              \/ /\ k \in 1..Len(booked) /\ booked'[k].item = booked[k].item
                 /\ booked'[k].gated = booked[k].gated
                 /\ booked'[k].level = booked[k].level /\ booked'[k].by = booked[k].by
              \/ /\ booked'[k].item \in 1..Len(item)
                 /\ booked'[k].gated => item[booked'[k].item].approved
                 /\ RowChosen(booked'[k]),
           composer' \in FormRow, composer'.level = composer.level,
           composer'.by = composer.by, composer'.chosen = composer.chosen,
           draft' \in DraftRow, draft'.run = draft.run, draft'.shown = draft.shown,
           draft'.fetch = draft.fetch,
           asking' \in [Writing!People -> CallRow],
           \A p \in Writing!People :
              asking'[p] = asking[p] \/ asking'[p] = Writing!Idle
    PROVE  WritingInv'
<1>1. Len(item) \in Nat /\ Len(item') \in Nat /\ Len(run) \in Nat /\ Len(run') \in Nat
  BY LenProperties DEF WritingInv, WritingTyped
<1>2. /\ 1..Len(item) \subseteq 1..Len(item') /\ 0..Len(item) \subseteq 0..Len(item')
      /\ 1..Len(run) \subseteq 1..Len(run') /\ 0..Len(run) \subseteq 0..Len(run')
  BY <1>1
<1>4. WritingTyped'
  BY <1>2 DEF WritingInv, WritingTyped
<1>5. Pointing'
  BY <1>2 DEF WritingInv, Pointing
<1>6. FormPicked(composer, draft)'
  BY DEF WritingInv, FormPicked
<1>7. ASSUME NEW p \in Writing!People
      PROVE  Points(asking[p])' /\ Cleared(asking[p])' /\ Settled(asking[p])'
  <2>1. CASE asking'[p] = asking[p]
    <3>1. Points(asking[p]) /\ Cleared(asking[p]) /\ Settled(asking[p])
      BY DEF WritingInv
    <3> QED
      BY <1>2, <2>1, <3>1 DEF Points, Cleared, Settled
  <2>2. CASE asking'[p] = Writing!Idle
    BY <2>2, IdlePage, ReviewAssumption DEF Writing!Idle, Points, Cleared, Settled
  <2> QED
    BY <2>1, <2>2
<1>8. ASSUME NEW k \in 1..Len(booked')
      PROVE  booked'[k].gated => item'[booked'[k].item].approved
  BY DEF WritingInv, Pointing
<1>9. ASSUME NEW k \in 1..Len(booked') PROVE RowChosen(booked[k])'
  <2>1. RowChosen(booked'[k])
    BY DEF WritingInv, RowChosen
  <2> QED
    BY <2>1 DEF RowChosen
<1>11. \A i \in 1..Len(item') : item'[i].status = "APPROVED" => item'[i].approved
  OBVIOUS
<1> QED
  BY <1>4, <1>5, <1>6, <1>7, <1>8, <1>9, <1>11 DEF WritingInv

LEMMA QueueRunStep == WritingInv /\ Writing!QueueRun => WritingInv'
<1> SUFFICES ASSUME WritingInv, Writing!QueueRun PROVE WritingInv'
  OBVIOUS
<1>1. /\ UNCHANGED <<gate, item, booked, save, composer, draft>>
      /\ asking["page"].op = "generate" /\ "page" \in Writing!People
      /\ asking["page"] \in CallRow
  BY WriterTypes DEF Writing!QueueRun, Writing!At, CallRow
<1>2. CASE Writing!Done("page") /\ UNCHANGED run
  BY <1>1, <1>2, CallEnds
<1>3. ASSUME NEW status \in {"QUEUED", "FAILED"}, NEW x \in CallRow,
             run' = Append(run, [status |-> status, item |-> 0]),
             asking' = [asking EXCEPT !["page"] = x],
             x.op # "schedule", x.op \notin Reviews, x.item = Len(run) + 1 \/ x.op = "none",
             x.pc \notin {"gate", "book", "bookGated"}
      PROVE  WritingInv'
  <2> DEFINE new == [status |-> status, item |-> 0]
  <2>1. new \in RunRow /\ new.item = 0
    BY DEF RunRow
  <2> HIDE DEF new
  <2>2. /\ run' \in Seq(RunRow) /\ Len(run') = Len(run) + 1 /\ run'[Len(run) + 1] = new
        /\ \A r \in 1..Len(run) : run'[r] = run[r]
    BY <1>3, <2>1, AppendProperties DEF WritingInv, WritingTyped, new
  <2>3. /\ asking' \in [Writing!People -> CallRow] /\ asking'["page"] = x
        /\ \A u \in Writing!People \ {"page"} : asking'[u] = asking[u]
    BY <1>3, WriterTypes DEF WritingInv, WritingTyped
  <2>4. Points(x)' /\ Cleared(x) /\ Settled(x)
    BY <1>3, <2>2, WriterTypes DEF Points, Cleared, Settled
  <2>5. \A r \in 1..Len(run') : run'[r].item \in 0..Len(item)
    BY <2>1, <2>2, WriterTypes DEF WritingInv, Pointing
  <2>6. FormPicked(composer, draft)' /\ \A k \in 1..Len(booked) : RowChosen(booked[k])'
    BY <1>1 DEF WritingInv, FormPicked, RowChosen
  <2>8. WritingTyped' /\ Pointing'
    BY <1>1, <2>2, <2>3, <2>5, WriterTypes DEF WritingInv, WritingTyped, Pointing
  <2>9. ASSUME NEW p \in Writing!People
        PROVE  Points(asking[p])' /\ Cleared(asking[p])' /\ Settled(asking[p])'
    <3>1. CASE p = "page"
      BY <1>1, <2>3, <2>4, <3>1 DEF Points, Cleared, Settled
    <3>2. CASE p # "page"
      <4>1. Points(asking[p]) /\ Cleared(asking[p]) /\ Settled(asking[p])
        BY DEF WritingInv
      <4> QED
        BY <1>1, <2>2, <2>3, <3>2, <4>1, WriterTypes DEF Points, Cleared, Settled
    <3> QED
      BY <3>1, <3>2
  <2> QED
    BY <1>1, <2>6, <2>8, <2>9 DEF WritingInv
<1>4. CASE /\ run' = Append(run, [status |-> "QUEUED", item |-> 0])
           /\ asking' = [asking EXCEPT !["page"].pc = "answer", !["page"].item = Len(run) + 1]
  <2> DEFINE x == [asking["page"] EXCEPT !.pc = "answer", !.item = Len(run) + 1]
  <2>1. Len(run) + 1 \in Nat
    BY WriterTypes
  <2>2. /\ x \in CallRow /\ x.pc = "answer" /\ x.item = Len(run) + 1 /\ x.op = "generate"
    BY <1>1, <2>1 DEF CallRow
  <2>3. asking' = [asking EXCEPT !["page"] = x]
    BY <1>4 DEF WritingInv, WritingTyped
  <2> HIDE DEF x
  <2> QED
    BY <1>3, <1>4, <2>2, <2>3, ReviewAssumption
<1>5. CASE run' = Append(run, [status |-> "FAILED", item |-> 0]) /\ Writing!Done("page")
  <2>1. asking' = [asking EXCEPT !["page"] = Writing!Idle] /\ Writing!Idle.pc = "idle"
    BY <1>5 DEF Writing!Done, Writing!Idle
  <2> QED
    BY <1>3, <1>5, <2>1, IdlePage, ReviewAssumption
<1> QED
  BY <1>2, <1>4, <1>5 DEF Writing!QueueRun

LEMMA WriterEndsStep ==
    ASSUME WritingInv, NEW r \in DOMAIN run, Writing!WriterEnds(r)
    PROVE  WritingInv'
<1>1. /\ UNCHANGED <<gate, booked, asking, save, draft, composer>>
      /\ asking \in [Writing!People -> CallRow] /\ booked \in Seq(BookingRow)
      /\ item \in Seq(ItemRow) /\ run \in Seq(RunRow) /\ r \in 1..Len(run)
      /\ composer \in FormRow /\ draft \in DraftRow
  BY WriterTypes DEF Writing!WriterEnds, WritingInv, WritingTyped
<1>a. /\ Len(item) \in Nat /\ Len(run) \in Nat
      /\ \A q \in 1..Len(run) : run[q].item \in 0..Len(item)
      /\ \A i \in 1..Len(item) : item[i].status = "APPROVED" => item[i].approved
  BY WriterTypes DEF WritingInv, Pointing
<1>2. ASSUME NEW ab \in BOOLEAN,
             item' = Append(item, [status |-> "DRAFT", ab |-> ab, approved |-> FALSE]),
             run' = [run EXCEPT ![r] = [status |-> "SUCCEEDED", item |-> Len(item) + 1]]
      PROVE  WritingInv'
  <2> DEFINE new == [status |-> "DRAFT", ab |-> ab, approved |-> FALSE]
             end == [status |-> "SUCCEEDED", item |-> Len(item) + 1]
  <2>1. new \in ItemRow /\ new.status # "APPROVED" /\ end \in RunRow /\ end.item = Len(item) + 1
    BY WriterTypes DEF ItemRow, States, RunRow
  <2> HIDE DEF new, end
  <2>2. /\ item' \in Seq(ItemRow) /\ Len(item') = Len(item) + 1 /\ item'[Len(item) + 1] = new
        /\ \A i \in 1..Len(item) : item'[i] = item[i]
    BY <1>1, <1>2, <2>1, AppendProperties DEF new
  <2>3. /\ run' \in Seq(RunRow) /\ Len(run') = Len(run)
        /\ \A q \in 1..Len(run) : run'[q] = IF q = r THEN end ELSE run[q]
    BY <1>1, <1>2, <2>1, ExceptSeq, WriterTypes DEF end
  <2>4. \A q \in 1..Len(run') : run'[q].item \in 0..Len(item')
    BY <1>a, <2>1, <2>2, <2>3
  <2>5. \A i \in 1..Len(item') : item'[i].status = "APPROVED" => item'[i].approved
    <3> SUFFICES ASSUME NEW i \in 1..(Len(item) + 1)
                 PROVE  item'[i].status = "APPROVED" => item'[i].approved
      BY <2>2
    <3>1. i \in 1..Len(item) \/ i = Len(item) + 1
      BY <1>a
    <3> QED
      BY <1>a, <2>1, <2>2, <3>1
  <2> QED
    BY <1>1, <2>2, <2>3, <2>4, <2>5, WriterTypes, RowsTurn
<1>3. CASE run' = [run EXCEPT ![r].status = "FAILED"] /\ UNCHANGED item
  <2> DEFINE end == [run[r] EXCEPT !.status = "FAILED"]
  <2>1. end \in RunRow /\ end.item = run[r].item
    BY <1>1, WriterTypes DEF RunRow
  <2>2. run' = [run EXCEPT ![r] = end]
    BY <1>3
  <2> HIDE DEF end
  <2>3. /\ run' \in Seq(RunRow) /\ Len(run') = Len(run)
        /\ \A q \in 1..Len(run) : run'[q] = IF q = r THEN end ELSE run[q]
    BY <1>1, <2>1, <2>2, ExceptSeq, WriterTypes
  <2>4. \A q \in 1..Len(run') : run'[q].item \in 0..Len(item')
    BY <1>3, <2>1, <2>3 DEF WritingInv, Pointing
  <2>5. \A i \in 1..Len(item') : item'[i].status = "APPROVED" => item'[i].approved
    BY <1>3 DEF WritingInv
  <2> QED
    BY <1>1, <1>3, <2>3, <2>4, <2>5, WriterTypes, RowsTurn
<1> QED
  BY <1>2, <1>3 DEF Writing!WriterEnds

\* one row of content is written: its text, or its status
LEMMA ItemWritten ==
    ASSUME WritingInv, NEW i \in 1..Len(item), NEW written \in ItemRow,
           item' = [item EXCEPT ![i] = written], item[i].approved => written.approved,
           written.status = "APPROVED" => written.approved
    PROVE  /\ item' \in Seq(ItemRow) /\ Len(item') = Len(item) /\ Len(item) \in Nat
           /\ \A j \in 1..Len(item) : item[j].approved => item'[j].approved
           /\ \A j \in 1..Len(item') : item'[j].status = "APPROVED" => item'[j].approved
<1>1. item \in Seq(ItemRow) /\ DOMAIN item = 1..Len(item) /\ Len(item) \in Nat
      /\ \A j \in 1..Len(item) : item[j].status = "APPROVED" => item[j].approved
  BY WriterTypes DEF WritingInv, WritingTyped
<1>2. item' \in Seq(ItemRow) /\ Len(item') = Len(item)
  BY <1>1, ExceptSeq
<1> QED
  BY <1>1, <1>2

LEMMA RowsStand ==
    ASSUME WritingInv
    PROVE  /\ booked \in Seq(BookingRow) /\ composer \in FormRow /\ draft \in DraftRow
           /\ asking \in [Writing!People -> CallRow] /\ run \in Seq(RunRow)
           /\ item \in Seq(ItemRow) /\ Len(run) \in Nat /\ Len(item) \in Nat
           /\ Len(run) >= Len(run) /\ Len(item) >= Len(item)
           /\ \A r \in 1..Len(run) : run[r].item \in 0..Len(item)
           /\ \A i \in 1..Len(item) : item[i].status = "APPROVED" => item[i].approved
BY WriterTypes DEF WritingInv, WritingTyped, Pointing

LEMMA SaveLandsStep ==
    ASSUME WritingInv, NEW i \in save, Writing!SaveLands(i)
    PROVE  WritingInv'
<1>1. /\ UNCHANGED <<gate, run, booked, asking, draft, composer>> /\ save' \subseteq save
      /\ i \in 1..Len(item) /\ (item' = item \/ item' = [item EXCEPT ![i].ab = FALSE])
  BY DEF Writing!SaveLands, WritingInv, WritingTyped
<1>2. CASE item' = item
  BY <1>1, <1>2, RowsStand, RowsTurn
<1>3. CASE item' = [item EXCEPT ![i].ab = FALSE]
  <2> DEFINE new == [item[i] EXCEPT !.ab = FALSE]
  <2>1. /\ new \in ItemRow /\ new.status = item[i].status /\ new.approved = item[i].approved
    BY <1>1, WriterTypes DEF ItemRow
  <2>2. item' = [item EXCEPT ![i] = new]
    BY <1>3
  <2> HIDE DEF new
  <2>3. /\ item' \in Seq(ItemRow) /\ Len(item') = Len(item) /\ Len(item) \in Nat
        /\ \A j \in 1..Len(item) : item[j].approved => item'[j].approved
        /\ \A j \in 1..Len(item') : item'[j].status = "APPROVED" => item'[j].approved
    BY <1>1, <2>1, <2>2, ItemWritten, RowsStand
  <2> QED
    BY <1>1, <2>3, RowsStand, RowsTurn
<1> QED
  BY <1>1, <1>2, <1>3

LEMMA ReviewReadStep ==
    ASSUME WritingInv, NEW p \in Writing!People, NEW op \in Reviews, NEW i \in Writing!Items,
           Writing!ReviewRead(p, op, i)
    PROVE  WritingInv'
<1> DEFINE x == [Writing!Idle EXCEPT !.op = op, !.pc = "write", !.item = i]
<1>1. /\ asking' = [asking EXCEPT ![p] = x] /\ i \in 1..Len(item)
      /\ UNCHANGED <<gate, item, run, booked, save, composer, draft>>
  BY DEF Writing!ReviewRead, Writing!Items
<1>2. i \in Nat
  BY <1>1, RowsStand
<1>3. /\ x \in CallRow /\ x.op = op /\ x.pc = "write" /\ x.item = i
  BY <1>2, IdlePage DEF CallRow
<1> HIDE DEF x
<1>4. Points(x) /\ Cleared(x) /\ Settled(x)
  BY <1>1, <1>3, ReviewAssumption DEF Points, Cleared, Settled
<1>5. /\ draft.run \in 0..Len(run) /\ draft.shown \in 0..Len(item)
      /\ FormPicked(composer', draft')
  BY <1>1 DEF WritingInv, Pointing, FormPicked
<1> QED
  BY <1>1, <1>3, <1>4, <1>5, CallTurns, RowsStand

LEMMA ReviewWriteStep ==
    ASSUME WritingInv, NEW p \in Writing!People, Writing!ReviewWrite(p)
    PROVE  WritingInv'
<1> DEFINE op == asking[p].op
           i == asking[p].item
           new == [item[i] EXCEPT !.status = Writing!Becomes[op], !.approved = @ \/ op = "approve"]
<1>1. /\ op \in Reviews /\ UNCHANGED <<gate, run, save, composer>>
      /\ asking' = [asking EXCEPT ![p] = Writing!Idle]
      /\ item' = [item EXCEPT ![i].status = Writing!Becomes[op],
                              ![i].approved = @ \/ op = "approve"]
  BY DEF Writing!ReviewWrite, Writing!Done
<1>2. op \in {"submit", "approve", "reject", "draft"} /\ i \in 1..Len(item)
  BY <1>1, ReviewAssumption DEF WritingInv, Points
<1>3. Writing!Becomes[op] \in States /\ (Writing!Becomes[op] = "APPROVED" => op = "approve")
  BY <1>2 DEF Writing!Becomes, States
<1>4. item[i] \in ItemRow /\ i \in DOMAIN item
  BY <1>2, WriterTypes
<1>5. /\ new \in ItemRow /\ new.status = Writing!Becomes[op]
      /\ new.approved = (item[i].approved \/ op = "approve")
  BY <1>3, <1>4 DEF ItemRow
<1>6. item' = [item EXCEPT ![i] = new]
  BY <1>1, <1>4, RowsStand DEF ItemRow
<1>7. draft' \in DraftRow /\ draft'.run = draft.run /\ draft'.shown = draft.shown
      /\ draft'.fetch = draft.fetch
  <2>1. draft' = draft \/ draft' = [draft EXCEPT !.status = Writing!Becomes[op]]
    BY DEF Writing!ReviewWrite
  <2> QED
    BY <1>3, <2>1, RowsStand DEF DraftRow
<1>8. /\ booked' \in Seq(BookingRow) /\ Len(booked') = Len(booked)
      /\ \A k \in 1..Len(booked) :
            /\ booked'[k].item = booked[k].item /\ booked'[k].gated = booked[k].gated
            /\ booked'[k].level = booked[k].level /\ booked'[k].by = booked[k].by
  <2>1. CASE booked' = booked
    BY <2>1, RowsStand
  <2>2. CASE booked' = [k \in DOMAIN booked |->
                           IF booked[k].item = i /\ booked[k].status = "PENDING"
                                               THEN [booked[k] EXCEPT !.status = "CANCELLED"]
                                               ELSE booked[k]]
    <3>1. ASSUME NEW k \in 1..Len(booked)
          PROVE  /\ booked[k] \in BookingRow
                 /\ [booked[k] EXCEPT !.status = "CANCELLED"] \in BookingRow
                 /\ [booked[k] EXCEPT !.status = "CANCELLED"].item = booked[k].item
                 /\ [booked[k] EXCEPT !.status = "CANCELLED"].gated = booked[k].gated
                 /\ [booked[k] EXCEPT !.status = "CANCELLED"].level = booked[k].level
                 /\ [booked[k] EXCEPT !.status = "CANCELLED"].by = booked[k].by
      <4>1. booked[k] \in BookingRow
        BY WriterTypes
      <4> QED
        BY <4>1 DEF BookingRow
    <3>2. booked' \in [1..Len(booked) -> BookingRow] /\ Len(booked) \in Nat
      BY <2>2, <3>1, WriterTypes
    <3>3. \A k \in 1..Len(booked) :
             /\ booked'[k].item = booked[k].item /\ booked'[k].gated = booked[k].gated
             /\ booked'[k].level = booked[k].level /\ booked'[k].by = booked[k].by
      BY <2>2, <3>1, WriterTypes
    <3> QED
      BY <3>2, <3>3, SeqDef, LenProperties
  <2> QED
    BY <2>1, <2>2 DEF Writing!ReviewWrite
<1>9. /\ asking' \in [Writing!People -> CallRow]
      /\ \A u \in Writing!People : asking'[u] = asking[u] \/ asking'[u] = Writing!Idle
  BY <1>1, RowsStand, IdlePage
<1> HIDE DEF new, op, i
<1>10. /\ item' \in Seq(ItemRow) /\ Len(item') = Len(item) /\ Len(item) \in Nat
       /\ \A j \in 1..Len(item) : item[j].approved => item'[j].approved
       /\ \A j \in 1..Len(item') : item'[j].status = "APPROVED" => item'[j].approved
  BY <1>2, <1>3, <1>5, <1>6, ItemWritten
<1> QED
  BY <1>1, <1>7, <1>8, <1>9, <1>10, RowsStand, RowsTurn

LEMMA BookStep == WritingInv /\ Writing!Book => WritingInv'
<1> SUFFICES ASSUME WritingInv, Writing!Book PROVE WritingInv'
  OBVIOUS
<1> DEFINE x == asking["page"]
           i == x.item
           level == [c \in x.chosen |-> IF c \in TikToks THEN x.level ELSE Writing!Nobody]
           booking == [item |-> i, status |-> "PENDING", split |-> x.ab,
                       gated |-> x.pc = "bookGated", by |-> x.by, level |-> level]
           new == [item[i] EXCEPT !.status = "SCHEDULED"]
<1>1. /\ x.pc \in {"book", "bookGated"} /\ UNCHANGED <<gate, run, save, draft>>
      /\ booked' = Append(booked, booking)
      /\ item' = [item EXCEPT ![i].status = "SCHEDULED"]
      /\ composer' = [composer EXCEPT !.scheduled = TRUE]
      /\ asking' = [asking EXCEPT !["page"] = Writing!Idle]
  BY DEF Writing!Book, Writing!Done
<1>2. /\ x.op = "schedule" /\ i \in 1..Len(item) /\ x \in CallRow
      /\ (x.pc = "bookGated" => item[i].approved) /\ Settled(x)
  BY <1>1, WriterTypes DEF WritingInv, Points, Cleared
<1>3. /\ i \in Nat /\ x.ab \in BOOLEAN /\ x.chosen \in SUBSET Channels /\ x.level \in Levels
      /\ Writing!Nobody \in Levels /\ x.by \in Picks
  BY <1>2, IdlePage DEF CallRow, Levels
<1>4. level \in UNION {[to -> Levels] : to \in SUBSET Channels}
  <2>1. level \in [x.chosen -> Levels]
    BY <1>3
  <2> QED
    BY <1>3, <2>1
<1>5. /\ DOMAIN level = x.chosen
      /\ \A c \in TikToks \cap x.chosen :
            level[c] = x.level /\ level[c] # "none" /\ Owned(x.by, i, x.chosen, level[c])
  BY <1>2 DEF Settled
<1>6. new \in ItemRow /\ new.status = "SCHEDULED" /\ new.approved = item[i].approved
  BY <1>2, WriterTypes DEF ItemRow, States
<1>7. item' = [item EXCEPT ![i] = new]
  BY <1>1
<1> HIDE DEF level, new
<1>8. /\ booking \in BookingRow /\ booking.item = i /\ booking.level = level
      /\ booking.by = x.by
      /\ booking.gated = (x.pc = "bookGated")
  BY <1>3, <1>4 DEF BookingRow
<1>14. RowChosen(booking)
  BY <1>5, <1>8 DEF RowChosen
<1> HIDE DEF booking
<1>9. /\ booked' \in Seq(BookingRow) /\ Len(booked') = Len(booked) + 1
      /\ booked'[Len(booked) + 1] = booking
      /\ \A k \in 1..Len(booked) : booked'[k] = booked[k]
  BY <1>1, <1>8, RowsStand, AppendProperties
<1>10. ASSUME NEW k \in 1..Len(booked')
       PROVE  \/ /\ k \in 1..Len(booked) /\ booked'[k].item = booked[k].item
                 /\ booked'[k].gated = booked[k].gated
                 /\ booked'[k].level = booked[k].level /\ booked'[k].by = booked[k].by
              \/ /\ booked'[k].item \in 1..Len(item)
                 /\ booked'[k].gated => item[booked'[k].item].approved
                 /\ RowChosen(booked'[k])
  <2>1. k \in 1..Len(booked) \/ k = Len(booked) + 1
    BY <1>9, WriterTypes
  <2> QED
    BY <1>2, <1>8, <1>9, <1>14, <2>1
<1>11. /\ item' \in Seq(ItemRow) /\ Len(item') = Len(item) /\ Len(item) \in Nat
       /\ \A j \in 1..Len(item) : item[j].approved => item'[j].approved
       /\ \A j \in 1..Len(item') : item'[j].status = "APPROVED" => item'[j].approved
  BY <1>2, <1>6, <1>7, ItemWritten
<1>12. /\ composer' \in FormRow /\ composer'.level = composer.level
       /\ composer'.by = composer.by /\ composer'.chosen = composer.chosen
  BY <1>1, RowsStand DEF FormRow
<1>13. /\ asking' \in [Writing!People -> CallRow]
       /\ \A u \in Writing!People : asking'[u] = asking[u] \/ asking'[u] = Writing!Idle
  BY <1>1, RowsStand, IdlePage
<1> QED
  BY <1>1, <1>9, <1>10, <1>11, <1>12, <1>13, RowsStand, RowsTurn

LEMMA WritingStep == WritingInv /\ [Next]_vars => WritingInv'
<1> SUFFICES ASSUME WritingInv, [Writing!Next]_(Writing!vars) PROVE WritingInv'
  BY WritingAlone
<1>1. CASE UNCHANGED Writing!vars
  BY <1>1 DEF Writing!vars, WritingInv, WritingTyped, Pointing, Points, Cleared, Settled, FormPicked,
     RowChosen
<1>2. CASE Writing!Next
  BY <1>2, GenerateStep, QueueRunStep, RunIsKnownStep, DraftSteps, WriterEndsStep, FormSteps,
     SaveLandsStep, ReviewReadStep, ReviewWriteStep, ScheduleStep, CheckGateStep, BookStep
     DEF Writing!Next
<1> QED
  BY <1>1, <1>2

\* What was booked while the workspace asked for approval had been approved, whoever submitted,
\* approved, rejected or rewrote it meanwhile (scheduling.service.ts schedule).
THEOREM BookedWasApproved == Spec => []BookedAfterApproval
<1>1. WritingInv => BookedAfterApproval
  BY WriterTypes DEF WritingInv, BookedAfterApproval, Writing!BookedAfterApproval
<1> QED
  BY <1>1, WritingInit, WritingStep, PTL DEF Spec

\* Every row for TikTok carries an audience, and it is the creator's last choice for that very
\* item in the panel of the first TikTok channel booked, unless the page left the choice of an
\* earlier post or channel standing (tiktok-post-settings.tsx, composer page, schedule).
THEOREM AudiencePicked == Spec => []AudienceWasChosen
<1>1. WritingInv => AudienceWasChosen
  <2> SUFFICES ASSUME WritingInv PROVE Writing!AudienceWasChosen
    BY DEF AudienceWasChosen
  <2>1. DOMAIN booked = 1..Len(booked) /\ Writing!Nobody = "none"
    BY WriterTypes, IdlePage
  <2>2. \A k \in 1..Len(booked) : RowChosen(booked[k])
    BY DEF WritingInv
  <2> QED
    BY <2>1, <2>2 DEF RowChosen, Owned, Writing!AudienceWasChosen
<1> QED
  BY <1>1, WritingInit, WritingStep, PTL DEF Spec

-----------------------------------------------------------------------------
(***************************************************************************)
(* Sockets: a socket without its right was last let pass by an answer read *)
(* while it had it, kept for CacheTtl at most, and the timer asks again    *)
(* within Every.                                                           *)
(***************************************************************************)
SocketRow == [pc : {"none", "asking", "joined"}, version : Int, age : Nat]
KnownRow == [value : Int, left : 0..CacheTtl]
LookRow ==
    [by : {"none", "handshake", "timer", "handshakeRead", "timerRead"}, value : Int]

SocketsTyped ==
    /\ right \in [member : BOOLEAN, version : Nat]
    /\ known \in [Processes -> KnownRow] /\ socket \in [Processes -> SocketRow]
    /\ look \in [Processes -> LookRow]
    /\ timer \in [Processes -> 0..Every] /\ without \in [Processes -> Nat]

\* what holds of one socket, its look-up, its process's answer and timer while the row is row:
\* one that is there is watched, from its age to the answer that let it pass
Kept(s, l, c, tick, w, row) ==
    /\ w <= Every + CacheTtl
    /\ s.pc = "none" => s.age = 0
    /\ s.pc # "none" =>
          /\ s.version >= 0
          /\ s.age + tick <= MaxAge + Every
          /\ s.version = row => w = 0
          /\ l.by \in {"timerRead", "handshakeRead"} /\ l.value = s.version => w = 0
          /\ c.left > 0 /\ c.value = s.version => w + c.left <= CacheTtl
          /\ l.by \notin {"timer", "timerRead"} => w + tick <= Every + CacheTtl

KeptOn(r) == Kept(socket[r], look[r], known[r], timer[r], without[r], Sockets!Row)

SocketsInv == SocketsTyped /\ \A r \in Processes : KeptOn(r)

LEMMA SocketsAlone == [Next]_vars => [Sockets!Next]_(Sockets!vars)
BY DEF Next, Guards, Posts, Pages, vars, callerVars, socketVars, Sockets!vars

LEMMA Times == CacheTtl \in Nat /\ Every \in Nat /\ MaxAge \in Nat
               /\ CacheTtl > 0 /\ Every > 0 /\ MaxAge > 0
BY TimeAssumption

LEMMA NoRows ==
    /\ Sockets!NoSocket \in SocketRow /\ Sockets!NoSocket.pc = "none" /\ Sockets!NoSocket.age = 0
    /\ Sockets!NoCache \in KnownRow /\ Sockets!NoCache.left = 0
    /\ Sockets!NoLook \in LookRow /\ Sockets!NoLook.by = "none"
BY Times DEF Sockets!NoSocket, Sockets!NoCache, Sockets!NoLook, Sockets!Gone, SocketRow,
   KnownRow, LookRow

LEMMA SocketsInit == Init => SocketsInv
<1> SUFFICES ASSUME Sockets!Init PROVE SocketsInv
  BY DEF Init
<1> QED
  BY Times, NoRows DEF Sockets!Init, SocketsInv, SocketsTyped, KeptOn, Kept

LEMMA SocketFacts ==
    ASSUME SocketsInv, NEW r \in Processes
    PROVE  /\ socket[r] \in SocketRow /\ look[r] \in LookRow /\ known[r] \in KnownRow
           /\ timer[r] \in 0..Every /\ without[r] \in Nat /\ KeptOn(r)
BY DEF SocketsInv, SocketsTyped

LEMMA RowIsInt == SocketsInv => Sockets!Row \in Int
BY DEF Sockets!Row, Sockets!Gone, SocketsInv, SocketsTyped

\* a look-up, an answer, a timer, a count or a socket of one process is written, or left
LEMMA SameSocket ==
    ASSUME SocketsInv, NEW r \in Processes
    PROVE  /\ socket = [socket EXCEPT ![r] = socket[r]] /\ look = [look EXCEPT ![r] = look[r]]
           /\ known = [known EXCEPT ![r] = known[r]] /\ timer = [timer EXCEPT ![r] = timer[r]]
           /\ without = [without EXCEPT ![r] = without[r]]
BY DEF SocketsInv, SocketsTyped

LEMMA OneSocket ==
    ASSUME SocketsInv, NEW r \in Processes, UNCHANGED right,
           NEW s \in SocketRow, socket' = [socket EXCEPT ![r] = s],
           NEW l \in LookRow, look' = [look EXCEPT ![r] = l],
           NEW c \in KnownRow, known' = [known EXCEPT ![r] = c],
           NEW tick \in 0..Every, timer' = [timer EXCEPT ![r] = tick],
           NEW w \in Nat, without' = [without EXCEPT ![r] = w],
           Kept(s, l, c, tick, w, Sockets!Row)
    PROVE  SocketsInv'
<1>1. SocketsTyped'
  BY DEF SocketsInv, SocketsTyped
<1>2. /\ socket'[r] = s /\ look'[r] = l /\ known'[r] = c /\ timer'[r] = tick /\ without'[r] = w
      /\ \A q \in Processes \ {r} :
            /\ socket'[q] = socket[q] /\ look'[q] = look[q] /\ known'[q] = known[q]
            /\ timer'[q] = timer[q] /\ without'[q] = without[q]
  BY DEF SocketsInv, SocketsTyped
<1>3. Sockets!Row' = Sockets!Row
  BY DEF Sockets!Row
<1>4. ASSUME NEW q \in Processes PROVE KeptOn(q)'
  <2>1. CASE q = r
    BY <1>2, <1>3, <2>1 DEF KeptOn
  <2>2. CASE q # r
    BY <1>2, <1>3, <2>2 DEF KeptOn, SocketsInv
  <2> QED
    BY <2>1, <2>2
<1> QED
  BY <1>1, <1>4 DEF SocketsInv

LEMMA ConnectSocket ==
    ASSUME SocketsInv, NEW r \in Processes, NEW version \in 0..right.version,
           Sockets!Connect(r, version)
    PROVE  SocketsInv'
<1> DEFINE s == [pc |-> "asking", version |-> version, age |-> 0]
           l == [look[r] EXCEPT !.by = "handshake"]
<1>1. /\ socket' = [socket EXCEPT ![r] = s] /\ look' = [look EXCEPT ![r] = l]
      /\ without' = [without EXCEPT ![r] = 0] /\ UNCHANGED <<right, known, timer>>
  BY DEF Sockets!Connect
<1>2. version \in Nat
  BY DEF SocketsInv, SocketsTyped
<1>3. /\ socket[r] \in SocketRow /\ look[r] \in LookRow /\ known[r] \in KnownRow
      /\ timer[r] \in 0..Every
  BY SocketFacts
<1>4. s \in SocketRow /\ l \in LookRow /\ l.by = "handshake" /\ 0 \in Nat
  BY <1>2, <1>3 DEF SocketRow, LookRow
<1>5. s.pc = "asking" /\ s.version = version /\ s.age = 0
  OBVIOUS
<1> HIDE DEF s, l
<1>6. Kept(s, l, known[r], timer[r], 0, Sockets!Row)
  BY <1>2, <1>3, <1>4, <1>5, Times DEF Kept, KnownRow
<1>7. known' = [known EXCEPT ![r] = known[r]] /\ timer' = [timer EXCEPT ![r] = timer[r]]
  BY <1>1, SameSocket
<1>8. UNCHANGED right
  BY <1>1
<1> QED
  BY <1>1, <1>3, <1>4, <1>6, <1>7, <1>8, OneSocket

LEMMA RevalidateSocket ==
    ASSUME SocketsInv, NEW r \in Processes, Sockets!Revalidate(r)
    PROVE  SocketsInv'
<1>1. /\ timer[r] = 0 /\ timer' = [timer EXCEPT ![r] = Every] /\ look[r] = Sockets!NoLook
      /\ UNCHANGED right /\ Every \in 0..Every
  BY Times DEF Sockets!Revalidate
<1>2. known' = [known EXCEPT ![r] = known[r]] /\ without' = [without EXCEPT ![r] = without[r]]
  BY SameSocket DEF Sockets!Revalidate
<1>3. /\ socket[r] \in SocketRow /\ look[r] \in LookRow /\ known[r] \in KnownRow
      /\ without[r] \in Nat
      /\ Kept(socket[r], look[r], known[r], timer[r], without[r], Sockets!Row)
  BY SocketFacts DEF KeptOn
<1>4. CASE socket[r].pc = "joined" /\ socket[r].age <= MaxAge
           /\ look' = [look EXCEPT ![r].by = "timer"] /\ UNCHANGED socket
  <2> DEFINE l == [look[r] EXCEPT !.by = "timer"]
  <2>1. l \in LookRow /\ l.by = "timer" /\ look' = [look EXCEPT ![r] = l]
    BY <1>3, <1>4 DEF LookRow
  <2> HIDE DEF l
  <2>2. Kept(socket[r], l, known[r], Every, without[r], Sockets!Row)
    BY <1>3, <1>4, <2>1, Times DEF Kept, SocketRow
  <2>3. socket' = [socket EXCEPT ![r] = socket[r]]
    BY <1>4, SameSocket
  <2> QED
    BY <1>1, <1>2, <1>3, <2>1, <2>2, <2>3, OneSocket
<1>5. CASE socket' = [socket EXCEPT ![r] = Sockets!NoSocket] /\ UNCHANGED look
  <2>1. look' = [look EXCEPT ![r] = look[r]]
    BY <1>5, SameSocket
  <2>2. Sockets!NoSocket \in SocketRow
    BY NoRows
  <2>3. Kept(Sockets!NoSocket, look[r], known[r], Every, without[r], Sockets!Row)
    BY <1>3, NoRows DEF Kept
  <2> QED
    BY <1>1, <1>2, <1>3, <1>5, <2>1, <2>2, <2>3, OneSocket
<1> QED
  BY <1>4, <1>5 DEF Sockets!Revalidate

LEMMA ReadSocket ==
    ASSUME SocketsInv, NEW r \in Processes, Sockets!Read(r)
    PROVE  SocketsInv'
<1> DEFINE by == IF look[r].by = "timer" THEN "timerRead" ELSE "handshakeRead"
           l == [by |-> by, value |-> Sockets!Row]
<1>1. /\ look' = [look EXCEPT ![r] = l] /\ UNCHANGED <<right, known, socket, timer, without>>
      /\ look[r].by \in {"handshake", "timer"} /\ UNCHANGED right
  BY DEF Sockets!Read
<1>2. /\ l \in LookRow /\ l.value = Sockets!Row
      /\ l.by = IF look[r].by = "timer" THEN "timerRead" ELSE "handshakeRead"
  BY RowIsInt DEF LookRow
<1> HIDE DEF l, by
<1>3. /\ socket[r] \in SocketRow /\ known[r] \in KnownRow /\ timer[r] \in 0..Every
      /\ without[r] \in Nat
      /\ Kept(socket[r], look[r], known[r], timer[r], without[r], Sockets!Row)
  BY SocketFacts DEF KeptOn
<1>4. Kept(socket[r], l, known[r], timer[r], without[r], Sockets!Row)
  BY <1>1, <1>2, <1>3 DEF Kept
<1>5. /\ known' = [known EXCEPT ![r] = known[r]] /\ timer' = [timer EXCEPT ![r] = timer[r]]
      /\ without' = [without EXCEPT ![r] = without[r]]
      /\ socket' = [socket EXCEPT ![r] = socket[r]]
  BY <1>1, SameSocket
<1> QED
  BY <1>1, <1>2, <1>3, <1>4, <1>5, OneSocket

\* the gateway's decision on an answer that says it fits no longer than the look-up allowed
LEMMA DecideSocket ==
    ASSUME SocketsInv, NEW r \in Processes, NEW value \in Int, Sockets!Decide(r, value),
           NEW c \in KnownRow, known' = [known EXCEPT ![r] = c],
           \/ c = known[r] /\ known[r].left > 0 /\ value = known[r].value
           \/ /\ look[r].by \in {"handshakeRead", "timerRead"}
              /\ value = look[r].value /\ c = [value |-> value, left |-> CacheTtl]
    PROVE  SocketsInv'
<1> DEFINE s == IF socket[r].pc # "none" /\ Sockets!Fits(socket[r], value)
                THEN [socket[r] EXCEPT !.pc = "joined"] ELSE Sockets!NoSocket
<1>1. /\ socket' = [socket EXCEPT ![r] = s] /\ look' = [look EXCEPT ![r] = Sockets!NoLook]
      /\ UNCHANGED right /\ UNCHANGED <<timer, without>>
  BY DEF Sockets!Decide
<1>2. /\ socket[r] \in SocketRow /\ look[r] \in LookRow /\ known[r] \in KnownRow
      /\ timer[r] \in 0..Every /\ without[r] \in Nat
      /\ Kept(socket[r], look[r], known[r], timer[r], without[r], Sockets!Row)
  BY SocketFacts DEF KeptOn
<1>3. /\ s \in SocketRow
      /\ \/ s.pc = "none" /\ s.age = 0
         \/ /\ s.pc = "joined" /\ socket[r].pc # "none" /\ socket[r].version = value
            /\ s.version = socket[r].version /\ s.age = socket[r].age
  BY <1>2, NoRows DEF Sockets!Fits, SocketRow
<1> HIDE DEF s
<1>4. Sockets!NoLook \in LookRow /\ Sockets!NoLook.by = "none"
  BY NoRows
<1>5. ASSUME s.pc = "none", s.age = 0
      PROVE  Kept(s, Sockets!NoLook, c, timer[r], without[r], Sockets!Row)
  BY <1>2, <1>5 DEF Kept
<1>6. ASSUME s.pc # "none", socket[r].pc # "none", socket[r].version = value,
             s.version = socket[r].version, s.age = socket[r].age
      PROVE  Kept(s, Sockets!NoLook, c, timer[r], without[r], Sockets!Row)
  <2>1. /\ c.value = value /\ c.left > 0 => without[r] + c.left <= CacheTtl
        /\ without[r] + timer[r] <= Every + CacheTtl
    <3>1. ASSUME c = known[r], known[r].left > 0, value = known[r].value
          PROVE  /\ without[r] + c.left <= CacheTtl
                 /\ without[r] + timer[r] <= Every + CacheTtl
      <4>1. without[r] + known[r].left <= CacheTtl
        BY <1>2, <1>6, <3>1 DEF Kept
      <4>2. known[r].left \in Nat /\ timer[r] \in Nat /\ timer[r] <= Every
        BY <1>2, Times DEF KnownRow
      <4> QED
        BY <1>2, <3>1, <4>1, <4>2, Times
    <3>2. ASSUME look[r].by \in {"handshakeRead", "timerRead"}, value = look[r].value,
                 c = [value |-> value, left |-> CacheTtl]
          PROVE  /\ without[r] + c.left <= CacheTtl
                 /\ without[r] + timer[r] <= Every + CacheTtl
      <4>1. without[r] = 0 /\ c.left = CacheTtl
        BY <1>2, <1>6, <3>2 DEF Kept
      <4> QED
        BY <1>2, <4>1, Times
    <3> QED
      BY <3>1, <3>2
  <2>2. /\ s.version >= 0 /\ s.age + timer[r] <= MaxAge + Every
        /\ s.version = Sockets!Row => without[r] = 0
        /\ without[r] <= Every + CacheTtl
    BY <1>2, <1>6 DEF Kept
  <2> QED
    BY <1>2, <1>4, <1>6, <2>1, <2>2 DEF Kept
<1>7. Kept(s, Sockets!NoLook, c, timer[r], without[r], Sockets!Row)
  BY <1>3, <1>5, <1>6
<1>8. timer' = [timer EXCEPT ![r] = timer[r]] /\ without' = [without EXCEPT ![r] = without[r]]
  BY <1>1, SameSocket
<1> QED
  BY <1>1, <1>2, <1>3, <1>4, <1>7, <1>8, OneSocket

\* the membership row changes, and one process forgets its answer
LEMMA RowChanges ==
    ASSUME SocketsInv, NEW to \in [member : BOOLEAN, version : Nat], right' = to,
           UNCHANGED <<socket, look, timer>>,
           \/ UNCHANGED known
           \/ \E r \in Processes : known' = [known EXCEPT ![r] = Sockets!NoCache],
           \/ without' = Sockets!Since(to)
           \/ UNCHANGED without /\ ~to.member
    PROVE  SocketsInv'
<1>1. known' \in [Processes -> KnownRow]
      /\ \A r \in Processes : known'[r] = known[r] \/ known'[r].left = 0
  BY NoRows DEF SocketsInv, SocketsTyped
<1>2. /\ without' \in [Processes -> Nat]
      /\ \A r \in Processes : /\ without'[r] = 0 \/ without'[r] = without[r]
                              /\ to.member /\ socket[r].version = to.version => without'[r] = 0
  BY DEF SocketsInv, SocketsTyped, Sockets!Since
<1>3. SocketsTyped'
  BY <1>1, <1>2 DEF SocketsInv, SocketsTyped
<1>4. Sockets!Row' = IF to.member THEN to.version ELSE -1
  BY DEF Sockets!Row, Sockets!Gone
<1>5. ASSUME NEW r \in Processes PROVE KeptOn(r)'
  <2>1. /\ socket[r] \in SocketRow /\ look[r] \in LookRow /\ known[r] \in KnownRow
        /\ timer[r] \in 0..Every /\ without[r] \in Nat
        /\ Kept(socket[r], look[r], known[r], timer[r], without[r], Sockets!Row)
    BY SocketFacts DEF KeptOn
  <2>2. Kept(socket[r], look[r], known'[r], timer[r], without'[r], Sockets!Row')
    BY <1>1, <1>2, <1>4, <2>1, Times DEF Kept, SocketRow, KnownRow
  <2> QED
    BY <2>2 DEF KeptOn
<1> QED
  BY <1>3, <1>5 DEF SocketsInv

\* a disconnect closes one process's socket, or leaves it
LEMMA CloseSocket ==
    ASSUME SocketsInv, NEW r \in Processes, UNCHANGED <<right, look, known, timer, without>>,
           socket' = [socket EXCEPT ![r] = IF @.pc = "joined" THEN Sockets!NoSocket ELSE @]
    PROVE  SocketsInv'
<1> DEFINE s == IF socket[r].pc = "joined" THEN Sockets!NoSocket ELSE socket[r]
<1>1. /\ socket[r] \in SocketRow /\ look[r] \in LookRow /\ known[r] \in KnownRow
      /\ timer[r] \in 0..Every /\ without[r] \in Nat
      /\ Kept(socket[r], look[r], known[r], timer[r], without[r], Sockets!Row)
  BY SocketFacts DEF KeptOn
<1>2. s = socket[r] \/ s = Sockets!NoSocket
  OBVIOUS
<1>3. socket' = [socket EXCEPT ![r] = s] /\ UNCHANGED right
  OBVIOUS
<1> HIDE DEF s
<1>4. s \in SocketRow /\ (s = socket[r] \/ (s.pc = "none" /\ s.age = 0))
  BY <1>1, <1>2, NoRows
<1>5. Kept(s, look[r], known[r], timer[r], without[r], Sockets!Row)
  BY <1>1, <1>4 DEF Kept
<1>6. /\ known' = [known EXCEPT ![r] = known[r]] /\ timer' = [timer EXCEPT ![r] = timer[r]]
      /\ without' = [without EXCEPT ![r] = without[r]]
      /\ look' = [look EXCEPT ![r] = look[r]]
  BY SameSocket
<1> QED
  BY <1>1, <1>3, <1>4, <1>5, <1>6, OneSocket

LEMMA CrashSocket == ASSUME SocketsInv, Sockets!Crash PROVE SocketsInv'
<1>1. /\ socket' = [socket EXCEPT ![ending] = Sockets!NoSocket]
      /\ known' = [known EXCEPT ![ending] = Sockets!NoCache]
      /\ look' = [look EXCEPT ![ending] = Sockets!NoLook]
      /\ timer' = [timer EXCEPT ![ending] = Every]
      /\ UNCHANGED right /\ UNCHANGED without /\ Every \in 0..Every
  BY Times DEF Sockets!Crash
<1>2. CASE ending \in Processes
  <2>1. without[ending] \in Nat /\ without' = [without EXCEPT ![ending] = without[ending]]
        /\ Kept(socket[ending], look[ending], known[ending], timer[ending], without[ending],
                Sockets!Row)
    BY <1>1, <1>2, SocketFacts, SameSocket DEF KeptOn
  <2>2. Kept(Sockets!NoSocket, Sockets!NoLook, Sockets!NoCache, Every, without[ending],
             Sockets!Row)
    BY <2>1, NoRows DEF Kept
  <2> QED
    BY <1>1, <1>2, <2>1, <2>2, NoRows, OneSocket
<1>3. CASE ending \notin Processes
  <2>1. UNCHANGED <<socket, known, look, timer>>
    BY <1>1, <1>3 DEF SocketsInv, SocketsTyped
  <2> QED
    BY <1>1, <2>1 DEF SocketsInv, SocketsTyped, KeptOn, Sockets!Row
<1> QED
  BY <1>2, <1>3

LEMMA TickSocket == ASSUME SocketsInv, Sockets!Tick PROVE SocketsInv'
<1> DEFINE s(r) == [socket[r] EXCEPT !.age = IF socket[r].pc = "none" THEN 0 ELSE @ + 1]
           c(r) == [known[r] EXCEPT !.left = IF @ > 0 THEN @ - 1 ELSE 0]
           w(r) == IF socket[r].pc = "joined" /\ socket[r].version # Sockets!Row
                   THEN without[r] + 1 ELSE 0
<1>1. /\ socket' = [r \in Processes |-> s(r)] /\ known' = [r \in Processes |-> c(r)]
      /\ timer' = [r \in Processes |-> timer[r] - 1] /\ without' = [r \in Processes |-> w(r)]
      /\ UNCHANGED right /\ UNCHANGED look
      /\ \A r \in Processes : look[r] = Sockets!NoLook /\ timer[r] > 0
  BY DEF Sockets!Tick
<1>2. ASSUME NEW r \in Processes
      PROVE  /\ s(r) \in SocketRow /\ c(r) \in KnownRow /\ timer[r] - 1 \in 0..Every
             /\ w(r) \in Nat
             /\ Kept(s(r), look[r], c(r), timer[r] - 1, w(r), Sockets!Row)
  <2>1. /\ socket[r] \in SocketRow /\ look[r] \in LookRow /\ known[r] \in KnownRow
        /\ timer[r] \in 0..Every /\ without[r] \in Nat /\ timer[r] > 0 /\ look[r].by = "none"
        /\ Kept(socket[r], look[r], known[r], timer[r], without[r], Sockets!Row)
    BY <1>1, SocketFacts, NoRows DEF KeptOn
  <2>2. /\ s(r) \in SocketRow /\ s(r).pc = socket[r].pc /\ s(r).version = socket[r].version
        /\ s(r).age = IF socket[r].pc = "none" THEN 0 ELSE socket[r].age + 1
    BY <2>1 DEF SocketRow
  <2>3. /\ c(r) \in KnownRow /\ c(r).value = known[r].value
        /\ c(r).left = IF known[r].left > 0 THEN known[r].left - 1 ELSE 0
    BY <2>1, Times DEF KnownRow
  <2>4. w(r) \in Nat /\ timer[r] - 1 \in 0..Every
    BY <2>1, Times
  <2>5. without[r] + timer[r] <= Every + CacheTtl \/ socket[r].pc = "none"
    BY <2>1 DEF Kept
  <2>6. w(r) <= without[r] + 1 /\ (socket[r].pc = "none" => w(r) = 0)
        /\ (socket[r].version = Sockets!Row => w(r) = 0)
    BY <2>1
  <2> HIDE DEF s, c, w
  <2>7. Kept(s(r), look[r], c(r), timer[r] - 1, w(r), Sockets!Row)
    BY <2>1, <2>2, <2>3, <2>4, <2>5, <2>6, Times DEF Kept, SocketRow, KnownRow
  <2> QED
    BY <2>2, <2>3, <2>4, <2>7
<1> HIDE DEF s, c, w
<1>3. Sockets!Row' = Sockets!Row
  BY <1>1 DEF Sockets!Row
<1> QED
  BY <1>1, <1>2, <1>3 DEF SocketsInv, SocketsTyped, KeptOn

LEMMA SocketsStep == SocketsInv /\ [Next]_vars => SocketsInv'
<1> SUFFICES ASSUME SocketsInv, [Sockets!Next]_(Sockets!vars) PROVE SocketsInv'
  BY SocketsAlone
<1>1. CASE UNCHANGED Sockets!vars
  BY <1>1 DEF Sockets!vars, SocketsInv, SocketsTyped, KeptOn, Sockets!Row
<1>2. CASE Sockets!Disconnect
  <2>1. CASE ending \in Processes
    BY <1>2, <2>1, CloseSocket DEF Sockets!Disconnect
  <2>2. CASE ending \notin Processes
    <3>1. UNCHANGED <<right, socket, look, known, timer, without>>
      BY <1>2, <2>2 DEF Sockets!Disconnect, SocketsInv, SocketsTyped
    <3> QED
      BY <3>1 DEF SocketsInv, SocketsTyped, KeptOn, Sockets!Row
  <2> QED
    BY <2>1, <2>2
<1>3. CASE Sockets!Rejoin
  <2>1. [member |-> TRUE, version |-> 0] \in [member : BOOLEAN, version : Nat]
    OBVIOUS
  <2> QED
    BY <1>3, <2>1, RowChanges DEF Sockets!Rejoin
<1>4. CASE Sockets!ByHand
  <2>1. /\ right' \in [member : BOOLEAN, version : Nat] /\ ~right'.member
    BY <1>4 DEF Sockets!ByHand, SocketsInv, SocketsTyped
  <2> QED
    BY <1>4, <2>1, RowChanges DEF Sockets!ByHand
<1>5. ASSUME NEW r \in Processes, Sockets!AnsweredFromCache(r) PROVE SocketsInv'
  <2>1. known[r] \in KnownRow /\ known[r].value \in Int
        /\ known' = [known EXCEPT ![r] = known[r]]
    BY <1>5, SocketFacts, SameSocket DEF KnownRow, Sockets!AnsweredFromCache
  <2> QED
    BY <1>5, <2>1, DecideSocket DEF Sockets!AnsweredFromCache
<1>6. ASSUME NEW r \in Processes, Sockets!Answered(r) PROVE SocketsInv'
  <2>1. look[r].value \in Int
    BY SocketFacts DEF LookRow
  <2>2. [value |-> look[r].value, left |-> CacheTtl] \in KnownRow
    BY <2>1, Times DEF KnownRow
  <2> QED
    BY <1>6, <2>1, <2>2, DecideSocket DEF Sockets!Answered
<1>7. ASSUME NEW r \in Processes, Sockets!Delivered(r) PROVE SocketsInv'
  BY <1>7, CloseSocket DEF Sockets!Delivered
<1>8. ASSUME NEW r \in Processes, NEW to \in [member : BOOLEAN, version : Nat],
             Sockets!Changes(r, to)
      PROVE  SocketsInv'
  BY <1>8, RowChanges DEF Sockets!Changes
<1>9. ASSUME NEW r \in Processes, Sockets!ChangeRole(r) \/ Sockets!Remove(r) PROVE SocketsInv'
  <2>1. right \in [member : BOOLEAN, version : Nat]
    BY DEF SocketsInv, SocketsTyped
  <2>2. /\ [right EXCEPT !.member = FALSE] \in [member : BOOLEAN, version : Nat]
        /\ \A n \in Nat : [right EXCEPT !.version = n] \in [member : BOOLEAN, version : Nat]
    BY <2>1
  <2>3. right.version + 1 \in Nat
    BY <2>1
  <2> QED
    BY <1>8, <1>9, <2>2, <2>3 DEF Sockets!ChangeRole, Sockets!Remove
<1> QED
  BY <1>1, <1>2, <1>3, <1>4, <1>5, <1>6, <1>7, <1>9, CrashSocket, TickSocket, ConnectSocket,
     RevalidateSocket, ReadSocket DEF Sockets!Next

\* No socket goes on receiving a workspace's events for longer than one revalidation and one
\* cached answer after its right ended, and none outlives its token by more than one
\* revalidation, whatever the numbers and whichever messages are lost (realtime.gateway.ts).
THEOREM SocketsEnd == Spec => []NoSocketOutlivesItsRight
<1>1. SocketsInv => NoSocketOutlivesItsRight
  <2> SUFFICES ASSUME SocketsInv, NEW r \in Processes
               PROVE  without[r] <= Every + CacheTtl /\ socket[r].age <= MaxAge + Every
    BY DEF NoSocketOutlivesItsRight, Sockets!NoSocketOutlivesItsRight
  <2>1. /\ socket[r] \in SocketRow /\ timer[r] \in 0..Every
        /\ Kept(socket[r], look[r], known[r], timer[r], without[r], Sockets!Row)
    BY SocketFacts DEF KeptOn
  <2> QED
    BY <2>1, Times DEF Kept, SocketRow
<1> QED
  BY <1>1, SocketsInit, SocketsStep, PTL DEF Spec

-----------------------------------------------------------------------------
(***************************************************************************)
(* Products: a row remembers when it was last posted about, through every  *)
(* import, and a removed one has nothing to remember.                      *)
(***************************************************************************)
RowKeys == {"id", "text", "first", "last"}
ProductsInv ==
    /\ day \in Nat
    /\ DOMAIN posted = ShopPages /\ DOMAIN product = ShopPages /\ DOMAIN maker = Makers
    /\ \A p \in ShopPages : /\ DOMAIN product[p] = RowKeys
                            /\ product[p].last \in Int /\ product[p].last = posted[p]

LEMMA ProductsAlone == [Next]_vars => [Products!Next]_(Products!vars)
BY DEF Next, Guards, Posts, Pages, vars, pageVars, productVars, Products!vars

LEMMA ProductsInit == Init => ProductsInv
BY DEF Init, Products!Init, ProductsInv, RowKeys, Products!NoRow, Products!Never

LEMMA UpsertedRow ==
    ASSUME ProductsInv, NEW p \in ShopPages
    PROVE  /\ DOMAIN Products!Upserted(p) = RowKeys
           /\ Products!Upserted(p).last = product[p].last
BY DEF ProductsInv, RowKeys, Products!Upserted, Products!NoRow, Products!Never

LEMMA ProductsStep == ProductsInv /\ [Next]_vars => ProductsInv'
<1> SUFFICES ASSUME ProductsInv, [Products!Next]_(Products!vars) PROVE ProductsInv'
  BY ProductsAlone
<1>1. CASE UNCHANGED Products!vars
  BY <1>1 DEF Products!vars, ProductsInv
<1>2. CASE Products!Store
  <2>1. \A p \in ShopPages : product'[p] = Products!Upserted(p)
    BY <1>2 DEF Products!Store
  <2>2. DOMAIN product' = ShopPages /\ UNCHANGED <<day, posted, maker>>
    BY <1>2 DEF Products!Store
  <2> QED
    BY <2>1, <2>2, UpsertedRow DEF ProductsInv
<1>3. ASSUME NEW some \in SUBSET ShopPages, Products!Remove(some) PROVE ProductsInv'
  BY <1>3 DEF Products!Remove, ProductsInv, RowKeys, Products!NoRow, Products!Never
<1>4. ASSUME NEW m \in Makers, Products!Book(m) PROVE ProductsInv'
  <2>1. CASE product[maker[m].page].id = maker[m].id
    <3>1. /\ product' = [product EXCEPT ![maker[m].page].last = day]
          /\ posted' = [posted EXCEPT ![maker[m].page] = day]
          /\ day' = day /\ DOMAIN maker' = DOMAIN maker
      BY <1>4, <2>1 DEF Products!Book
    <3> QED
      BY <3>1 DEF ProductsInv, RowKeys
  <2>2. CASE product[maker[m].page].id # maker[m].id
    <3>1. UNCHANGED <<product, posted, day>> /\ DOMAIN maker' = DOMAIN maker
      BY <1>4, <2>2 DEF Products!Book
    <3> QED
      BY <3>1 DEF ProductsInv
  <2> QED
    BY <2>1, <2>2
<1>5. CASE Products!Tick
  BY <1>5 DEF Products!Tick, ProductsInv
<1>6. ASSUME \/ Products!Allow \/ Products!Withdraw \/ Products!ImportNow \/ Products!Crawl
             \/ Products!Acknowledge \/ Products!ImportRedelivered
             \/ \E p \in ShopPages, x \in ShopTexts : Products!ShopChanges(p, x)
      PROVE  ProductsInv'
  BY <1>6 DEF Products!Allow, Products!Withdraw, Products!ImportNow, Products!Crawl,
     Products!Acknowledge, Products!ImportRedelivered, Products!ShopChanges, ProductsInv
<1>7. ASSUME NEW m \in Makers,
             \/ Products!Finish(m)
             \/ \E p \in ShopPages : Products!Pick(m, p) \/ Products!Redelivered(m, p)
      PROVE  ProductsInv'
  BY <1>7 DEF Products!Finish, Products!Pick, Products!Redelivered, ProductsInv
<1> QED
  BY <1>1, <1>2, <1>3, <1>4, <1>5, <1>6, <1>7 DEF Products!Next

\* who takes up a product picked it, and found it due
LEMMA TakesUp ==
    ASSUME ProductsInv, Products!Next, NEW m \in Makers,
           maker[m] = Products!Idle, maker'[m] # Products!Idle
    PROVE  \E p \in ShopPages : maker'[m].page = p /\ Products!Due(p)
<1>1. \E n \in Makers : \/ Products!Book(n) \/ Products!Finish(n)
                        \/ \E p \in ShopPages : Products!Pick(n, p) \/ Products!Redelivered(n, p)
  BY DEF Products!Next, Products!Allow, Products!Withdraw, Products!ImportNow, Products!Crawl,
     Products!Store, Products!Acknowledge, Products!ImportRedelivered, Products!Tick,
     Products!ShopChanges, Products!Remove
<1>2. PICK n \in Makers : \/ Products!Book(n) \/ Products!Finish(n)
                          \/ \E p \in ShopPages : Products!Pick(n, p) \/ Products!Redelivered(n, p)
  BY <1>1
<1>3. n = m
  BY <1>2 DEF Products!Book, Products!Finish, Products!Pick, Products!Redelivered, ProductsInv
<1>4. ~Products!Book(m) /\ ~Products!Finish(m) /\ \A p \in ShopPages : ~Products!Redelivered(m, p)
  BY DEF Products!Book, Products!Finish, Products!Redelivered, Products!Idle
<1>5. PICK p \in ShopPages : Products!Pick(m, p)
  BY <1>2, <1>3, <1>4
<1> QED
  BY <1>5 DEF Products!Pick, Products!Stored, ProductsInv

LEMMA NotRepeated ==
    ProductsInv /\ [Next]_vars =>
        [\A m \in Makers :
            LET p == maker'[m].page
            IN  maker[m] = Products!Idle /\ maker'[m] # Products!Idle =>
                    posted[p] = Products!Never \/ posted[p] + Repost < day]_(Products!vars)
<1> SUFFICES ASSUME ProductsInv, Products!Next, NEW m \in Makers,
                    maker[m] = Products!Idle, maker'[m] # Products!Idle
             PROVE  \/ posted[maker'[m].page] = Products!Never
                    \/ posted[maker'[m].page] + Repost < day
  BY ProductsAlone
<1>1. PICK p \in ShopPages : maker'[m].page = p /\ Products!Due(p)
  BY TakesUp
<1>2. posted[p] \in Int /\ posted[p] = product[p].last /\ day \in Nat /\ Repost \in Nat
  BY RepostAssumption DEF ProductsInv
<1> QED
  BY <1>1, <1>2 DEF Products!Due

\* Between two posts about a product lies REPOST_AFTER_DAYS, whatever the shop publishes again and
\* whichever worker dies, unless it was removed or two tasks picked it together
\* (product_posts.py pick_product, products.py upsert).
THEOREM ProductsRest == Spec => NotRepeatedTooSoon
BY ProductsInit, ProductsStep, NotRepeated, PTL
   DEF Spec, NotRepeatedTooSoon, Products!NotRepeatedTooSoon

-----------------------------------------------------------------------------
(***************************************************************************)
(* Site audits: a check that is about to write holds pages it has seen     *)
(* done, by numbers that stay the same rows' however the list grows.       *)
(***************************************************************************)
\* a list, of whatever it holds
IsList(s) == s \in Seq({s[i] : i \in DOMAIN s})

LEMMA ListOf == ASSUME NEW S, NEW s \in Seq(S) PROVE IsList(s)
BY DEF IsList

LEMMA ListShape ==
    ASSUME NEW s, IsList(s)
    PROVE  /\ Len(s) \in Nat /\ DOMAIN s = 1 .. Len(s)
           /\ s = [i \in DOMAIN s |-> s[i]]
BY DEF IsList

\* items are replaced, none comes or goes
LEMMA ListReplaced ==
    ASSUME NEW s, IsList(s), NEW t, t = [i \in DOMAIN s |-> t[i]]
    PROVE  IsList(t)
<1>1. Len(s) \in Nat /\ DOMAIN s = 1 .. Len(s) /\ DOMAIN t = DOMAIN s
  BY ListShape
<1> QED
  BY <1>1 DEF IsList

\* r is the list s with items that come from X after it
Extends(r, s, X) ==
    /\ IsList(r) /\ DOMAIN s \subseteq DOMAIN r
    /\ \A i \in DOMAIN s : r[i] = s[i]
    /\ \A i \in DOMAIN r : i \in DOMAIN s \/ r[i] \in X

LEMMA ListJoined ==
    ASSUME NEW s, NEW t, NEW X, IsList(s), IsList(t), \A j \in DOMAIN t : t[j] \in X
    PROVE  Extends(s \o t, s, X)
<1> DEFINE R == {s[i] : i \in DOMAIN s} \cup {t[i] : i \in DOMAIN t}
<1>1. s \in Seq(R) /\ t \in Seq(R)
  BY DEF IsList
<1> HIDE DEF R
<1>2. /\ s \o t \in Seq(R) /\ Len(s \o t) = Len(s) + Len(t)
      /\ \A i \in 1 .. Len(s) + Len(t) :
            (s \o t)[i] = IF i <= Len(s) THEN s[i] ELSE t[i - Len(s)]
  BY <1>1, ConcatProperties
<1>3. Len(s) \in Nat /\ Len(t) \in Nat /\ DOMAIN s = 1 .. Len(s) /\ DOMAIN t = 1 .. Len(t)
  BY ListShape
<1>4. DOMAIN (s \o t) = 1 .. Len(s) + Len(t)
  BY <1>2
<1>5. ASSUME NEW i \in DOMAIN (s \o t), i \notin DOMAIN s
      PROVE  \E j \in DOMAIN t : (s \o t)[i] = t[j]
  <2>1. i - Len(s) \in DOMAIN t /\ (s \o t)[i] = t[i - Len(s)]
    BY <1>2, <1>3, <1>4, <1>5
  <2> QED
    BY <2>1
<1>6. IsList(s \o t)
  BY <1>2, ListOf
<1>7. DOMAIN s \subseteq DOMAIN (s \o t)
  BY <1>3, <1>4
<1>8. \A i \in DOMAIN s : (s \o t)[i] = s[i]
  BY <1>2, <1>3
<1>9. \A i \in DOMAIN (s \o t) : i \in DOMAIN s \/ (s \o t)[i] \in X
  BY <1>5
<1> QED
  BY <1>6, <1>7, <1>8, <1>9 DEF Extends

LEMMA OneMore ==
    ASSUME NEW s, NEW x, IsList(s)
    PROVE  Extends(Append(s, x), s, {x})
<1> DEFINE R == {s[i] : i \in DOMAIN s} \cup {x}
<1>1. s \in Seq(R) /\ x \in R
  BY DEF IsList
<1> HIDE DEF R
<1>2. /\ Append(s, x) \in Seq(R) /\ Len(Append(s, x)) = Len(s) + 1
      /\ \A i \in 1 .. Len(s) : Append(s, x)[i] = s[i]
      /\ Append(s, x)[Len(s) + 1] = x
  BY <1>1, AppendProperties
<1>3. Len(s) \in Nat /\ DOMAIN s = 1 .. Len(s)
  BY ListShape
<1>4. DOMAIN Append(s, x) = 1 .. Len(s) + 1
  BY <1>2
<1>5. IsList(Append(s, x))
  BY <1>2, ListOf
<1>6. DOMAIN s \subseteq DOMAIN Append(s, x)
  BY <1>3, <1>4
<1>7. \A i \in DOMAIN Append(s, x) : i \notin DOMAIN s => i = Len(s) + 1
  BY <1>3, <1>4
<1>8. \A i \in DOMAIN s : Append(s, x)[i] = s[i]
  BY <1>2, <1>3
<1> QED
  BY <1>2, <1>5, <1>6, <1>7, <1>8 DEF Extends

\* what a check c knows of the rows it read
Knows(c) ==
    /\ c.rows \subseteq DOMAIN fix
    /\ c.pc = "write" =>
          \A i \in c.rows : fix[i].kind = "page" /\ i \notin c.still \cup c.lost => i \in seen
    /\ c.pc = "submit" => c.done \subseteq seen

FixesInv ==
    /\ IsList(fix) /\ \A i \in DOMAIN fix : DOMAIN fix[i] = {"audit", "kind", "status"}
    /\ IsList(check)
    /\ \A c \in DOMAIN check : DOMAIN check[c] = {"of", "pc", "rows", "still", "lost", "done"}
    /\ \A i \in DOMAIN fix : fix[i].status = "VERIFIED" => i \in seen
    /\ notified \subseteq seen
    /\ \A c \in DOMAIN check : Knows(check[c])

LEMMA FixesAlone == [Next]_vars => [Fixes!Next]_(Fixes!vars)
BY DEF Next, Guards, Posts, Pages, vars, postVars, seoVars, Fixes!vars

LEMMA FixesInit == Init => FixesInv
BY EmptySeq DEF Init, Fixes!Init, FixesInv, IsList, Knows

\* a step that leaves the rows, or grows them, and checks alone
LEMMA RowsGrow ==
    ASSUME FixesInv, UNCHANGED check, seen \subseteq seen', notified' \subseteq seen',
           IsList(fix'), DOMAIN fix \subseteq DOMAIN fix',
           \A i \in DOMAIN fix' : DOMAIN fix'[i] = {"audit", "kind", "status"},
           \A i \in DOMAIN fix : fix'[i].kind = fix[i].kind,
           \A i \in DOMAIN fix' : fix'[i].status = "VERIFIED" =>
               i \in DOMAIN fix /\ fix[i].status = "VERIFIED"
    PROVE  FixesInv'
<1>1. ASSUME NEW c \in DOMAIN check PROVE Knows(check[c])'
  BY DEF FixesInv, Knows
<1> QED
  BY <1>1 DEF FixesInv

LEMMA SameRows ==
    ASSUME FixesInv, UNCHANGED <<fix, check, seen, notified>>
    PROVE  FixesInv'
BY DEF FixesInv, Knows

LEMMA FoundRows ==
    ASSUME NEW a
    PROVE  /\ IsList(Fixes!Found(a))
           /\ \A i \in DOMAIN Fixes!Found(a) :
                 /\ DOMAIN Fixes!Found(a)[i] = {"audit", "kind", "status"}
                 /\ Fixes!Found(a)[i].status = "PROPOSED"
<1> DEFINE Row(k) == [audit |-> a, kind |-> k, status |-> "PROPOSED"]
           New == {Row("page"), Row("file"), Row("site")}
           one == IF "page" \in site THEN Append(<<>>, Row("page")) ELSE <<>>
           two == IF "file" \in site THEN Append(one, Row("file")) ELSE one
           three == IF "site" \in site THEN Append(two, Row("site")) ELSE two
<1>1. Fixes!Found(a) = three
  BY DEF Fixes!Found
<1>2. one \in Seq(New)
  BY EmptySeq, AppendProperties
<1> HIDE DEF one
<1>3. two \in Seq(New)
  BY <1>2, AppendProperties
<1> HIDE DEF two
<1>4. three \in Seq(New)
  BY <1>3, AppendProperties
<1> HIDE DEF three
<1>5. \A i \in DOMAIN three : three[i] \in New
  BY <1>4
<1>6. \A r \in New : DOMAIN r = {"audit", "kind", "status"} /\ r.status = "PROPOSED"
  OBVIOUS
<1> HIDE DEF New
<1> QED
  BY <1>1, <1>4, <1>5, <1>6, ListOf

LEMMA EndStep ==
    ASSUME FixesInv, NEW a \in DOMAIN audit, Fixes!End(a)
    PROVE  FixesInv'
<1>1. CASE fix' = fix
  BY <1>1, SameRows DEF Fixes!End
<1>2. CASE fix' = fix \o Fixes!Found(a)
  <2> DEFINE new == Fixes!Found(a)
  <2>1. IsList(new) /\ \A i \in DOMAIN new : /\ DOMAIN new[i] = {"audit", "kind", "status"}
                                            /\ new[i].status = "PROPOSED"
    BY FoundRows
  <2>2. fix' = fix \o new
    BY <1>2
  <2> HIDE DEF new
  <2>3. /\ IsList(fix') /\ DOMAIN fix \subseteq DOMAIN fix'
        /\ \A i \in DOMAIN fix : fix'[i] = fix[i]
        /\ \A i \in DOMAIN fix' : i \in DOMAIN fix \/ \E j \in DOMAIN new : fix'[i] = new[j]
    <3>1. IsList(fix) /\ IsList(new)
      BY <2>1 DEF FixesInv
    <3>2. Extends(fix \o new, fix, {new[j] : j \in DOMAIN new})
      BY <3>1, ListJoined
    <3> QED
      BY <2>2, <3>1, <3>2 DEF Extends
  <2>4. \A i \in DOMAIN fix' : DOMAIN fix'[i] = {"audit", "kind", "status"}
    BY <2>1, <2>3 DEF FixesInv
  <2>5. \A i \in DOMAIN fix' : fix'[i].status = "VERIFIED" =>
            i \in DOMAIN fix /\ fix[i].status = "VERIFIED"
    BY <2>1, <2>3
  <2>6. UNCHANGED <<check, seen, notified>> /\ notified \subseteq seen
    BY DEF Fixes!End, FixesInv
  <2> QED
    BY <2>3, <2>4, <2>5, <2>6, RowsGrow
<1> QED
  BY <1>1, <1>2 DEF Fixes!End

\* the page writes a status by id
LEMMA MarkSteps ==
    ASSUME FixesInv,
           \/ Fixes!MarkAll
           \/ \E i \in DOMAIN fix, s \in {"PROPOSED", "APPLIED", "DISMISSED"} : Fixes!Mark(i, s)
    PROVE  FixesInv'
<1> DEFINE Marked ==
            /\ fix' = [i \in DOMAIN fix |-> fix'[i]]
            /\ \A i \in DOMAIN fix : \/ fix'[i] = fix[i]
                                     \/ \E s \in {"PROPOSED", "APPLIED", "DISMISSED"} :
                                           fix'[i] = [fix[i] EXCEPT !.status = s]
            /\ UNCHANGED <<check, seen, notified>>
<1>1. Marked
  <2>1. CASE Fixes!MarkAll
    BY <2>1 DEF Fixes!MarkAll, Fixes!Fixes
  <2>2. ASSUME NEW i \in DOMAIN fix, NEW s \in {"PROPOSED", "APPLIED", "DISMISSED"}, Fixes!Mark(i, s)
        PROVE  Marked
    <3>1. fix' = [fix EXCEPT ![i].status = s] /\ fix = [j \in DOMAIN fix |-> fix[j]]
      BY <2>2, ListShape DEF Fixes!Mark, FixesInv
    <3> QED
      BY <2>2, <3>1 DEF Fixes!Mark
  <2> QED
    BY <2>1, <2>2
<1>2. IsList(fix') /\ DOMAIN fix' = DOMAIN fix
  BY <1>1, ListReplaced DEF FixesInv
<1>3. ASSUME NEW i \in DOMAIN fix
      PROVE  /\ DOMAIN fix'[i] = {"audit", "kind", "status"} /\ fix'[i].kind = fix[i].kind
             /\ fix'[i].status = "VERIFIED" => fix[i].status = "VERIFIED"
  <2>1. DOMAIN fix[i] = {"audit", "kind", "status"}
    BY DEF FixesInv
  <2> QED
    BY <1>1, <2>1
<1> QED
  BY <1>1, <1>2, <1>3, RowsGrow DEF FixesInv

-----------------------------------------------------------------------------
\* a step of the checks: one of them moves, and rows it knows of stay
LEMMA CheckMoves ==
    ASSUME FixesInv, NEW c \in DOMAIN check, NEW to, Fixes!Step(c, to), UNCHANGED fix,
           DOMAIN to = {"of", "pc", "rows", "still", "lost", "done"},
           seen \subseteq seen', notified' \subseteq seen', Knows(to)'
    PROVE  FixesInv'
<1>1. check' = [check EXCEPT ![c] = to] /\ check = [d \in DOMAIN check |-> check[d]]
  BY ListShape DEF Fixes!Step, FixesInv
<1>2. IsList(check') /\ DOMAIN check' = DOMAIN check
  <2>1. IsList(check) /\ check' = [d \in DOMAIN check |-> check'[d]]
    BY <1>1 DEF FixesInv
  <2> QED
    BY <2>1, ListReplaced
<1>3. \A d \in DOMAIN check : check'[d] = IF d = c THEN to ELSE check[d]
  BY <1>1
<1>4. ASSUME NEW d \in DOMAIN check PROVE Knows(check[d])'
  BY <1>3 DEF FixesInv, Knows
<1> QED
  BY <1>2, <1>3, <1>4 DEF FixesInv

LEMMA VerifyStep ==
    ASSUME FixesInv, NEW a, Fixes!Verify(a)
    PROVE  FixesInv'
<1> DEFINE x == [of |-> a, pc |-> "read", rows |-> {}, still |-> {}, lost |-> {}, done |-> {}]
<1>1. check' = Append(check, x) /\ UNCHANGED <<fix, seen, notified>>
  BY DEF Fixes!Verify
<1>2. DOMAIN x = {"of", "pc", "rows", "still", "lost", "done"} /\ x.pc = "read" /\ x.rows = {}
  OBVIOUS
<1> HIDE DEF x
<1>3. IsList(check)
  BY DEF FixesInv
<1>4. /\ IsList(check')
      /\ \A d \in DOMAIN check' : check'[d] = x \/ (d \in DOMAIN check /\ check'[d] = check[d])
  <2>1. Extends(check', check, {x})
    BY <1>1, <1>3, OneMore
  <2> QED
    BY <2>1 DEF Extends
<1>5. ASSUME NEW d \in DOMAIN check' PROVE Knows(check[d])'
  BY <1>1, <1>2, <1>4 DEF FixesInv, Knows
<1> QED
  BY <1>1, <1>2, <1>4, <1>5 DEF FixesInv

LEMMA CheckSteps ==
    ASSUME FixesInv, NEW c \in DOMAIN check,
           \/ Fixes!CheckRead(c) \/ Fixes!CheckFetch(c) \/ Fixes!CheckSubmit(c) \/ Fixes!CheckDies(c)
    PROVE  FixesInv'
<1> DEFINE Shape == {"of", "pc", "rows", "still", "lost", "done"}
<1>1. DOMAIN check[c] = Shape /\ Knows(check[c]) /\ notified \subseteq seen
  BY DEF FixesInv
<1>2. CASE Fixes!CheckRead(c)
  <2> DEFINE to == [check[c] EXCEPT !.pc = "fetch", !.rows = Fixes!ToCheck(check[c].of)]
  <2>1. /\ DOMAIN to = Shape /\ to.pc = "fetch" /\ to.rows = Fixes!ToCheck(check[c].of)
    BY <1>1
  <2>2. Fixes!ToCheck(check[c].of) \subseteq DOMAIN fix
    BY DEF Fixes!ToCheck, Fixes!Fixes
  <2>3. Fixes!Step(c, to) /\ UNCHANGED <<fix, seen, notified>>
    BY <1>2 DEF Fixes!CheckRead
  <2> HIDE DEF to
  <2> QED
    BY <1>1, <2>1, <2>2, <2>3, CheckMoves DEF Knows
<1>3. CASE Fixes!CheckFetch(c)
  <2> DEFINE pages == {i \in check[c].rows : fix[i].kind = "page"}
             still(lost) == {i \in pages \ lost : "page" \in site}
             to(lost) == [check[c] EXCEPT !.pc = "write", !.lost = lost, !.still = still(lost)]
  <2>1. PICK lost : Fixes!Step(c, to(lost)) /\ seen' = seen \cup (pages \ (lost \cup still(lost)))
    BY <1>3 DEF Fixes!CheckFetch
  <2>2. UNCHANGED <<fix, notified>>
    BY <1>3 DEF Fixes!CheckFetch
  <2>3. /\ DOMAIN to(lost) = Shape /\ to(lost).pc = "write" /\ to(lost).rows = check[c].rows
        /\ to(lost).lost = lost /\ to(lost).still = still(lost)
    BY <1>1
  <2> HIDE DEF to, still
  <2>4. \A i \in check[c].rows : fix[i].kind = "page" /\ i \notin still(lost) \cup lost => i \in seen'
    BY <2>1
  <2>5. PICK x : x = to(lost)
    OBVIOUS
  <2>6. Knows(x)'
    BY <1>1, <2>2, <2>3, <2>4, <2>5 DEF Knows
  <2> QED
    BY <1>1, <2>1, <2>2, <2>3, <2>5, <2>6, CheckMoves
<1>4. CASE Fixes!CheckSubmit(c)
  <2> DEFINE to == [check[c] EXCEPT !.pc = "stored"]
  <2>1. DOMAIN to = Shape /\ to.pc = "stored" /\ to.rows = check[c].rows
    BY <1>1
  <2>2. /\ check[c].pc = "submit" /\ Fixes!Step(c, to) /\ UNCHANGED <<fix, seen>>
        /\ notified' \in {notified, notified \cup check[c].done}
    BY <1>4 DEF Fixes!CheckSubmit
  <2> HIDE DEF to
  <2> QED
    BY <1>1, <2>1, <2>2, CheckMoves DEF Knows
<1>5. CASE Fixes!CheckDies(c)
  <2> DEFINE to == [of |-> check[c].of, pc |-> "read", rows |-> {}, still |-> {}, lost |-> {}, done |-> {}]
  <2>1. DOMAIN to = Shape /\ to.pc = "read" /\ to.rows = {}
    OBVIOUS
  <2>2. Fixes!Step(c, to) /\ UNCHANGED <<fix, seen, notified>>
    BY <1>5 DEF Fixes!CheckDies
  <2> HIDE DEF to
  <2> QED
    BY <1>1, <2>1, <2>2, CheckMoves DEF Knows
<1> QED
  BY <1>2, <1>3, <1>4, <1>5

\* the verdicts are written whatever the rows say by now; a row that becomes
\* VERIFIED is a page this check saw done or a file it has just fetched
LEMMA CheckWriteStep ==
    ASSUME FixesInv, NEW c \in DOMAIN check, Fixes!CheckWrite(c)
    PROVE  FixesInv'
<1> DEFINE Shape == {"of", "pc", "rows", "still", "lost", "done"}
           to(ok) == [check[c] EXCEPT !.pc = IF ok = {} THEN "stored" ELSE "submit", !.done = ok]
<1>1. DOMAIN check[c] = Shape /\ Knows(check[c]) /\ notified \subseteq seen /\ check[c].pc = "write"
  BY DEF FixesInv, Fixes!CheckWrite
<1>2. PICK served :
        /\ fix' = [i \in DOMAIN fix |->
             IF i \notin check[c].rows \/ fix[i].kind = "site" THEN fix[i]
             ELSE [fix[i] EXCEPT !.status = IF i \in Fixes!Ok(c, served) THEN "VERIFIED" ELSE "FAILED"]]
        /\ seen' = seen \cup served
        /\ Fixes!Step(c, to(Fixes!Ok(c, served)))
  BY DEF Fixes!CheckWrite, Fixes!Fixes
<1> DEFINE ok == Fixes!Ok(c, served)
<1>3. ok \subseteq seen'
  BY <1>1, <1>2 DEF Fixes!Ok, Knows
<1>4. /\ DOMAIN to(ok) = Shape /\ to(ok).pc # "write" /\ to(ok).done = ok
      /\ to(ok).rows = check[c].rows
  BY <1>1
<1>5. check' = [check EXCEPT ![c] = to(ok)]
  BY <1>2 DEF Fixes!Step
<1>6. \A i \in DOMAIN fix : \/ fix'[i] = fix[i]
                            \/ fix'[i] = [fix[i] EXCEPT !.status = "FAILED"]
                            \/ fix'[i] = [fix[i] EXCEPT !.status = "VERIFIED"] /\ i \in ok
  BY <1>2
<1>7. UNCHANGED notified /\ seen \subseteq seen'
  BY <1>2 DEF Fixes!CheckWrite
<1> HIDE DEF to, ok
<1>8. IsList(fix') /\ DOMAIN fix' = DOMAIN fix
  BY <1>2, ListReplaced DEF FixesInv
<1>9. ASSUME NEW i \in DOMAIN fix
      PROVE  /\ DOMAIN fix'[i] = {"audit", "kind", "status"} /\ fix'[i].kind = fix[i].kind
             /\ fix'[i].status = "VERIFIED" => i \in seen'
  <2>1. DOMAIN fix[i] = {"audit", "kind", "status"} /\ (fix[i].status = "VERIFIED" => i \in seen)
    BY DEF FixesInv
  <2>2. \/ fix'[i] = fix[i]
        \/ fix'[i] = [fix[i] EXCEPT !.status = "FAILED"]
        \/ fix'[i] = [fix[i] EXCEPT !.status = "VERIFIED"] /\ i \in ok
    BY <1>6
  <2> QED
    BY <1>3, <1>7, <2>1, <2>2
<1>10. check = [d \in DOMAIN check |-> check[d]] /\ IsList(check)
  BY ListShape DEF FixesInv
<1>11. IsList(check') /\ DOMAIN check' = DOMAIN check
  BY <1>5, <1>10, ListReplaced
<1>12. \A d \in DOMAIN check : check'[d] = IF d = c THEN to(ok) ELSE check[d]
  BY <1>5, <1>10
<1>13. ASSUME NEW d \in DOMAIN check PROVE Knows(check[d])'
  <2>1. Knows(check[d])
    BY DEF FixesInv
  <2> QED
    BY <1>1, <1>3, <1>4, <1>7, <1>8, <1>9, <1>12, <2>1 DEF Knows
<1>14. \A d \in DOMAIN check : DOMAIN check'[d] = Shape
  BY <1>4, <1>12 DEF FixesInv
<1> QED
  BY <1>1, <1>7, <1>8, <1>9, <1>11, <1>13, <1>14 DEF FixesInv

LEMMA NotifyStep ==
    ASSUME FixesInv, NEW a, Fixes!NotifyEngines(a)
    PROVE  FixesInv'
<1>1. \E pages : /\ notified' = notified \cup pages
                 /\ \A i \in pages : i \in DOMAIN fix /\ fix[i].status = "VERIFIED"
  BY DEF Fixes!NotifyEngines, Fixes!Status, Fixes!Fixes
<1> QED
  BY <1>1, RowsGrow DEF Fixes!NotifyEngines, FixesInv

LEMMA FixesStep == FixesInv /\ [Next]_vars => FixesInv'
<1> SUFFICES ASSUME FixesInv, [Fixes!Next]_(Fixes!vars) PROVE FixesInv'
  BY FixesAlone
<1>1. CASE UNCHANGED Fixes!vars
  BY <1>1, SameRows DEF Fixes!vars
<1>2. CASE \/ \E h \in Hosts : Fixes!Request(h)
           \/ Fixes!CheckOwner \/ Fixes!Confirm \/ Fixes!CreateAudit \/ Fixes!Enqueue
           \/ Fixes!ClearRead \/ Fixes!ClearAudits \/ Fixes!ClearRuns \/ Fixes!ListFixes
           \/ \E k \in FixKinds : Fixes!SiteChanges(k)
  BY <1>2, SameRows DEF Fixes!Request, Fixes!CheckOwner, Fixes!Confirm, Fixes!CreateAudit,
     Fixes!Enqueue, Fixes!ClearRead, Fixes!ClearAudits, Fixes!ClearRuns, Fixes!ListFixes,
     Fixes!SiteChanges
<1>3. ASSUME NEW a \in DOMAIN audit,
             \/ Fixes!Start(a) \/ Fixes!End(a) \/ Fixes!Acknowledge(a) \/ Fixes!WorkerDies(a)
             \/ Fixes!Verify(a) \/ Fixes!NotifyEngines(a)
      PROVE  FixesInv'
  <2>1. CASE Fixes!Start(a) \/ Fixes!Acknowledge(a) \/ Fixes!WorkerDies(a)
    BY <2>1, SameRows DEF Fixes!Start, Fixes!Acknowledge, Fixes!WorkerDies
  <2> QED
    BY <1>3, <2>1, EndStep, VerifyStep, NotifyStep
<1>4. CASE \/ Fixes!MarkAll
           \/ \E i \in DOMAIN fix, s \in {"PROPOSED", "APPLIED", "DISMISSED"} : Fixes!Mark(i, s)
  BY <1>4, MarkSteps
<1>5. ASSUME NEW c \in DOMAIN check,
             \/ Fixes!CheckRead(c) \/ Fixes!CheckFetch(c) \/ Fixes!CheckWrite(c)
             \/ Fixes!CheckSubmit(c) \/ Fixes!CheckDies(c)
      PROVE  FixesInv'
  BY <1>5, CheckSteps, CheckWriteStep
<1> QED
  BY <1>1, <1>2, <1>3, <1>4, <1>5 DEF Fixes!Next, Fixes!Audits, Fixes!Fixes

\* Every fix that is marked as verified, and every page that was submitted to
\* the search engines, was found done by a crawl: updateFixStatus and
\* verify_fixes write by id, over whatever the row says by then.
THEOREM FixesSeen == Spec => []VerifiedWasSeen
<1>1. FixesInv => VerifiedWasSeen
  BY DEF FixesInv, VerifiedWasSeen, Fixes!VerifiedWasSeen, Fixes!Fixes
<1> QED
  BY <1>1, FixesInit, FixesStep, PTL DEF Spec

-----------------------------------------------------------------------------
(***************************************************************************)
(* The autopilot: what is on its way to a booking was planned under the    *)
(* plan as it is, or is marked as older.                                   *)
(***************************************************************************)
Planned ==
    /\ DOMAIN planner = {"pc", "mark", "slots", "late"}
    /\ planner.slots \subseteq Nat
    /\ planner.pc = "idle" => planner.slots = {}
    /\ ~planner.late => planner.slots \subseteq SlotsOf[plan.times]

Carries(m) ==
    /\ DOMAIN m = {"pc", "slot", "channels", "late"} /\ m.slot \in Nat
    /\ m.pc # "free" /\ ~m.late =>
          /\ m.slot \in SlotsOf[plan.times]
          /\ m.pc \in {"writing", "done"} => m.channels = plan.channels

\* a save that changes nothing, and that none has crossed, finds what it read
Saves(s) ==
    /\ DOMAIN s = {"pc", "input", "changed", "stale"}
    /\ s.pc = "write" =>
          /\ s.input.times \in Timings \cup {"same"}
          /\ ~s.changed /\ ~s.stale /\ s.input.times # "same" =>
                s.input.times = plan.times /\ s.input.channels = plan.channels

Clean == \A p \in slotPosts :
    p.at > now /\ ~p.late => p.at \in SlotsOf[plan.times] /\ p.channel \in plan.channels

SlotsInv ==
    /\ now \in Nat /\ \A p \in slotPosts : p.at \in Nat
    /\ DOMAIN plan = {"times", "channels", "active", "planned"} /\ plan.times \in Timings
    /\ Planned
    /\ DOMAIN message = Messages /\ \A t \in Messages : Carries(message[t])
    /\ DOMAIN saving = Editors /\ \A e \in Editors : Saves(saving[e])
    /\ crossed \/ (\E e \in Editors : saving[e].pc = "cancel") \/ Clean

LEMMA FillingAlone == [Next]_vars => [Filling!Next]_(Filling!vars)
BY DEF Next, Guards, Posts, Pages, vars, pageVars, slotVars, Filling!vars

LEMMA SlotsInit == Init => SlotsInv
BY DEF Init, Filling!Init, Filling!Idle, Filling!Free, Filling!Rest, SlotsInv, Planned, Carries,
   Saves, Clean

\* the plan and its planner
LEMMA PlannerSteps ==
    ASSUME SlotsInv,
           Filling!PlannerReads \/ Filling!PlannerSaves \/ Filling!PlannerDies
    PROVE  SlotsInv'
<1>1. CASE Filling!PlannerReads
  <2>1. Filling!Coming \subseteq SlotsOf[plan.times]
    BY DEF Filling!Coming, Filling!EarliestOf
  <2>2. Filling!Coming \subseteq Nat
    BY <2>1, SlotAssumption DEF SlotsInv
  <2>3. Planned'
    BY <1>1, <2>1, <2>2 DEF Filling!PlannerReads, Planned
  <2> QED
    BY <1>1, <2>3 DEF Filling!PlannerReads, SlotsInv, Carries, Saves, Clean
<1>2. CASE Filling!PlannerDies
  BY <1>2 DEF Filling!PlannerDies, Filling!Idle, SlotsInv, Planned, Carries, Saves, Clean
<1>3. CASE Filling!PlannerSaves
  <2>1. /\ DOMAIN plan' = DOMAIN plan /\ plan'.times = plan.times /\ plan'.channels = plan.channels
        /\ planner' = Filling!Idle
    BY <1>3 DEF Filling!PlannerSaves, SlotsInv
  <2>2. UNCHANGED <<now, message, slotPosts, saving, crossed>>
    BY <1>3 DEF Filling!PlannerSaves
  <2> QED
    BY <2>1, <2>2 DEF Filling!Idle, SlotsInv, Planned, Carries, Saves, Clean
<1> QED
  BY <1>1, <1>2, <1>3

\* a step that leaves the plan, its editors and the planner alone: one message moves
LEMMA OneMessage ==
    ASSUME SlotsInv, NEW t \in Messages, NEW m, message' = [message EXCEPT ![t] = m], Carries(m),
           UNCHANGED <<now, plan, saving, crossed>>, Planned', Clean => Clean',
           \A p \in slotPosts' : p.at \in Nat
    PROVE  SlotsInv'
<1>1. /\ DOMAIN message' = Messages /\ message'[t] = m
      /\ \A u \in Messages \ {t} : message'[u] = message[u]
  BY DEF SlotsInv
<1>2. ASSUME NEW u \in Messages PROVE Carries(message[u])'
  BY <1>1 DEF SlotsInv, Carries
<1>3. \A e \in Editors : Saves(saving[e])'
  BY DEF SlotsInv, Saves
<1> QED
  BY <1>1, <1>2, <1>3 DEF SlotsInv

LEMMA MessageSteps ==
    ASSUME SlotsInv, NEW t \in Messages,
           \/ Filling!PlannerQueues(t) \/ Filling!Begin(t) \/ Filling!GiveUp(t)
           \/ Filling!Acknowledge(t) \/ Filling!Redelivered(t)
    PROVE  SlotsInv'
<1>1. Carries(message[t]) /\ Carries(Filling!Free)
  BY DEF SlotsInv, Carries, Filling!Free
<1>2. CASE Filling!PlannerQueues(t)
  <2> DEFINE least == Filling!Min(planner.slots)
             m == [Filling!Free EXCEPT !.pc = "queued", !.slot = least, !.late = planner.late]
  <2>1. least \in planner.slots
    <3>1. planner.slots \in SUBSET Nat /\ planner.slots # {}
      BY <1>2 DEF Filling!PlannerQueues, SlotsInv, Planned
    <3>2. \E x \in planner.slots : \A y \in planner.slots : x <= y
      BY <3>1, LeastNat
    <3> QED
      BY <3>2 DEF Filling!Min
  <2>2. /\ message' = [message EXCEPT ![t] = m] /\ planner' = [planner EXCEPT !.slots = @ \ {least}]
        /\ UNCHANGED <<now, plan, slotPosts, saving, crossed>> /\ planner.slots # {}
    BY <1>2 DEF Filling!PlannerQueues
  <2>3. /\ DOMAIN m = {"pc", "slot", "channels", "late"} /\ m.pc = "queued" /\ m.slot = least
        /\ m.late = planner.late
    BY DEF Filling!Free
  <2> HIDE DEF least, m
  <2>4. Carries(m)
    BY <2>1, <2>3 DEF Carries, SlotsInv, Planned
  <2>5. Planned'
    BY <2>2 DEF SlotsInv, Planned
  <2>6. (Clean => Clean') /\ \A p \in slotPosts' : p.at \in Nat
    BY <2>2 DEF SlotsInv, Clean
  <2> QED
    BY <2>2, <2>4, <2>5, <2>6, OneMessage
<1>3. ASSUME NEW m, message' = [message EXCEPT ![t] = m], Carries(m),
             UNCHANGED <<now, plan, planner, slotPosts, saving, crossed>>
      PROVE  SlotsInv'
  <2>1. Planned' /\ (Clean => Clean') /\ \A p \in slotPosts' : p.at \in Nat
    BY <1>3 DEF SlotsInv, Planned, Clean
  <2> QED
    BY <1>3, <2>1, OneMessage
<1>4. CASE Filling!Begin(t)
  <2> DEFINE m == [message[t] EXCEPT !.pc = "writing", !.channels = plan.channels]
  <2>1. /\ message' = [message EXCEPT ![t] = m] \/ message' = [message EXCEPT ![t] = Filling!Free]
        /\ UNCHANGED <<now, plan, planner, slotPosts, saving, crossed>> /\ message[t].pc = "queued"
    BY <1>4 DEF Filling!Begin
  <2>2. Carries(m)
    BY <1>1, <2>1 DEF Carries
  <2> HIDE DEF m
  <2> QED
    BY <1>1, <1>3, <2>1, <2>2
<1>5. CASE Filling!GiveUp(t) \/ Filling!Acknowledge(t)
  <2>1. /\ message' = [message EXCEPT ![t] = Filling!Free]
        /\ UNCHANGED <<now, plan, planner, slotPosts, saving, crossed>>
    BY <1>5 DEF Filling!GiveUp, Filling!Acknowledge
  <2> QED
    BY <1>1, <1>3, <2>1
<1>6. CASE Filling!Redelivered(t)
  <2> DEFINE m == [message[t] EXCEPT !.pc = "queued", !.channels = {}]
  <2>1. /\ message' = [message EXCEPT ![t] = m]
        /\ UNCHANGED <<now, plan, planner, slotPosts, saving, crossed>> /\ message[t].pc # "free"
    BY <1>6 DEF Filling!Redelivered
  <2>2. Carries(m)
    BY <1>1, <2>1 DEF Carries
  <2> HIDE DEF m
  <2> QED
    BY <1>3, <2>1, <2>2
<1> QED
  BY <1>2, <1>4, <1>5, <1>6

LEMMA BookSlotStep ==
    ASSUME SlotsInv, NEW t \in Messages, Filling!Book(t)
    PROVE  SlotsInv'
<1> DEFINE m == [message[t] EXCEPT !.pc = "done"]
           new == [at : {message[t].slot}, channel : message[t].channels, late : {message[t].late}]
<1>1. /\ message' = [message EXCEPT ![t] = m] /\ slotPosts' = slotPosts \cup new
      /\ message[t].pc = "writing" /\ UNCHANGED <<now, plan, planner, saving, crossed>>
  BY DEF Filling!Book
<1>2. Carries(message[t])
  BY DEF SlotsInv
<1>3. Carries(m)
  BY <1>1, <1>2 DEF Carries
<1>4. \A p \in new : /\ p.at \in Nat
                     /\ ~p.late => p.at \in SlotsOf[plan.times] /\ p.channel \in plan.channels
  BY <1>1, <1>2 DEF Carries
<1> HIDE DEF m, new
<1>5. (Clean => Clean') /\ \A p \in slotPosts' : p.at \in Nat
  <2>1. \A p \in slotPosts' : p \in slotPosts \/ p \in new
    BY <1>1
  <2>2. \A p \in slotPosts' : p.at \in Nat
    BY <1>4, <2>1 DEF SlotsInv
  <2>3. UNCHANGED <<now, plan>>
    BY <1>1
  <2>4. ASSUME Clean, NEW p \in slotPosts', p.at > now, ~p.late
        PROVE  p.at \in SlotsOf[plan.times] /\ p.channel \in plan.channels
    BY <1>4, <2>1, <2>4 DEF Clean
  <2> QED
    BY <2>2, <2>3, <2>4 DEF Clean
<1>6. Planned'
  BY <1>1 DEF SlotsInv, Planned
<1> QED
  BY <1>1, <1>3, <1>5, <1>6, OneMessage

\* what is due leaves, and time passes
LEMMA TimePasses ==
    ASSUME SlotsInv, Filling!Dispatch \/ Filling!Tick
    PROVE  SlotsInv'
<1>1. /\ UNCHANGED <<plan, planner, message, saving, crossed>>
      /\ slotPosts' \subseteq slotPosts /\ now' \in {now, now + 1}
  BY DEF Filling!Dispatch, Filling!Tick
<1>2. /\ now' \in Nat /\ \A p \in slotPosts' : p.at \in Nat
      /\ \A p \in slotPosts' : p.at > now' => p.at > now
  BY <1>1 DEF SlotsInv
<1>3. Clean => Clean'
  BY <1>1, <1>2 DEF Clean
<1>4. Planned' /\ \A t \in Messages : Carries(message[t])'
  BY <1>1 DEF SlotsInv, Planned, Carries
<1>5. \A e \in Editors : Saves(saving[e])'
  BY <1>1 DEF SlotsInv, Saves
<1> QED
  BY <1>1, <1>2, <1>3, <1>4, <1>5 DEF SlotsInv

-----------------------------------------------------------------------------
\* the editors
LEMMA ReadPlanStep ==
    ASSUME SlotsInv, NEW e \in Editors, NEW input \in Filling!Inputs, Filling!ReadPlan(e, input)
    PROVE  SlotsInv'
<1> DEFINE s == [pc |-> "write", input |-> input, changed |-> Filling!TimingChanged(input, plan),
                 stale |-> FALSE]
<1>1. /\ saving' = [saving EXCEPT ![e] = s] /\ saving[e].pc = "idle"
      /\ UNCHANGED <<now, plan, planner, message, slotPosts, crossed>>
  BY DEF Filling!ReadPlan
<1>2. input.times \in Timings \cup {"same"}
  BY DEF Filling!Inputs
<1>3. /\ DOMAIN s = {"pc", "input", "changed", "stale"} /\ s.input = input
      /\ s.changed = Filling!TimingChanged(input, plan) /\ ~s.stale
  OBVIOUS
<1> HIDE DEF s
<1>4. Saves(s)
  BY <1>2, <1>3 DEF Saves, Filling!TimingChanged
<1>5. /\ DOMAIN saving' = Editors /\ saving'[e] = s
      /\ \A f \in Editors \ {e} : saving'[f] = saving[f]
  BY <1>1 DEF SlotsInv
<1>6. \A f \in Editors : Saves(saving[f])'
  BY <1>1, <1>4, <1>5 DEF SlotsInv, Saves
<1>7. (\E f \in Editors : saving[f].pc = "cancel") => \E f \in Editors : saving'[f].pc = "cancel"
  BY <1>1, <1>5
<1>8. Planned' /\ (Clean => Clean') /\ \A t \in Messages : Carries(message[t])'
  BY <1>1 DEF SlotsInv, Planned, Clean, Carries
<1> QED
  BY <1>1, <1>5, <1>6, <1>7, <1>8 DEF SlotsInv

LEMMA CancelStep ==
    ASSUME SlotsInv, NEW e \in Editors, Filling!CancelBooked(e)
    PROVE  SlotsInv'
<1>1. /\ saving' = [saving EXCEPT ![e] = Filling!Rest] /\ slotPosts' = {p \in slotPosts : p.at <= now}
      /\ UNCHANGED <<now, plan, planner, message, crossed>>
  BY DEF Filling!CancelBooked
<1>2. Saves(Filling!Rest)
  BY DEF Saves, Filling!Rest
<1>3. /\ DOMAIN saving' = Editors
      /\ \A f \in Editors : saving'[f] \in {saving[f], Filling!Rest}
  BY <1>1 DEF SlotsInv
<1>4. \A f \in Editors : Saves(saving[f])'
  BY <1>1, <1>2, <1>3 DEF SlotsInv, Saves
<1>5. \A p \in slotPosts' : p.at \in Nat /\ ~(p.at > now)
  BY <1>1 DEF SlotsInv
<1>6. Clean' /\ Planned' /\ \A t \in Messages : Carries(message[t])'
  BY <1>1, <1>5 DEF SlotsInv, Planned, Clean, Carries
<1> QED
  BY <1>1, <1>3, <1>4, <1>5, <1>6 DEF SlotsInv

\* A save that changes the plan marks what is under way and comes to cancel; one
\* that changes nothing either finds the plan it read or is crossed.
LEMMA WritePlanStep ==
    ASSUME SlotsInv, NEW e \in Editors, Filling!WritePlan(e)
    PROVE  SlotsInv'
<1> DEFINE taken == saving[e]
           whole == taken.input.times # "same"
           retimed == Filling!Timing(plan') # Filling!Timing(plan)
<1>1. /\ taken.pc = "write"
      /\ plan' = [times |-> IF whole THEN taken.input.times ELSE plan.times,
                  channels |-> IF whole THEN taken.input.channels ELSE plan.channels,
                  active |-> IF whole THEN plan.active ELSE taken.input.active,
                  planned |-> IF taken.changed THEN Filling!Never ELSE plan.planned]
      /\ crossed' = (~taken.changed /\ (crossed \/ (whole /\ taken.stale)))
      /\ UNCHANGED <<now, slotPosts>>
  BY DEF Filling!WritePlan
<1>2. saving' = [f \in Editors |->
               CASE f = e -> IF taken.changed THEN [taken EXCEPT !.pc = "cancel"] ELSE Filling!Rest
                 [] f # e -> [saving[f] EXCEPT !.stale = @ \/ (saving[f].pc = "write" /\ retimed)]]
  BY DEF Filling!WritePlan
<1>3. IF retimed
      THEN /\ planner' = [planner EXCEPT !.late = planner.pc # "idle"]
           /\ message' = [t \in Messages |-> [message[t] EXCEPT !.late = message[t].pc # "free"]]
      ELSE UNCHANGED <<planner, message>>
  BY DEF Filling!WritePlan
<1>4. Saves(taken) /\ \A f \in Editors : Saves(saving[f])
  BY DEF SlotsInv
<1>5. /\ DOMAIN plan' = {"times", "channels", "active", "planned"}
      /\ plan'.times = IF whole THEN taken.input.times ELSE plan.times
      /\ plan'.channels = IF whole THEN taken.input.channels ELSE plan.channels
  BY <1>1
<1>6. plan'.times \in Timings
  BY <1>1, <1>4, <1>5 DEF Saves, SlotsInv
<1>7. ~retimed => plan'.times = plan.times /\ plan'.channels = plan.channels
  BY DEF Filling!Timing
<1>8. retimed => whole /\ (taken.changed \/ taken.stale)
  BY <1>1, <1>4, <1>5 DEF Filling!Timing, Saves
<1> HIDE DEF retimed
<1>9. Planned'
  <2>1. CASE retimed
    BY <1>3, <2>1 DEF SlotsInv, Planned
  <2>2. CASE ~retimed
    BY <1>3, <1>7, <2>2 DEF SlotsInv, Planned
  <2> QED
    BY <2>1, <2>2
<1>10. DOMAIN message' = Messages /\ \A t \in Messages : Carries(message[t])'
  <2>1. CASE retimed
    <3>1. DOMAIN message' = Messages
      BY <1>3, <2>1
    <3>2. ASSUME NEW t \in Messages PROVE Carries(message[t])'
      <4>1. message'[t] = [message[t] EXCEPT !.late = message[t].pc # "free"] /\ Carries(message[t])
        BY <1>3, <2>1 DEF SlotsInv
      <4>2. /\ DOMAIN message'[t] = {"pc", "slot", "channels", "late"}
            /\ message'[t].slot = message[t].slot /\ message'[t].pc = message[t].pc
            /\ message'[t].late = (message[t].pc # "free")
        BY <4>1 DEF Carries
      <4> QED
        BY <4>1, <4>2 DEF Carries
    <3> QED
      BY <3>1, <3>2
  <2>2. CASE ~retimed
    BY <1>3, <1>7, <2>2 DEF SlotsInv, Carries
  <2> QED
    BY <2>1, <2>2
<1>11. DOMAIN saving' = Editors /\ \A f \in Editors : Saves(saving[f])'
  <2>1. DOMAIN saving' = Editors
    BY <1>2
  <2>2. ASSUME NEW f \in Editors, f # e PROVE Saves(saving[f])'
    <3>1. saving'[f] = [saving[f] EXCEPT !.stale = saving[f].stale \/ (saving[f].pc = "write" /\ retimed)]
      BY <1>2, <2>2
    <3>2. /\ DOMAIN saving'[f] = {"pc", "input", "changed", "stale"}
          /\ saving'[f].pc = saving[f].pc /\ saving'[f].input = saving[f].input
          /\ saving'[f].changed = saving[f].changed
          /\ saving'[f].stale = (saving[f].stale \/ (saving[f].pc = "write" /\ retimed))
      BY <1>4, <3>1 DEF Saves
    <3> QED
      BY <1>4, <1>7, <3>2 DEF Saves
  <2>3. Saves(saving[e])'
    <3>1. saving'[e] = IF taken.changed THEN [taken EXCEPT !.pc = "cancel"] ELSE Filling!Rest
      BY <1>2
    <3> QED
      BY <1>4, <3>1 DEF Saves, Filling!Rest
  <2> QED
    BY <2>1, <2>2, <2>3
<1>12. crossed' \/ (\E f \in Editors : saving'[f].pc = "cancel") \/ Clean'
  <2>1. CASE taken.changed
    <3>1. saving'[e] = [taken EXCEPT !.pc = "cancel"]
      BY <1>2, <2>1
    <3>2. saving'[e].pc = "cancel"
      BY <1>4, <3>1 DEF Saves
    <3> QED
      BY <3>2
  <2>2. CASE ~taken.changed
    <3>1. CASE crossed \/ (whole /\ taken.stale)
      BY <1>1, <2>2, <3>1
    <3>2. CASE ~(crossed \/ (whole /\ taken.stale))
      <4>1. plan'.times = plan.times /\ plan'.channels = plan.channels
        BY <1>7, <1>8, <2>2, <3>2
      <4>2. CASE Clean
        BY <1>1, <4>1, <4>2 DEF Clean
      <4>3. CASE \E f \in Editors : saving[f].pc = "cancel"
        <5>1. PICK f \in Editors : saving[f].pc = "cancel"
          BY <4>3
        <5>2. saving'[f] = [saving[f] EXCEPT !.stale = saving[f].stale \/ (saving[f].pc = "write" /\ retimed)]
          BY <1>1, <1>2, <5>1
        <5>3. saving'[f].pc = "cancel"
          BY <1>4, <5>1, <5>2 DEF Saves
        <5> QED
          BY <5>3
      <4> QED
        BY <3>2, <4>2, <4>3 DEF SlotsInv
    <3> QED
      BY <3>1, <3>2
  <2> QED
    BY <2>1, <2>2
<1> QED
  BY <1>1, <1>5, <1>6, <1>9, <1>10, <1>11, <1>12 DEF SlotsInv

LEMMA SlotsStep == SlotsInv /\ [Next]_vars => SlotsInv'
<1> SUFFICES ASSUME SlotsInv, [Filling!Next]_(Filling!vars) PROVE SlotsInv'
  BY FillingAlone
<1>1. CASE UNCHANGED Filling!vars
  BY <1>1 DEF Filling!vars, SlotsInv, Planned, Carries, Saves, Clean
<1>2. CASE Filling!PlannerReads \/ Filling!PlannerSaves \/ Filling!PlannerDies
  BY <1>2, PlannerSteps
<1>3. CASE Filling!Dispatch \/ Filling!Tick
  BY <1>3, TimePasses
<1>4. ASSUME NEW t \in Messages,
             \/ Filling!PlannerQueues(t) \/ Filling!Begin(t) \/ Filling!GiveUp(t)
             \/ Filling!Acknowledge(t) \/ Filling!Redelivered(t) \/ Filling!Book(t)
      PROVE  SlotsInv'
  BY <1>4, MessageSteps, BookSlotStep
<1>5. ASSUME NEW e \in Editors,
             \/ Filling!WritePlan(e) \/ Filling!CancelBooked(e)
             \/ \E input \in Filling!Inputs : Filling!ReadPlan(e, input)
      PROVE  SlotsInv'
  BY <1>5, WritePlanStep, CancelStep, ReadPlanStep
<1> QED
  BY <1>1, <1>2, <1>3, <1>4, <1>5 DEF Filling!Next

\* For any plan, cadences, number of editors and of messages in flight: between
\* edits, no booked post waits for a time or a channel its plan no longer has, but
\* one that was being planned or written while the edit was made.
THEOREM EditsReach == Spec => []EditReachesWhatIsBooked
<1>1. SlotsInv => EditReachesWhatIsBooked
  BY DEF SlotsInv, EditReachesWhatIsBooked, Filling!EditReachesWhatIsBooked, Clean
<1> QED
  BY <1>1, SlotsInit, SlotsStep, PTL DEF Spec


-----------------------------------------------------------------------------
(***************************************************************************)
(* Backoff: delays do not shrink as failures add up, so who is let through *)
(* by the larger of two counts has waited long enough for either.          *)
(***************************************************************************)

-----------------------------------------------------------------------------
\* the powers of two up to n: there is one such list, whence Doubled
Doubles(f, n) == f \in [0..n -> Nat] /\ f[0] = 1 /\ \A i \in 1..n : f[i] = 2 * f[i - 1]

LEMMA DoublesExist == \A n \in Nat : \E f : Doubles(f, n)
<1> DEFINE T == {n \in Nat : ~\E f : Doubles(f, n)}
<1> SUFFICES ASSUME T # {} PROVE FALSE
  OBVIOUS
<1>1. PICK m \in T : \A k \in T : m <= k
  BY LeastNat
<1>2. m # 0
  <2> DEFINE one == [i \in 0..0 |-> 1]
  <2>1. Doubles(one, 0)
    BY DEF Doubles
  <2> QED
    BY <1>1, <2>1
<1>3. m \in Nat /\ m - 1 \in Nat /\ m - 1 \notin T
  BY <1>1, <1>2
<1>4. PICK f : Doubles(f, m - 1)
  BY <1>3
<1> DEFINE g == [i \in 0..m |-> IF i = m THEN 2 * f[m - 1] ELSE f[i]]
<1>5. \A i \in 0..(m - 1) : f[i] \in Nat
  BY <1>4 DEF Doubles
<1>6. g \in [0..m -> Nat]
  BY <1>3, <1>5
<1>7. g[0] = 1
  BY <1>2, <1>3, <1>4 DEF Doubles
<1>8. ASSUME NEW i \in 1..m PROVE g[i] = 2 * g[i - 1]
  BY <1>3, <1>4 DEF Doubles
<1> HIDE DEF g
<1>9. Doubles(g, m)
  BY <1>6, <1>7, <1>8 DEF Doubles
<1> QED
  BY <1>1, <1>9

LEMMA DoublesAgree ==
    ASSUME NEW n \in Nat, NEW f, NEW g, Doubles(f, n), Doubles(g, n + 1)
    PROVE  f[n] = g[n]
<1> DEFINE T == {i \in Nat : i <= n /\ f[i] # g[i]}
<1> SUFFICES ASSUME T # {} PROVE FALSE
  OBVIOUS
<1>1. PICK m \in T : \A k \in T : m <= k
  BY LeastNat
<1>2. m # 0
  BY <1>1 DEF Doubles
<1>3. m - 1 \in Nat /\ m - 1 \notin T /\ m \in 1..n
  BY <1>1, <1>2
<1>4. f[m - 1] = g[m - 1]
  BY <1>3
<1>5. f[m] = 2 * f[m - 1] /\ g[m] = 2 * g[m - 1]
  BY <1>3 DEF Doubles
<1> QED
  BY <1>1, <1>4, <1>5

LEMMA DoubledStep ==
    /\ Backoff!Doubled[0] = 1
    /\ \A n \in Nat : Backoff!Doubled[n + 1] = 2 * Backoff!Doubled[n]
<1> DEFINE first(n) == CHOOSE f : Doubles(f, n)
           F == [n \in Nat |-> first(n)[n]]
           Rec(g) == g = [n \in Nat |-> IF n = 0 THEN 1 ELSE 2 * g[n - 1]]
<1>1. \A n \in Nat : Doubles(first(n), n)
  BY DoublesExist
<1> HIDE DEF first
<1>2. F[0] = 1
  BY <1>1 DEF Doubles
<1>3. ASSUME NEW n \in Nat, n # 0 PROVE F[n] = 2 * F[n - 1]
  <2>1. n - 1 \in Nat /\ Doubles(first(n - 1), n - 1) /\ Doubles(first(n), (n - 1) + 1)
    BY <1>1, <1>3
  <2>2. first(n - 1)[n - 1] = first(n)[n - 1]
    BY <2>1, DoublesAgree
  <2>3. first(n)[n] = 2 * first(n)[n - 1]
    BY <1>1, <1>3 DEF Doubles
  <2> QED
    BY <2>1, <2>2, <2>3
<1>4. Rec(F)
  BY <1>2, <1>3
<1> HIDE DEF F
<1>5. Backoff!Doubled = CHOOSE g : Rec(g)
  BY DEF Backoff!Doubled
<1>6. Rec(CHOOSE g : Rec(g))
  <2>1. \E g : Rec(g)
    BY <1>4
  <2> HIDE DEF Rec
  <2> QED
    BY <2>1
<1>7. Rec(Backoff!Doubled)
  BY <1>5, <1>6
<1> QED
  BY <1>7

LEMMA DoubledGrows ==
    \A n \in Nat : Backoff!Doubled[n] \in Nat /\ \A m \in 0..n : Backoff!Doubled[m] <= Backoff!Doubled[n]
<1> DEFINE D == Backoff!Doubled
           Holds(n) == D[n] \in Nat /\ \A m \in 0..n : D[m] \in Nat /\ D[m] <= D[n]
           T == {n \in Nat : ~Holds(n)}
<1>0. D[0] = 1 /\ \A n \in Nat : D[n + 1] = 2 * D[n]
  BY DoubledStep
<1> HIDE DEF D
<1>1. ASSUME T # {} PROVE FALSE
  <2>1. PICK n \in T : \A k \in T : n <= k
    BY <1>1, LeastNat
  <2>2. n # 0
    BY <1>0, <2>1
  <2>3. n - 1 \in Nat /\ Holds(n - 1) /\ D[n] = 2 * D[n - 1]
    <3>1. n - 1 \in Nat /\ n - 1 \notin T
      BY <2>1, <2>2
    <3>2. D[(n - 1) + 1] = 2 * D[n - 1] /\ (n - 1) + 1 = n
      BY <1>0, <3>1
    <3> QED
      BY <3>1, <3>2
  <2>4. D[n] \in Nat /\ D[n - 1] <= D[n]
    BY <2>3
  <2>5. ASSUME NEW m \in 0..n PROVE D[m] \in Nat /\ D[m] <= D[n]
    <3>1. CASE m = n
      BY <2>4, <3>1
    <3>2. CASE m # n
      <4>1. m \in 0..(n - 1)
        BY <2>3, <3>2
      <4> QED
        BY <2>3, <2>4, <4>1
    <3> QED
      BY <3>1, <3>2
  <2> QED
    BY <2>1, <2>4, <2>5
<1>2. \A n \in Nat : Holds(n)
  BY <1>1
<1> QED
  BY <1>2 DEF D

LEMMA DelayGrows ==
    ASSUME NEW m \in Nat, NEW n \in Nat, m <= n
    PROVE  Backoff!Delay(m) \in Nat /\ Backoff!Delay(n) \in Nat /\ Backoff!Delay(m) <= Backoff!Delay(n)
<1> DEFINE D == Backoff!Doubled
<1>1. \A a, b, c \in Nat : a <= b => c * a \in Nat /\ c * b \in Nat /\ c * a <= c * b
  OBVIOUS
<1>2. CASE n <= FreeAttempts
  <2>1. m <= FreeAttempts
    BY <1>2, DelayAssumption
  <2> QED
    BY <1>2, <2>1 DEF Backoff!Delay
<1>3. CASE n > FreeAttempts
  <2> DEFINE j == n - FreeAttempts - 1
             i == m - FreeAttempts - 1
  <2>1. j \in Nat
    BY <1>3, DelayAssumption
  <2>2. D[j] \in Nat /\ BaseDelay * D[j] \in Nat
    BY <1>1, <2>1, DoubledGrows, DelayAssumption
  <2>3. Backoff!Delay(n) = Backoff!MinOf(MaxDelay, BaseDelay * D[j])
    BY <1>3, DelayAssumption DEF Backoff!Delay
  <2>4. Backoff!Delay(n) \in Nat
    BY <2>2, <2>3, DelayAssumption DEF Backoff!MinOf
  <2>5. CASE m <= FreeAttempts
    BY <2>4, <2>5 DEF Backoff!Delay
  <2>6. CASE ~(m <= FreeAttempts)
    <3>1. i \in 0..j
      BY <2>1, <2>6, DelayAssumption
    <3>2. D[i] \in Nat /\ D[i] <= D[j]
      BY <2>1, <3>1, DoubledGrows
    <3>3. BaseDelay * D[i] \in Nat /\ BaseDelay * D[i] <= BaseDelay * D[j]
      BY <1>1, <2>2, <3>2, DelayAssumption
    <3>4. Backoff!Delay(m) = Backoff!MinOf(MaxDelay, BaseDelay * D[i])
      BY <2>6 DEF Backoff!Delay
    <3> HIDE DEF D
    <3> QED
      BY <2>2, <2>3, <3>3, <3>4, DelayAssumption DEF Backoff!MinOf
  <2> QED
    BY <2>5, <2>6
<1> QED
  BY <1>2, <1>3, DelayAssumption

-----------------------------------------------------------------------------
BackoffInv ==
    /\ count \in [Backoff!Keys -> Nat]
    /\ age \in [Backoff!Keys -> Nat \cup {-1}]
    /\ signIn \in [Backoff!Attempts -> [pc : {"idle", "age", "check"}, acct : Backoff!Keys,
                                        ip : Backoff!Keys, worst : Nat]]
    /\ ~guessed

LEMMA BackoffAlone == [Next]_vars => [Backoff!Next]_(Backoff!vars)
BY DEF Next, Guards, Posts, Pages, vars, callerVars, backoffVars, Backoff!vars

LEMMA BackoffInit == Init => BackoffInv
<1>1. {MyAccount, MyAddress} \subseteq Backoff!Keys
  BY DelayAssumption DEF Backoff!Keys
<1> QED
  BY <1>1 DEF Init, Backoff!Init, BackoffInv, Backoff!Idle

LEMMA IdleAttempt ==
    ASSUME BackoffInv, NEW t, signIn' = [signIn EXCEPT ![t] = Backoff!Idle]
    PROVE  signIn' \in [Backoff!Attempts -> [pc : {"idle", "age", "check"}, acct : Backoff!Keys,
                                             ip : Backoff!Keys, worst : Nat]]
<1>1. Backoff!Idle \in [pc : {"idle", "age", "check"}, acct : Backoff!Keys,
                        ip : Backoff!Keys, worst : Nat]
  BY DelayAssumption DEF Backoff!Keys, Backoff!Idle
<1> QED
  BY <1>1 DEF BackoffInv

\* the larger count's delay is over, so the account's own is
LEMMA AgeStep ==
    ASSUME BackoffInv, NEW t \in Backoff!Attempts, NEW lost, Backoff!Age(t, lost)
    PROVE  BackoffInv'
<1> DEFINE x == signIn[t]
           a == x.acct
           worst == x.worst
           admitted == Backoff!Delay(worst) - Backoff!Elapsed(x, lost) <= 0
<1>1. /\ x \in [pc : {"idle", "age", "check"}, acct : Backoff!Keys, ip : Backoff!Keys, worst : Nat]
      /\ a \in Backoff!Keys /\ x.ip \in Backoff!Keys /\ worst \in Nat
  BY DEF BackoffInv
<1>2. /\ guessed' = (guessed \/ (admitted /\ a \notin lost /\ count[a] <= worst
                                   /\ Backoff!Cooling(a)))
      /\ signIn' = [signIn EXCEPT ![t] = IF admitted THEN [x EXCEPT !.pc = "check"] ELSE Backoff!Idle]
      /\ UNCHANGED <<count, age>>
  BY DEF Backoff!Age, Backoff!AgeAfterRefusal
<1>3. ASSUME admitted, a \notin lost, count[a] <= worst, Backoff!Cooling(a) PROVE FALSE
  <2>1. /\ count[a] \in Nat /\ count[x.ip] \in Nat
        /\ age[a] \in Nat \cup {-1} /\ age[x.ip] \in Nat \cup {-1}
    BY <1>1 DEF BackoffInv
  <2>2. /\ count[a] > FreeAttempts /\ age[a] # -1 /\ age[a] < Backoff!Delay(count[a])
    BY <1>3 DEF Backoff!Cooling, Backoff!NoExpiry
  <2>3. /\ Backoff!Delay(worst) \in Nat /\ Backoff!Delay(count[a]) \in Nat
        /\ Backoff!Delay(count[a]) <= Backoff!Delay(worst)
    BY <1>1, <1>3, <2>1, DelayGrows
  <2>4. Backoff!Ttl(a) = WindowLength - age[a] /\ Backoff!Ttl(x.ip) \in Int
    BY <2>1, <2>2, DelayAssumption DEF Backoff!Ttl, Backoff!NoExpiry
  <2> DEFINE remaining == Backoff!MaxOf(Backoff!Ttl(a), IF x.ip \in lost THEN -1 ELSE Backoff!Ttl(x.ip))
  <2>5. remaining \in Int /\ remaining >= WindowLength - age[a]
    BY <2>1, <2>2, <2>4, DelayAssumption DEF Backoff!MaxOf
  <2>6. Backoff!Elapsed(x, lost) = IF remaining > 0 THEN WindowLength - remaining ELSE 0
    BY <1>3 DEF Backoff!Elapsed
  <2>7. WindowLength \in Nat
    BY DelayAssumption
  <2> HIDE DEF remaining
  <2>8. Backoff!Delay(worst) <= Backoff!Elapsed(x, lost)
    <3>1. Backoff!Elapsed(x, lost) \in Int
      BY <2>5, <2>6, <2>7
    <3> QED
      BY <1>3, <2>3, <3>1
  <2> QED
    BY <2>1, <2>2, <2>3, <2>5, <2>6, <2>7, <2>8
<1>4. ~guessed'
  BY <1>2, <1>3 DEF BackoffInv
<1> HIDE DEF admitted
<1>5. CASE admitted
  <2>1. signIn' = [signIn EXCEPT ![t] = [x EXCEPT !.pc = "check"]]
    BY <1>2, <1>5
  <2> QED
    BY <1>1, <1>2, <1>4, <2>1 DEF BackoffInv
<1>6. CASE ~admitted
  <2>1. signIn' = [signIn EXCEPT ![t] = Backoff!Idle]
    BY <1>2, <1>6
  <2> QED
    BY <1>2, <1>4, <2>1, IdleAttempt DEF BackoffInv
<1> QED
  BY <1>5, <1>6

LEMMA CountStep ==
    ASSUME BackoffInv, NEW t \in Backoff!Attempts, NEW a \in Backoff!Keys, NEW ip \in Backoff!Keys,
           Backoff!Count(t, a, ip)
    PROVE  BackoffInv'
<1> DEFINE to(pc) == [pc |-> pc, acct |-> a, ip |-> ip, worst |-> Backoff!MaxOf(count[a], count[ip])]
<1>1. UNCHANGED <<count, age, guessed>>
  BY DEF Backoff!Count
<1>2. PICK pc \in {"check", "age"} : signIn' = [signIn EXCEPT ![t] = to(pc)]
  BY DEF Backoff!Count
<1>3. Backoff!MaxOf(count[a], count[ip]) \in Nat
  BY DEF BackoffInv, Backoff!MaxOf
<1>4. to(pc) \in [pc : {"idle", "age", "check"}, acct : Backoff!Keys, ip : Backoff!Keys, worst : Nat]
  BY <1>2, <1>3
<1> HIDE DEF to
<1> QED
  BY <1>1, <1>2, <1>4 DEF BackoffInv

LEMMA FailureStep ==
    ASSUME BackoffInv, NEW t \in Backoff!Attempts, NEW n, Backoff!RecordFailure(t, n)
    PROVE  BackoffInv'
<1>1. PICK hit, set :
        /\ count' = [k \in Backoff!Keys |-> IF k \in hit THEN Backoff!Bumped(k)[k] ELSE count[k]]
        /\ age' = [k \in Backoff!Keys |->
                     IF k \in set THEN 0
                     ELSE IF k \in hit /\ count[k] = 0 THEN Backoff!NoExpiry ELSE age[k]]
  BY DEF Backoff!RecordFailure
<1>2. signIn' = [signIn EXCEPT ![t] = Backoff!Idle] /\ UNCHANGED guessed
  BY DEF Backoff!RecordFailure
<1>3. ASSUME NEW k \in Backoff!Keys PROVE Backoff!Bumped(k)[k] \in Nat /\ count[k] \in Nat
  BY DelayAssumption DEF BackoffInv, Backoff!Bumped, Backoff!MinOf
<1>4. count' \in [Backoff!Keys -> Nat]
  BY <1>1, <1>3
<1>5. age' \in [Backoff!Keys -> Nat \cup {-1}]
  BY <1>1 DEF BackoffInv, Backoff!NoExpiry
<1> QED
  BY <1>2, <1>4, <1>5, IdleAttempt DEF BackoffInv

LEMMA SuccessStep ==
    ASSUME BackoffInv, NEW t \in Backoff!Attempts, Backoff!RecordSuccess(t)
    PROVE  BackoffInv'
<1>1. /\ count' = [count EXCEPT ![signIn[t].acct] = 0]
      /\ age' = [age EXCEPT ![signIn[t].acct] = 0]
      /\ signIn' = [signIn EXCEPT ![t] = Backoff!Idle] /\ UNCHANGED guessed
  BY DEF Backoff!RecordSuccess, Backoff!Cleared
<1>2. count' \in [Backoff!Keys -> Nat] /\ age' \in [Backoff!Keys -> Nat \cup {-1}]
  BY <1>1 DEF BackoffInv
<1> QED
  BY <1>1, <1>2, IdleAttempt DEF BackoffInv

LEMMA BackoffTick == ASSUME BackoffInv, Backoff!Tick PROVE BackoffInv'
<1>1. /\ count' = [k \in Backoff!Keys |-> IF age[k] = WindowLength - 1 THEN 0 ELSE count[k]]
      /\ age' = [k \in Backoff!Keys |->
                   IF age[k] = -1 THEN -1
                   ELSE IF count[k] = 0 \/ age[k] = WindowLength - 1 THEN 0 ELSE age[k] + 1]
      /\ UNCHANGED <<signIn, guessed>>
  BY DEF Backoff!Tick, Backoff!NoExpiry
<1>2. count' \in [Backoff!Keys -> Nat]
  BY <1>1 DEF BackoffInv
<1>3. age' \in [Backoff!Keys -> Nat \cup {-1}]
  <2>1. ASSUME NEW k \in Backoff!Keys PROVE age'[k] \in Nat \cup {-1}
    BY <1>1 DEF BackoffInv
  <2> QED
    BY <1>1, <2>1
<1> QED
  BY <1>1, <1>2, <1>3 DEF BackoffInv

LEMMA BackoffStep == BackoffInv /\ [Next]_vars => BackoffInv'
<1> SUFFICES ASSUME BackoffInv, [Backoff!Next]_(Backoff!vars) PROVE BackoffInv'
  BY BackoffAlone
<1>1. CASE UNCHANGED Backoff!vars
  BY <1>1 DEF Backoff!vars, BackoffInv
<1>2. Me \in Backoff!Attempts /\ MyAccount \in Backoff!Keys /\ MyAddress \in Backoff!Keys
  BY DelayAssumption DEF Backoff!Attempts, Backoff!Keys
<1>3. CASE Backoff!Mine
  BY <1>2, <1>3, CountStep, AgeStep, SuccessStep DEF Backoff!Mine
<1>4. ASSUME NEW t \in Others,
             \/ \E a \in Accounts, ip \in Clients : Backoff!Count(t, a, ip)
             \/ Backoff!RecordSuccess(t)
             \/ \E lost \in Backoff!Unanswered(t) : Backoff!Age(t, lost)
             \/ \E n \in 0..4 : Backoff!RecordFailure(t, n)
      PROVE  BackoffInv'
  <2>1. t \in Backoff!Attempts /\ Accounts \subseteq Backoff!Keys /\ Clients \subseteq Backoff!Keys
    BY DEF Backoff!Attempts, Backoff!Keys
  <2> QED
    BY <1>4, <2>1, CountStep, AgeStep, SuccessStep, FailureStep
<1>5. CASE Backoff!Tick
  BY <1>5, BackoffTick
<1> QED
  BY <1>1, <1>3, <1>4, <1>5 DEF Backoff!Next

-----------------------------------------------------------------------------
(***************************************************************************)
(* Throttler: what a store let a caller spend in a window is in the one    *)
(* counter of its spend tier, and both start anew together.                *)
(***************************************************************************)
SpendKey(c) == <<"spend", c, "every">>

LimitsInv ==
    /\ hits \in [Limits!Stores -> [Limits!Buckets -> Nat]]
    /\ DOMAIN left = Limits!Stores
    /\ \A s \in Limits!Stores : DOMAIN left[s] = Limits!Buckets
    /\ granted \in [Limits!Stores -> [Callers -> Nat]]
    /\ DOMAIN call = Tasks
    /\ \A t \in Tasks : call[t].tier # 0 =>
          call[t] \in [caller : Callers, route : Routes, at : Servers, tier : 1..Len(Tiers)]
    /\ \A s \in Limits!Stores, c \in Callers :
          /\ granted[s][c] <= hits[s][SpendKey(c)] /\ granted[s][c] <= TierLimit["spend"]
          /\ \A r \in Routes \ {"every"} : left[s][<<"spend", c, r>>] = 0

LEMMA LimitsAlone == [Next]_vars => [Limits!Next]_(Limits!vars)
BY DEF Next, Guards, Posts, Pages, vars, callerVars, limitVars, Limits!vars

LEMMA SpendBuckets ==
    /\ \A c \in Callers : SpendKey(c) \in Limits!Buckets
    /\ \A c \in Callers, r \in Routes : <<"spend", c, r>> \in Limits!Buckets
    /\ \A b \in Limits!Buckets, c \in Callers :
          b[1] = "spend" /\ b[2] = c => b = SpendKey(c) \/ \E r \in Routes : b = <<"spend", c, r>>
BY DEF Limits!Buckets, SpendKey

LEMMA LimitsInit == Init => LimitsInv
<1> SUFFICES ASSUME Limits!Init PROVE LimitsInv
  BY DEF Init
<1>1. \A t \in Tasks : call[t].tier = 0
  BY DEF Limits!Init, Limits!Idle
<1> QED
  BY <1>1, LimitAssumption, SpendBuckets DEF Limits!Init, LimitsInv

LEMMA SameCounters ==
    ASSUME LimitsInv, UNCHANGED <<hits, left, granted>>, DOMAIN call' = Tasks,
           \A t \in Tasks : call'[t].tier # 0 =>
              call'[t] \in [caller : Callers, route : Routes, at : Servers, tier : 1..Len(Tiers)]
    PROVE  LimitsInv'
BY DEF LimitsInv

LEMMA EnterStep ==
    ASSUME LimitsInv, NEW t \in Tasks, NEW c \in Callers, NEW r \in Routes, NEW p \in Servers,
           Limits!Enter(t, c, r, p)
    PROVE  LimitsInv'
<1> DEFINE x == [caller |-> c, route |-> r, at |-> p, tier |-> 1]
<1>1. call' = [call EXCEPT ![t] = x] /\ UNCHANGED <<hits, left, granted>>
  BY DEF Limits!Enter
<1>2. 1 \in 1..Len(Tiers)
  BY LimitAssumption
<1>3. x \in [caller : Callers, route : Routes, at : Servers, tier : 1..Len(Tiers)]
  BY <1>2
<1> HIDE DEF x
<1>4. \A u \in Tasks : call'[u] = IF u = t THEN x ELSE call[u]
  BY <1>1 DEF LimitsInv
<1> QED
  BY <1>1, <1>3, <1>4, SameCounters DEF LimitsInv

\* where a request goes next
LEMMA NextTierTyped ==
    ASSUME LimitsInv, NEW t \in Tasks, call[t].tier # 0,
           call' \in {[call EXCEPT ![t] = Limits!Idle], [call EXCEPT ![t] = Limits!NextTier(call[t])]}
    PROVE  /\ DOMAIN call' = Tasks
           /\ \A u \in Tasks : call'[u].tier # 0 =>
                call'[u] \in [caller : Callers, route : Routes, at : Servers, tier : 1..Len(Tiers)]
<1> DEFINE CallRows == [caller : Callers, route : Routes, at : Servers, tier : 1..Len(Tiers)]
<1>1. call[t] \in CallRows
  BY DEF LimitsInv
<1>2. Len(Tiers) \in Nat
  BY LimitAssumption
<1>3. PICK y : y \in {Limits!Idle, Limits!NextTier(call[t])} /\ call' = [call EXCEPT ![t] = y]
  OBVIOUS
<1>4. y.tier # 0 => y \in CallRows
  <2>1. Limits!Idle.tier = 0
    BY DEF Limits!Idle
  <2>2. CASE y = Limits!Idle
    BY <2>1, <2>2
  <2>3. CASE y = [call[t] EXCEPT !.tier = @ + 1] /\ call[t].tier # Len(Tiers)
    BY <1>1, <1>2, <2>3
  <2> QED
    BY <1>3, <2>2, <2>3 DEF Limits!NextTier
<1>5. \A u \in Tasks : call'[u] = IF u = t THEN y ELSE call[u]
  BY <1>3 DEF LimitsInv
<1> HIDE DEF CallRows
<1>6. \A u \in Tasks : call[u].tier # 0 => call[u] \in CallRows
  BY DEF LimitsInv, CallRows
<1>7. \A u \in Tasks : call'[u].tier # 0 => call'[u] \in CallRows
  BY <1>4, <1>5, <1>6
<1> QED
  BY <1>3, <1>7 DEF LimitsInv, CallRows

LEMMA HandleStep ==
    ASSUME LimitsInv, NEW t \in Tasks, Limits!Handle(t)
    PROVE  LimitsInv'
<1> DEFINE x == call[t]
           n == Tiers[x.tier]
           s == IF answers THEN "redis" ELSE x.at
           b == Limits!Key(n, x.caller, x.route)
           cost == Limits!Weight(x.route)
           h == Limits!Capped(hits[s][b] + cost)
           blocked == h > TierLimit[n]
<1>1. x.tier # 0 /\ x \in [caller : Callers, route : Routes, at : Servers, tier : 1..Len(Tiers)]
  BY DEF Limits!Handle, LimitsInv
<1>2. /\ n \in {"default", "burst", "spend"} /\ s \in Limits!Stores /\ x.caller \in Callers
      /\ b \in Limits!Buckets /\ cost \in Nat
  BY <1>1, LimitAssumption DEF Limits!Stores, Limits!Key, Limits!Buckets, Limits!Weight
<1>3. PICK window :
        /\ hits' = [hits EXCEPT ![s][b] = h]
        /\ left' = [left EXCEPT ![s][b] = window]
        /\ granted' = [granted EXCEPT ![s][x.caller] = @ + IF n = "spend" /\ ~blocked THEN cost ELSE 0]
        /\ call' = [call EXCEPT ![t] = IF blocked THEN Limits!Idle ELSE Limits!NextTier(x)]
  BY DEF Limits!Handle
<1>4. /\ DOMAIN call' = Tasks
      /\ \A u \in Tasks : call'[u].tier # 0 =>
           call'[u] \in [caller : Callers, route : Routes, at : Servers, tier : 1..Len(Tiers)]
  <2>1. call' \in {[call EXCEPT ![t] = Limits!Idle], [call EXCEPT ![t] = Limits!NextTier(call[t])]}
    BY <1>3
  <2> QED
    BY <1>1, <2>1, NextTierTyped
<1>5. /\ n = "spend" => b = SpendKey(x.caller)
      /\ n # "spend" => \A c \in Callers, r \in Routes : b # SpendKey(c) /\ b # <<"spend", c, r>>
      /\ \A c \in Callers, r \in Routes \ {"every"} : b # <<"spend", c, r>>
      /\ \A c \in Callers : c # x.caller => b # SpendKey(c)
  BY <1>1, <1>2 DEF Limits!Key, SpendKey
<1>6. /\ hits[s][b] \in Nat /\ h \in Nat
      /\ h = IF hits[s][b] + cost > MaxHits THEN MaxHits ELSE hits[s][b] + cost
  BY <1>2, LimitAssumption DEF LimitsInv, Limits!Capped
<1> DEFINE spent == IF n = "spend" /\ ~blocked THEN cost ELSE 0
<1>7. spent \in Nat
  BY <1>2
<1>8. granted[s][x.caller] + spent \in Nat
  BY <1>2, <1>7 DEF LimitsInv
<1> DEFINE mineNow == granted[s][x.caller]
<1>9. /\ mineNow \in Nat /\ mineNow <= TierLimit["spend"] /\ mineNow <= hits[s][SpendKey(x.caller)]
  BY <1>2 DEF LimitsInv
<1>10. /\ n = "spend" => mineNow + spent <= h
       /\ mineNow + spent <= TierLimit["spend"]
  <2>1. TierLimit["spend"] \in Nat /\ MaxHits \in Nat /\ TierLimit["spend"] < MaxHits
    BY LimitAssumption
  <2>2. n = "spend" => mineNow <= hits[s][b]
    BY <1>5, <1>9
  <2>3. CASE n = "spend" /\ ~blocked
    <3>1. h <= TierLimit["spend"]
      BY <1>6, <2>1, <2>3
    <3> HIDE DEF h, mineNow, blocked, b, s, n, cost
    <3> QED
      BY <1>2, <1>6, <1>9, <2>1, <2>2, <2>3, <3>1
  <2>4. CASE ~(n = "spend" /\ ~blocked)
    <3>1. spent = 0
      BY <2>4
    <3> HIDE DEF spent, h, mineNow, blocked, b, s, n, cost
    <3> QED
      BY <1>2, <1>6, <1>9, <2>1, <2>2, <3>1
  <2> QED
    BY <2>3, <2>4
<1>11. granted' = [granted EXCEPT ![s][x.caller] = mineNow + spent]
  BY <1>3
<1> HIDE DEF spent, h, mineNow, blocked, b, s, n, cost, x
<1>12. /\ hits' \in [Limits!Stores -> [Limits!Buckets -> Nat]]
       /\ DOMAIN left' = Limits!Stores
       /\ \A s2 \in Limits!Stores : DOMAIN left'[s2] = Limits!Buckets
       /\ granted' \in [Limits!Stores -> [Callers -> Nat]]
  BY <1>2, <1>3, <1>6, <1>7, <1>9, <1>11 DEF LimitsInv
<1>13. ASSUME NEW s2 \in Limits!Stores, NEW c \in Callers
       PROVE  /\ granted'[s2][c] <= hits'[s2][SpendKey(c)] /\ granted'[s2][c] <= TierLimit["spend"]
              /\ \A r \in Routes \ {"every"} : left'[s2][<<"spend", c, r>>] = 0
  <2>1. \A r \in Routes \ {"every"} : left'[s2][<<"spend", c, r>>] = 0
    <3> SUFFICES ASSUME NEW r \in Routes \ {"every"} PROVE left'[s2][<<"spend", c, r>>] = 0
      OBVIOUS
    <3> DEFINE k == <<"spend", c, r>>
    <3>1. k \in Limits!Buckets /\ k # b /\ left[s2][k] = 0
      BY <1>5, SpendBuckets DEF LimitsInv
    <3> HIDE DEF k
    <3>2. left'[s2][k] = left[s2][k]
      BY <1>2, <1>3, <3>1 DEF LimitsInv
    <3> QED
      BY <3>1, <3>2 DEF k
  <2>2. SpendKey(c) \in Limits!Buckets
    BY SpendBuckets
  <2>3. hits'[s2][SpendKey(c)] = IF s2 = s /\ SpendKey(c) = b THEN h ELSE hits[s2][SpendKey(c)]
    BY <1>2, <1>3, <2>2 DEF LimitsInv
  <2>4. granted'[s2][c] = IF s2 = s /\ c = x.caller THEN mineNow + spent ELSE granted[s2][c]
    BY <1>2, <1>11 DEF LimitsInv
  <2>5. granted[s2][c] <= hits[s2][SpendKey(c)] /\ granted[s2][c] <= TierLimit["spend"]
    BY DEF LimitsInv
  <2>6. CASE s2 = s /\ c = x.caller /\ n = "spend"
    BY <1>5, <1>10, <2>1, <2>3, <2>4, <2>6
  <2>7. CASE s2 = s /\ c = x.caller /\ n # "spend"
    <3>1. spent = 0
      BY <2>7 DEF spent
    <3>2. SpendKey(c) # b
      <4>1. x.route \in Routes
        BY <1>1 DEF x
      <4> QED
        BY <1>5, <2>7, <4>1
    <3> QED
      BY <1>9, <2>1, <2>3, <2>4, <2>7, <3>1, <3>2
  <2>8. CASE s2 # s \/ c # x.caller
    <3>1. ~(s2 = s /\ SpendKey(c) = b)
      BY <1>5, <2>8
    <3> QED
      BY <2>1, <2>3, <2>4, <2>5, <2>8, <3>1
  <2> QED
    BY <2>6, <2>7, <2>8
<1> QED
  BY <1>4, <1>12, <1>13 DEF LimitsInv

LEMMA LimitsTick == ASSUME LimitsInv, Limits!Tick PROVE LimitsInv'
<1>1. /\ left' = [s \in Limits!Stores |-> [b \in Limits!Buckets |->
                    IF left[s][b] = 0 THEN 0 ELSE left[s][b] - 1]]
      /\ hits' = [s \in Limits!Stores |-> [b \in Limits!Buckets |->
                    IF left[s][b] <= 1 THEN 0 ELSE hits[s][b]]]
      /\ granted' = [s \in Limits!Stores |-> [c \in Callers |->
                       IF \A b \in Limits!Buckets : b[1] = "spend" /\ b[2] = c => left[s][b] <= 1
                       THEN 0 ELSE granted[s][c]]]
      /\ UNCHANGED call
  BY DEF Limits!Tick
<1>2. ASSUME NEW s \in Limits!Stores, NEW c \in Callers
      PROVE  /\ granted'[s][c] <= hits'[s][SpendKey(c)] /\ granted'[s][c] <= TierLimit["spend"]
             /\ \A r \in Routes \ {"every"} : left'[s][<<"spend", c, r>>] = 0
  <2>1. SpendKey(c) \in Limits!Buckets /\ TierLimit["spend"] \in Nat
    BY SpendBuckets, LimitAssumption
  <2>2. \A r \in Routes \ {"every"} : left[s][<<"spend", c, r>>] = 0 /\ <<"spend", c, r>> \in Limits!Buckets
    BY SpendBuckets DEF LimitsInv
  <2>3. \A r \in Routes \ {"every"} : left'[s][<<"spend", c, r>>] = 0
    BY <1>1, <2>2
  <2>4. granted[s][c] <= hits[s][SpendKey(c)] /\ granted[s][c] <= TierLimit["spend"]
    BY DEF LimitsInv
  <2>5. CASE left[s][SpendKey(c)] <= 1
    <3>1. ASSUME NEW b \in Limits!Buckets, b[1] = "spend", b[2] = c PROVE left[s][b] <= 1
      <4>1. CASE b = SpendKey(c)
        BY <2>5, <4>1
      <4>2. ASSUME NEW r \in Routes, b = <<"spend", c, r>> PROVE left[s][b] <= 1
        BY <2>2, <2>5, <4>2 DEF SpendKey
      <4> QED
        BY <3>1, <4>1, <4>2, SpendBuckets
    <3>2. granted'[s][c] = 0 /\ hits'[s][SpendKey(c)] = 0
      BY <1>1, <2>1, <2>5, <3>1
    <3> QED
      BY <2>1, <2>3, <3>2
  <2>6. CASE ~(left[s][SpendKey(c)] <= 1)
    <3>1. SpendKey(c)[1] = "spend" /\ SpendKey(c)[2] = c
      BY DEF SpendKey
    <3>2. granted'[s][c] = granted[s][c] /\ hits'[s][SpendKey(c)] = hits[s][SpendKey(c)]
      BY <1>1, <2>1, <2>6, <3>1
    <3> QED
      BY <2>3, <2>4, <3>2
  <2> QED
    BY <2>5, <2>6
<1>3. /\ hits' \in [Limits!Stores -> [Limits!Buckets -> Nat]]
      /\ granted' \in [Limits!Stores -> [Callers -> Nat]]
      /\ DOMAIN left' = Limits!Stores
      /\ \A s \in Limits!Stores : DOMAIN left'[s] = Limits!Buckets
  <2>1. ASSUME NEW s \in Limits!Stores
        PROVE  hits'[s] \in [Limits!Buckets -> Nat] /\ granted'[s] \in [Callers -> Nat]
    BY <1>1 DEF LimitsInv
  <2> QED
    BY <1>1, <2>1
<1> QED
  BY <1>1, <1>2, <1>3 DEF LimitsInv

LEMMA LimitsStep == LimitsInv /\ [Next]_vars => LimitsInv'
<1> SUFFICES ASSUME LimitsInv, [Limits!Next]_(Limits!vars) PROVE LimitsInv'
  BY LimitsAlone
<1>1. CASE UNCHANGED Limits!vars
  BY <1>1 DEF Limits!vars, LimitsInv
<1>2. CASE Limits!Arrive
  BY <1>2, EnterStep DEF Limits!Arrive
<1>3. ASSUME NEW t \in Tasks, Limits!Skip(t) PROVE LimitsInv'
  <2>1. /\ call[t].tier # 0 /\ UNCHANGED <<hits, left, granted>>
        /\ call' = [call EXCEPT ![t] = Limits!NextTier(call[t])]
    BY <1>3 DEF Limits!Skip
  <2> QED
    BY <2>1, NextTierTyped, SameCounters
<1>4. CASE Limits!Serve
  BY <1>3, <1>4, HandleStep DEF Limits!Serve
<1>5. CASE Limits!Outage
  BY <1>5 DEF Limits!Outage, LimitsInv
<1> QED
  BY <1>1, <1>2, <1>4, <1>5, LimitsTick DEF Limits!Next

\* An attempt for which the store answered mget and the account's pttl is not let at the
\* password of an account that is cooling, whatever the address's counter and its pttl say
\* and whatever other attempts do in between; and no store, Redis or a process's own, lets
\* a caller spend more than the budget of a window, for any number of callers, processes
\* and requests at the same time (LoginBackoffService, GodeyeThrottlerGuard over
\* RedisThrottlerStorage).
THEOREM LimitsKept == Spec => []LimitsHold
<1>1. BackoffInv /\ LimitsInv => LimitsHold
  BY DEF BackoffInv, LimitsInv, LimitsHold, Backoff!NoGuessWhileCooling, Limits!SpendWithinBudget
<1> QED
  BY <1>1, BackoffInit, BackoffStep, LimitsInit, LimitsStep, PTL DEF Spec

=============================================================================
