---------------------------- MODULE PagesProofs ----------------------------
(***************************************************************************)
(* Proofs about the pages in the run of MCWorkspace: what a card, a form,  *)
(* the image studio and the account page show and send, over answers that  *)
(* come in any order.                                                      *)
(***************************************************************************)
EXTENDS WorkspaceProofs

-----------------------------------------------------------------------------
(***************************************************************************)
(* Settings cards: what a card shows differs from what is stored only      *)
(* while a request that changes it is on its way, or after one failed with *)
(* the failure still shown.  The two instances differ in their cards.      *)
(***************************************************************************)
AllCards == {"kit", "profile", "products"}
CardOps == {"kit", "logo", "track", "untrack", "profile", "products"}
CardRequest(r) ==
    /\ DOMAIN r = {"pc", "op", "body"}
    /\ r.pc # "free" => r.op \in CardOps

OnItsWay(s, c) == request[s].pc # "free" /\ c \in Profile!Invalidated(request[s].op)

\* the failures that say a card may differ from what is stored
Failures(c) == IF c = "products" THEN {"profile", "products"} ELSE {c}

Told(c) ==
    \/ c \in stale \/ cache[c] = Profile!Answer(c)
    \/ \E s \in CardSlots : OnItsWay(s, c)
    \/ \E x \in error : x \in Failures(c)

SwitchesSent ==
    \/ drafts["products"] = <<>> \/ "products" \in error
    \/ \E s \in CardSlots : request[s].pc # "free" /\ request[s].op = "products"

CardsInv(C) ==
    /\ DOMAIN settings = AllCards /\ DOMAIN cache = AllCards /\ DOMAIN drafts = C
    /\ DOMAIN request = CardSlots /\ \A s \in CardSlots : CardRequest(request[s])
    /\ \A c \in C : Told(c)
    /\ "products" \in C => SwitchesSent

ThisRun ==
    /\ part = "kit" => CardsInv({"kit"})
    /\ part = "profile" => CardsInv({"profile", "products"})

LEMMA Invalidates ==
    ASSUME NEW op \in CardOps
    PROVE  /\ Profile!Invalidated(op) \subseteq AllCards
           /\ Profile!CardOf(op) \in Profile!Invalidated(op)
           /\ \A c \in Profile!Invalidated(op) : Profile!CardOf(op) \in Failures(c)
           /\ \A c \in AllCards : Profile!CardOf(op) \in Failures(c) => c \in Profile!Invalidated(op)
BY DEF CardOps, AllCards, Profile!Invalidated, Profile!CardOf, Failures

\* a request is sent: its card's failure may be taken away with it
LEMMA CardSends ==
    ASSUME NEW C \in SUBSET AllCards, CardsInv(C), NEW s \in CardSlots, NEW op \in CardOps, NEW sent,
           request[s].pc = "free",
           request' = [request EXCEPT ![s] = [pc |-> "sent", op |-> op, body |-> sent]],
           UNCHANGED <<settings, cache, stale>>,
           DOMAIN drafts' = C,
           "products" \in C => op = "products" \/ drafts'["products"] = drafts["products"],
           \A x \in error : x \in error' \/ x = Profile!CardOf(op)
    PROVE  CardsInv(C)'
<1>1. /\ DOMAIN request' = CardSlots /\ CardRequest(request'[s])
      /\ \A u \in CardSlots \ {s} : request'[u] = request[u]
      /\ request'[s].pc = "sent" /\ request'[s].op = op
  BY DEF CardsInv, CardRequest
<1>2. \A c \in AllCards : Profile!Answer(c)' = Profile!Answer(c)
  BY DEF Profile!Answer
<1>3. ASSUME NEW c \in C PROVE Told(c)'
  <2>1. CASE c \in Profile!Invalidated(op)
    BY <1>1, <2>1 DEF Told, OnItsWay
  <2>2. CASE c \notin Profile!Invalidated(op)
    <3>1. \A u \in CardSlots : OnItsWay(u, c) => u # s /\ OnItsWay(u, c)'
      BY <1>1 DEF OnItsWay
    <3>2. \A x \in error : x \in Failures(c) => x \in error'
      BY <2>2, Invalidates
    <3> QED
      BY <3>1, <3>2, <1>2 DEF Told, CardsInv
  <2> QED
    BY <2>1, <2>2
<1>4. ASSUME "products" \in C PROVE SwitchesSent'
  <2>1. CASE op = "products"
    BY <1>1, <2>1 DEF SwitchesSent
  <2>2. CASE op # "products"
    BY <1>1, <1>4, <2>2 DEF SwitchesSent, CardsInv, Profile!CardOf
  <2> QED
    BY <2>1, <2>2
<1> QED
  BY <1>1, <1>3, <1>4 DEF CardsInv

\* nothing is sent: a draft of the kit or the profile, or a failure
LEMMA CardEdits ==
    ASSUME NEW C \in SUBSET AllCards, CardsInv(C),
           UNCHANGED <<settings, cache, stale, request>>, error \subseteq error',
           DOMAIN drafts' = C, "products" \in C => drafts'["products"] = drafts["products"]
    PROVE  CardsInv(C)'
BY DEF CardsInv, Told, OnItsWay, SwitchesSent, CardRequest, Profile!Answer

LEMMA CardRefetches ==
    ASSUME NEW C \in SUBSET AllCards, CardsInv(C), NEW c \in C,
           cache' = [cache EXCEPT ![c] = Profile!Answer(c)], stale' = stale \ {c},
           UNCHANGED <<settings, drafts, error, request>>
    PROVE  CardsInv(C)'
<1>1. \A d \in AllCards : Profile!Answer(d)' = Profile!Answer(d)
  BY DEF Profile!Answer
<1>2. cache'[c] = Profile!Answer(c)'
  BY <1>1 DEF CardsInv
<1>3. ASSUME NEW d \in C, d # c PROVE Told(d)'
  BY <1>1, <1>3 DEF CardsInv, Told, OnItsWay
<1>4. Told(c)'
  BY <1>2 DEF Told
<1> QED
  BY <1>3, <1>4 DEF CardsInv, SwitchesSent, CardRequest

\* each endpoint changes what its own card shows, and the profile the catalogue's too
LEMMA AnswersKept ==
    ASSUME DOMAIN settings = AllCards, NEW r, r.op \in CardOps, settings' = Profile!Stored(r),
           NEW c \in AllCards, c \notin Profile!Invalidated(r.op)
    PROVE  Profile!Answer(c)' = Profile!Answer(c)
<1>1. CASE r.op = "profile"
  BY <1>1 DEF Profile!Stored, Profile!ProfileStored, Profile!Invalidated, Profile!Answer, AllCards
<1>2. CASE r.op = "products"
  BY <1>2 DEF Profile!Stored, Profile!ProductsStored, Profile!Invalidated, Profile!CardOf,
     Profile!Answer, AllCards
<1>3. CASE r.op \in {"kit", "logo", "track", "untrack"}
  <2>1. settings' = Profile!KitStored(r) /\ c # "kit"
    BY <1>3 DEF Profile!Stored, Profile!Invalidated, Profile!CardOf
  <2>2. settings'["profile"] = settings["profile"] /\ settings'["products"] = settings["products"]
    BY <1>3, <2>1 DEF Profile!KitStored, AllCards
  <2> QED
    BY <2>1, <2>2 DEF Profile!Answer, AllCards
<1> QED
  BY <1>1, <1>2, <1>3 DEF CardOps

LEMMA StoredCards ==
    ASSUME DOMAIN settings = AllCards, NEW r, r.op \in CardOps
    PROVE  DOMAIN Profile!Stored(r) = AllCards
BY DEF Profile!Stored, Profile!ProfileStored, Profile!ProductsStored, Profile!KitStored, CardOps

LEMMA CardLands ==
    ASSUME NEW C \in SUBSET AllCards, CardsInv(C), NEW s \in CardSlots, Profile!Land(s)
    PROVE  CardsInv(C)'
<1>1. /\ settings' = Profile!Stored(request[s]) /\ request[s].op \in CardOps
      /\ request' = [request EXCEPT ![s].pc = "stored"]
      /\ UNCHANGED <<cache, stale, drafts, error>>
  BY DEF Profile!Land, CardsInv, CardRequest
<1>2. /\ DOMAIN request' = CardSlots /\ \A u \in CardSlots : CardRequest(request'[u])
      /\ \A u \in CardSlots : request'[u].op = request[u].op
      /\ \A u \in CardSlots : request[u].pc # "free" => request'[u].pc # "free"
      /\ request'[s].pc # "free"
  BY <1>1 DEF CardsInv, CardRequest
<1>3. DOMAIN settings' = AllCards
  BY <1>1, StoredCards DEF CardsInv
<1>4. ASSUME NEW c \in C PROVE Told(c)'
  <2>1. CASE c \in Profile!Invalidated(request[s].op)
    BY <1>2, <2>1 DEF Told, OnItsWay
  <2>2. CASE c \notin Profile!Invalidated(request[s].op)
    <3>1. Profile!Answer(c)' = Profile!Answer(c)
      BY <1>1, <2>2, AnswersKept DEF CardsInv
    <3> QED
      BY <3>1, <1>1, <1>2 DEF Told, OnItsWay, CardsInv
  <2> QED
    BY <2>1, <2>2
<1>5. "products" \in C => SwitchesSent'
  BY <1>1, <1>2 DEF SwitchesSent, CardsInv
<1> QED
  BY <1>1, <1>2, <1>3, <1>4, <1>5 DEF CardsInv

\* a slot is free again
LEMMA SlotFreed ==
    ASSUME NEW C \in SUBSET AllCards, CardsInv(C), NEW s \in CardSlots,
           request' = [request EXCEPT ![s] = Profile!Free]
    PROVE  /\ DOMAIN request' = CardSlots /\ \A u \in CardSlots : CardRequest(request'[u])
           /\ \A u \in CardSlots \ {s} : request'[u] = request[u]
BY DEF CardsInv, CardRequest, Profile!Free

LEMMA CardSucceeds ==
    ASSUME NEW C \in SUBSET AllCards, CardsInv(C), NEW s \in CardSlots,
           request[s].pc # "free", request' = [request EXCEPT ![s] = Profile!Free],
           stale' = stale \cup (Profile!Invalidated(request[s].op) \cap C),
           \A x \in error : x \in error' \/ x = Profile!CardOf(request[s].op),
           DOMAIN drafts' = C,
           "products" \in C => drafts'["products"] \in {<<>>, drafts["products"]},
           request[s].op = "products" => "products" \notin C \/ drafts'["products"] = <<>>,
           UNCHANGED <<settings, cache>>
    PROVE  CardsInv(C)'
<1> DEFINE op == request[s].op
<1>1. op \in CardOps
  BY DEF CardsInv, CardRequest
<1>2. \A d \in AllCards : Profile!Answer(d)' = Profile!Answer(d)
  BY DEF Profile!Answer
<1>3. ASSUME NEW c \in C PROVE Told(c)'
  <2>1. CASE c \in Profile!Invalidated(op)
    BY <2>1 DEF Told
  <2>2. CASE c \notin Profile!Invalidated(op)
    <3>1. \A u \in CardSlots : OnItsWay(u, c) => u # s /\ OnItsWay(u, c)'
      BY <2>2, SlotFreed DEF OnItsWay
    <3>2. \A x \in error : x \in Failures(c) => x \in error'
      BY <2>2, <1>1, Invalidates
    <3> QED
      BY <3>1, <3>2, <1>2 DEF Told, CardsInv
  <2> QED
    BY <2>1, <2>2
<1>4. ASSUME "products" \in C PROVE SwitchesSent'
  <2>1. CASE op = "products"
    BY <1>4, <2>1 DEF SwitchesSent
  <2>2. CASE op # "products"
    BY <1>4, <2>2, SlotFreed DEF SwitchesSent, CardsInv, Profile!CardOf
  <2> QED
    BY <2>1, <2>2
<1> QED
  BY <1>3, <1>4, SlotFreed DEF CardsInv

LEMMA CardFails ==
    ASSUME NEW C \in SUBSET AllCards, CardsInv(C), NEW s \in CardSlots, Profile!Fail(s)
    PROVE  CardsInv(C)'
<1> DEFINE op == request[s].op
<1>1. /\ op \in CardOps /\ request' = [request EXCEPT ![s] = Profile!Free]
      /\ error' = error \cup {Profile!CardOf(op)} /\ UNCHANGED <<settings, cache, stale, drafts>>
  BY DEF Profile!Fail, CardsInv, CardRequest
<1>2. \A d \in AllCards : Profile!Answer(d)' = Profile!Answer(d)
  BY <1>1 DEF Profile!Answer
<1>3. ASSUME NEW c \in C PROVE Told(c)'
  <2>1. CASE c \in Profile!Invalidated(op)
    BY <1>1, <2>1, Invalidates DEF Told
  <2>2. CASE c \notin Profile!Invalidated(op)
    <3>1. \A u \in CardSlots : OnItsWay(u, c) => OnItsWay(u, c)'
      BY <1>1, <2>2, SlotFreed DEF OnItsWay
    <3> QED
      BY <3>1, <1>1, <1>2 DEF Told, CardsInv
  <2> QED
    BY <2>1, <2>2
<1>4. ASSUME "products" \in C PROVE SwitchesSent'
  BY <1>1, <1>4, SlotFreed DEF SwitchesSent, CardsInv, Profile!CardOf
<1> QED
  BY <1>1, <1>3, <1>4, SlotFreed DEF CardsInv

LEMMA KitNext ==
    ASSUME CardsInv({"kit"}), Kit!Next
    PROVE  CardsInv({"kit"})'
<1> DEFINE C == {"kit"}
<1>0. C \in SUBSET AllCards /\ DOMAIN drafts = C /\ "products" \notin C
  BY DEF CardsInv, AllCards
<1>1. CASE Kit!TrackTooLarge
  BY <1>0, <1>1, CardEdits DEF Kit!TrackTooLarge
<1>2. ASSUME NEW x \in Colours, Kit!EditKit(x) PROVE CardsInv(C)'
  <2>1. DOMAIN drafts' = C /\ UNCHANGED <<settings, cache, stale, request, error>>
    BY <1>0, <1>2 DEF Kit!EditKit
  <2> QED
    BY <1>0, <2>1, CardEdits
<1>3. ASSUME NEW s \in CardSlots, NEW op \in {"kit", "logo", "track", "untrack"}, NEW sent,
             Kit!Send(s, op, sent), UNCHANGED <<settings, cache, stale, drafts>>,
             error' \in {error, error \ {"kit"}}
      PROVE  CardsInv(C)'
  <2>1. op \in CardOps /\ Profile!CardOf(op) = "kit"
    BY DEF CardOps, Profile!CardOf
  <2>2. /\ request[s].pc = "free"
        /\ request' = [request EXCEPT ![s] = [pc |-> "sent", op |-> op, body |-> sent]]
    BY <1>3 DEF Kit!Send
  <2>3. \A x \in error : x \in error' \/ x = Profile!CardOf(op)
    BY <1>3, <2>1
  <2>4. DOMAIN drafts' = C /\ UNCHANGED <<settings, cache, stale>>
    BY <1>0, <1>3
  <2> HIDE DEF C
  <2> QED
    BY <1>0, <2>1, <2>2, <2>3, <2>4, CardSends DEF C
<1>4. ASSUME NEW s \in CardSlots, Kit!SaveKit(s) \/ Kit!RemoveTrack(s) PROVE CardsInv(C)'
  BY <1>3, <1>4 DEF Kit!SaveKit, Kit!RemoveTrack
<1>5. ASSUME NEW s \in CardSlots, NEW file \in Files, Kit!UploadLogo(s, file) \/ Kit!UploadTrack(s, file)
      PROVE  CardsInv(C)'
  BY <1>3, <1>5 DEF Kit!UploadLogo, Kit!UploadTrack
<1>6. ASSUME Kit!Refetch("kit") PROVE CardsInv(C)'
  BY <1>0, <1>6, CardRefetches DEF Kit!Refetch, Kit!Answer, Profile!Answer
<1>7. ASSUME NEW s \in CardSlots, Kit!Land(s) PROVE CardsInv(C)'
  <2>1. Profile!Land(s)
    BY <1>7 DEF Kit!Land, Profile!Land, Kit!Refused, Profile!Refused, Kit!Stored, Profile!Stored,
       Kit!KitStored, Profile!KitStored, Kit!ProfileStored, Profile!ProfileStored,
       Kit!ProductsStored, Profile!ProductsStored, Kit!None, Profile!None
  <2> QED
    BY <1>0, <2>1, CardLands
<1>8. ASSUME NEW s \in CardSlots, Kit!Succeed(s) PROVE CardsInv(C)'
  <2>1. /\ request[s].pc # "free" /\ request' = [request EXCEPT ![s] = Profile!Free]
        /\ UNCHANGED <<settings, cache>> /\ DOMAIN drafts' = C
    BY <1>0, <1>8 DEF Kit!Succeed, Kit!Free, Profile!Free
  <2>2. stale' = stale \cup (Profile!Invalidated(request[s].op) \cap C)
    BY <1>8 DEF Kit!Succeed, Kit!Invalidated, Profile!Invalidated, Kit!CardOf, Profile!CardOf
  <2>3. \A x \in error : x \in error' \/ x = Profile!CardOf(request[s].op)
    BY <1>8 DEF Kit!Succeed, Profile!CardOf
  <2> HIDE DEF C
  <2> QED
    BY <1>0, <2>1, <2>2, <2>3, CardSucceeds DEF C
<1>9. ASSUME NEW s \in CardSlots, Kit!Fail(s) PROVE CardsInv(C)'
  <2>1. Profile!Fail(s)
    BY <1>9 DEF Kit!Fail, Profile!Fail, Kit!CardOf, Profile!CardOf, Kit!Free, Profile!Free
  <2> QED
    BY <1>0, <2>1, CardFails
<1> QED
  BY <1>1, <1>2, <1>4, <1>5, <1>6, <1>7, <1>8, <1>9 DEF Kit!Next, Kit!OnKit, Kit!OnProfile,
     Kit!OnProducts

LEMMA ProfileNext ==
    ASSUME CardsInv({"profile", "products"}), Profile!Next
    PROVE  CardsInv({"profile", "products"})'
<1> DEFINE C == {"profile", "products"}
<1>0. C \in SUBSET AllCards /\ DOMAIN drafts = C
  BY DEF CardsInv, AllCards
<1>1. ASSUME NEW x \in Websites, Profile!EditProfile(x) PROVE CardsInv(C)'
  <2>1. /\ DOMAIN drafts' = C /\ drafts'["products"] = drafts["products"]
        /\ UNCHANGED <<settings, cache, stale, request, error>>
    BY <1>0, <1>1 DEF Profile!EditProfile
  <2> QED
    BY <1>0, <2>1, CardEdits
<1>2. ASSUME NEW s \in CardSlots, Profile!SaveProfile(s) PROVE CardsInv(C)'
  <2> DEFINE sent == <<Profile!Current("profile").website>>
  <2>1. /\ request[s].pc = "free"
        /\ request' = [request EXCEPT ![s] = [pc |-> "sent", op |-> "profile", body |-> sent]]
        /\ UNCHANGED <<settings, cache, stale, drafts, error>>
    BY <1>2 DEF Profile!SaveProfile, Profile!Send
  <2>2. "profile" \in CardOps
    BY DEF CardOps
  <2> HIDE DEF C, sent
  <2> QED
    BY <1>0, <2>1, <2>2, CardSends DEF C
<1>3. ASSUME NEW s \in CardSlots, NEW next, Profile!Update(s, next) PROVE CardsInv(C)'
  <2>1. /\ request[s].pc = "free"
        /\ request' = [request EXCEPT ![s] = [pc |-> "sent", op |-> "products", body |-> <<next>>]]
        /\ UNCHANGED <<settings, cache, stale, error>> /\ DOMAIN drafts' = C
    BY <1>0, <1>3 DEF Profile!Update, Profile!Send
  <2>2. "products" \in CardOps
    BY DEF CardOps
  <2> HIDE DEF C
  <2> QED
    BY <1>0, <2>1, <2>2, CardSends DEF C
<1>4. ASSUME NEW s \in CardSlots,
             \/ Profile!ToggleConsent(s) \/ Profile!ToggleImport(s) \/ Profile!TogglePost(s)
             \/ \E p \in Platforms : Profile!TogglePlatform(s, p)
      PROVE  CardsInv(C)'
  <2>1. \E next : Profile!Update(s, next)
    BY <1>4 DEF Profile!ToggleConsent, Profile!ToggleImport, Profile!TogglePost,
       Profile!TogglePlatform
  <2> QED
    BY <1>3, <2>1
<1>5. ASSUME NEW c \in C, Profile!Refetch(c) PROVE CardsInv(C)'
  <2>1. /\ cache' = [cache EXCEPT ![c] = Profile!Answer(c)] /\ stale' = stale \ {c}
        /\ UNCHANGED <<settings, drafts, error, request>>
    BY <1>5 DEF Profile!Refetch
  <2>2. CardsInv(C)
    OBVIOUS
  <2> HIDE DEF C
  <2> QED
    BY <1>0, <2>1, <2>2, CardRefetches
<1>6. ASSUME NEW s \in CardSlots, Profile!Land(s) PROVE CardsInv(C)'
  BY <1>0, <1>6, CardLands
<1>7. ASSUME NEW s \in CardSlots, Profile!Succeed(s) PROVE CardsInv(C)'
  <2>1. /\ request[s].pc # "free" /\ request' = [request EXCEPT ![s] = Profile!Free]
        /\ UNCHANGED <<settings, cache>> /\ DOMAIN drafts' = C
        /\ stale' = stale \cup (Profile!Invalidated(request[s].op) \cap C)
    BY <1>0, <1>7 DEF Profile!Succeed
  <2>2. /\ \A x \in error : x \in error' \/ x = Profile!CardOf(request[s].op)
        /\ drafts'["products"] \in {<<>>, drafts["products"]}
        /\ request[s].op = "products" => drafts'["products"] = <<>>
    BY <1>0, <1>7 DEF Profile!Succeed, Profile!CardOf
  <2> HIDE DEF C
  <2> QED
    BY <1>0, <2>1, <2>2, CardSucceeds DEF C
<1>8. ASSUME NEW s \in CardSlots, Profile!Fail(s) PROVE CardsInv(C)'
  BY <1>0, <1>8, CardFails
<1> QED
  BY <1>1, <1>2, <1>4, <1>5, <1>6, <1>7, <1>8 DEF Profile!Next, Profile!OnKit,
     Profile!OnProfile, Profile!OnProducts

LEMMA CardsInit == Init => ThisRun
<1> SUFFICES ASSUME Init PROVE ThisRun
  OBVIOUS
<1>1. ASSUME part = "kit" PROVE CardsInv({"kit"})
  <2>1. Kit!Init
    BY <1>1 DEF Init
  <2> QED
    BY <2>1 DEF Kit!Init, CardsInv, AllCards, CardRequest, Kit!Free, Told, Profile!Answer
<1>2. ASSUME part = "profile" PROVE CardsInv({"profile", "products"})
  <2>1. Profile!Init
    BY <1>2 DEF Init
  <2>2. DOMAIN settings = AllCards /\ cache = settings
    BY <2>1 DEF Profile!Init, AllCards
  <2>3. /\ DOMAIN drafts = {"profile", "products"} /\ drafts["products"] = <<>>
        /\ DOMAIN request = CardSlots /\ \A s \in CardSlots : CardRequest(request[s])
    BY <2>1 DEF Profile!Init, CardRequest, Profile!Free
  <2>4. Profile!Answer("profile") = cache["profile"] /\ Profile!Answer("products") = cache["products"]
    BY <2>1 DEF Profile!Init, Profile!Answer, Profile!None
  <2> QED
    BY <2>2, <2>3, <2>4 DEF CardsInv, Told, SwitchesSent
<1> QED
  BY <1>1, <1>2 DEF ThisRun

LEMMA CardsAlone ==
    [Next]_vars => /\ part' = part
                   /\ \/ part = "kit" /\ Kit!Next
                      \/ part = "profile" /\ Profile!Next
                      \/ UNCHANGED cardVars
BY DEF Next, Guards, Posts, Pages, vars, pageVars, cardVars

LEMMA CardsStand ==
    ASSUME NEW C \in SUBSET AllCards, CardsInv(C), UNCHANGED cardVars
    PROVE  CardsInv(C)'
BY DEF cardVars, CardsInv, Told, OnItsWay, SwitchesSent, CardRequest, Profile!Answer

LEMMA CardsStep == ThisRun /\ [Next]_vars => ThisRun'
<1> SUFFICES ASSUME ThisRun, [Next]_vars PROVE ThisRun'
  OBVIOUS
<1>1. {"kit"} \in SUBSET AllCards /\ {"profile", "products"} \in SUBSET AllCards
  BY DEF AllCards
<1>2. ASSUME part = "kit" PROVE CardsInv({"kit"})'
  BY <1>1, <1>2, CardsAlone, CardsStand, KitNext DEF ThisRun
<1>3. ASSUME part = "profile" PROVE CardsInv({"profile", "products"})'
  BY <1>1, <1>3, CardsAlone, CardsStand, ProfileNext DEF ThisRun
<1> QED
  BY <1>2, <1>3, CardsAlone DEF ThisRun

\* With nothing on its way and no failure shown, a settings card shows what is stored or an edit not
\* sent, and a catalogue switch never stands for something not stored
\* (settings/page.tsx, product-catalogue-card.tsx, business-profile-card.tsx).
THEOREM CardsTell == Spec => []CardsTellWhatIsStored
<1>1. ASSUME ThisRun PROVE CardsTellWhatIsStored
  <2>1. part = "kit" => Kit!CardsTellWhatIsStored
    BY <1>1 DEF ThisRun, CardsInv, Told, OnItsWay, Kit!CardsTellWhatIsStored, Kit!Answer,
       Profile!Answer
  <2>2. part = "profile" => Profile!CardsTellWhatIsStored
    BY <1>1 DEF ThisRun, CardsInv, Told, OnItsWay, SwitchesSent, Profile!CardsTellWhatIsStored
  <2> QED
    BY <2>1, <2>2 DEF CardsTellWhatIsStored
<1> QED
  BY <1>1, CardsInit, CardsStep, PTL DEF Spec

-----------------------------------------------------------------------------
(***************************************************************************)
(* The forms: what a form holds is what it was opened on, and what is on   *)
(* its way is what the form held.                                          *)
(***************************************************************************)
\* plans are numbered as they are made, so that a new one meets no old one
PlansInv ==
    /\ \E n \in Nat : DOMAIN plans = 1..n
    /\ DOMAIN planList \subseteq DOMAIN plans
    /\ DOMAIN form = DOMAIN PlanForm!EmptyForm /\ DOMAIN pending = DOMAIN PlanForm!Nothing
    /\ ~form.open => form.editing = PlanForm!New
    /\ form.editing # PlanForm!New => form.editing \in DOMAIN plans /\ form.of = form.editing
    /\ pending.id # PlanForm!New => pending.id \in DOMAIN plans /\ pending.of = pending.id

LEMMA PlansAlone == [Next]_vars => [PlanForm!Next]_(PlanForm!vars)
BY DEF Next, Guards, Posts, Pages, vars, pageVars, planVars, PlanForm!vars

LEMMA PlansInit == Init => PlansInv
<1> SUFFICES ASSUME PlanForm!Init PROVE PlansInv
  BY DEF Init
<1>1. DOMAIN plans = 1..0 /\ DOMAIN planList \subseteq DOMAIN plans
  BY DEF PlanForm!Init
<1> QED
  BY <1>1 DEF PlanForm!Init, PlansInv, PlanForm!EmptyForm, PlanForm!Nothing, PlanForm!New

\* the number a save lands on: its own plan's, or one that is not taken
Landed == IF pending.id # PlanForm!New THEN pending.id ELSE Cardinality(DOMAIN plans) + 1

LEMMA NewNumber ==
    ASSUME PlansInv
    PROVE  /\ pending.id = PlanForm!New => Landed \notin DOMAIN plans
           /\ pending.id # PlanForm!New => Landed \in DOMAIN plans /\ pending.of = Landed
           /\ \E n \in Nat : DOMAIN plans \cup {Landed} = 1..n
<1>1. PICK n \in Nat : DOMAIN plans = 1..n
  BY DEF PlansInv
<1>2. Cardinality(1..n) = n
  BY FS_Interval
<1>3. CASE pending.id = PlanForm!New
  <2>1. Landed = n + 1
    BY <1>1, <1>2, <1>3 DEF Landed
  <2>2. 1..n \cup {n + 1} = 1..(n + 1) /\ n + 1 \in Nat
    OBVIOUS
  <2> QED
    BY <2>1, <2>2, <1>1, <1>3
<1>4. CASE pending.id # PlanForm!New
  BY <1>4, <1>1 DEF PlansInv, Landed
<1> QED
  BY <1>3, <1>4

LEMMA PlanLands ==
    ASSUME PlansInv, PlanForm!Store
    PROVE  /\ DOMAIN plans' = DOMAIN plans \cup {Landed}
           /\ \A p \in DOMAIN plans : plans'[p] # plans[p] => pending.of = p
<1>1. PlanForm!Cardinality(DOMAIN plans) = Cardinality(DOMAIN plans)
  BY DEF PlanForm!Cardinality, Cardinality
<1> QED
  BY <1>1, NewNumber DEF PlanForm!Store, Landed

LEMMA PlansStep == PlansInv /\ [Next]_vars => PlansInv'
<1> SUFFICES ASSUME PlansInv, [PlanForm!Next]_(PlanForm!vars) PROVE PlansInv'
  BY PlansAlone
<1> USE DEF PlansInv, PlanForm!EmptyForm, PlanForm!Nothing
<1>1. CASE UNCHANGED PlanForm!vars
  BY <1>1 DEF PlanForm!vars
<1>2. CASE PlanForm!Store
  <2>1. DOMAIN pending' = DOMAIN pending /\ pending'.id = pending.id /\ pending'.of = pending.of
    BY <1>2 DEF PlanForm!Store
  <2>2. UNCHANGED <<planList, form>>
    BY <1>2 DEF PlanForm!Store
  <2>3. \E n \in Nat : DOMAIN plans' = 1..n
    BY <1>2, PlanLands, NewNumber
  <2> QED
    BY <1>2, <2>1, <2>2, <2>3, PlanLands
<1>3. CASE PlanForm!Refetch
  BY <1>3 DEF PlanForm!Refetch
<1>4. CASE PlanForm!Submit
  BY <1>4 DEF PlanForm!Submit
<1>5. CASE PlanForm!OpenNew
  BY <1>5 DEF PlanForm!OpenNew
<1>10. CASE PlanForm!CloseForm
  BY <1>10 DEF PlanForm!CloseForm, PlanForm!Closed
<1>11. CASE PlanForm!Succeed
  BY <1>11 DEF PlanForm!Succeed, PlanForm!Closed
<1>12. CASE PlanForm!Fail
  BY <1>12 DEF PlanForm!Fail
<1>6. ASSUME NEW p \in Platforms, PlanForm!ConnectionChanges(p) \/ PlanForm!TogglePlatform(p)
      PROVE  PlansInv'
  BY <1>6 DEF PlanForm!ConnectionChanges, PlanForm!TogglePlatform
<1>7. ASSUME NEW p \in 1..MaxPlans, PlanForm!StartEdit(p) PROVE PlansInv'
  BY <1>7 DEF PlanForm!StartEdit, PlanForm!Listed
<1>8. ASSUME NEW t \in PlanTimes, PlanForm!ToggleTime(t) PROVE PlansInv'
  BY <1>8 DEF PlanForm!ToggleTime
<1>9. ASSUME NEW l \in Looks, PlanForm!PickLook(l) PROVE PlansInv'
  BY <1>9 DEF PlanForm!PickLook
<1> QED
  BY <1>1, <1>2, <1>3, <1>4, <1>5, <1>6, <1>7, <1>8, <1>9, <1>10, <1>11, <1>12 DEF PlanForm!Next

LEMMA PlansLand ==
    PlansInv /\ [Next]_vars =>
        [\A p \in DOMAIN plans : plans'[p] # plans[p] => pending.of = p]_(PlanForm!vars)
<1> SUFFICES ASSUME PlansInv, PlanForm!Next
             PROVE  \A p \in DOMAIN plans : plans'[p] # plans[p] => pending.of = p
  BY PlansAlone
<1>1. PlanForm!Store \/ UNCHANGED plans
  BY DEF PlanForm!Next, PlanForm!Refetch, PlanForm!OpenNew, PlanForm!CloseForm, PlanForm!Submit,
     PlanForm!Succeed, PlanForm!Fail, PlanForm!ConnectionChanges, PlanForm!TogglePlatform,
     PlanForm!StartEdit, PlanForm!ToggleTime, PlanForm!PickLook
<1> QED
  BY <1>1, PlanLands

BotKeys == {"botToken", "place"}
BotsInv ==
    /\ DOMAIN fields = BotKeys /\ DOMAIN joining = {"pc", "kind", "body"}
    /\ \A key \in BotKeys : /\ fields[key] \in {Bots!Null, openForm}
                            /\ joining.body[key] = joining.kind

LEMMA BotsAlone == [Next]_vars => [Bots!Next]_(Bots!vars)
BY DEF Next, Guards, Posts, Pages, vars, pageVars, botVars, Bots!vars

LEMMA BotsInit == Init => BotsInv
BY DEF Init, Bots!Init, BotsInv, BotKeys, Bots!Empty, Bots!Idle

LEMMA BotsStep == BotsInv /\ [Next]_vars => BotsInv'
<1> SUFFICES ASSUME BotsInv, [Bots!Next]_(Bots!vars) PROVE BotsInv'
  BY BotsAlone
<1> USE DEF BotsInv, BotKeys, Bots!Empty, Bots!Idle
<1>1. CASE UNCHANGED Bots!vars
  BY <1>1 DEF Bots!vars
<1>2. CASE Bots!Submit
  BY <1>2 DEF Bots!Submit
<1>3. ASSUME Bots!Refetch \/ Bots!Store \/ Bots!Connected \/ Bots!ConnectFails PROVE BotsInv'
  BY <1>3 DEF Bots!Refetch, Bots!Store, Bots!Connected, Bots!ConnectFails
<1>4. ASSUME NEW kind \in BotKinds, Bots!ToggleForm(kind) PROVE BotsInv'
  BY <1>4 DEF Bots!ToggleForm, Bots!FieldsCleared
<1>5. ASSUME NEW key \in BotKeys, Bots!Type(key) PROVE BotsInv'
  BY <1>5 DEF Bots!Type
<1>6. ASSUME NEW r \in Bots!Rows,
             Bots!Disconnect(r) \/ Bots!Remove(r) \/ Bots!Removed(r) \/ Bots!RemoveFails(r)
      PROVE  BotsInv'
  BY <1>6 DEF Bots!Disconnect, Bots!Remove, Bots!Removed, Bots!RemoveFails
<1>7. ASSUME NEW b \in OAuthButtons,
             Bots!Authorize(b) \/ Bots!AuthorizeFails(b) \/ Bots!Leave(b) \/ Bots!Return(b)
      PROVE  BotsInv'
  BY <1>7 DEF Bots!Authorize, Bots!AuthorizeFails, Bots!Leave, Bots!Return
<1> QED
  BY <1>1, <1>2, <1>3, <1>4, <1>5, <1>6, <1>7 DEF Bots!Next

\* A plan is changed only by a save from the form that was opened on it, and a bot token reaches
\* only the platform it was typed for, whatever was opened, closed or answered in between
\* (autopilot/page.tsx editingId, connections/page.tsx openForm).
THEOREM FormsReach == Spec => FormsReachTheirTarget
<1>1. BotsInv => Bots!TokenStaysInItsForm
  BY DEF BotsInv, BotKeys, Bots!TokenStaysInItsForm, Bots!Empty
<1>2. Spec => []Bots!TokenStaysInItsForm
  BY <1>1, BotsInit, BotsStep, PTL DEF Spec
<1>3. Spec => PlanForm!EditLandsOnItsPlan
  BY PlansInit, PlansStep, PlansLand, PTL DEF Spec, PlanForm!EditLandsOnItsPlan
<1> QED
  BY <1>2, <1>3 DEF FormsReachTheirTarget

-----------------------------------------------------------------------------
(***************************************************************************)
(* The image studio: a list that was read knows of all the page was told.  *)
(***************************************************************************)
Studying(s) ==
    /\ DOMAIN s = {"start", "of", "watch", "left", "shown", "error"}
    /\ s.start = "sent" => s.of \in DOMAIN agent
    /\ s.watch # 0 => s.watch \in DOMAIN agent

\* A set of images agrees with what the page was told of.
Agrees(images) == toldOf \cap media \subseteq images /\ gone \cap images = {}

RunsGive ==
    /\ IsList(agent)
    /\ \A r \in DOMAIN agent : /\ DOMAIN agent[r] = {"agent", "status", "asset"}
                               /\ agent[r].agent = "IMAGE"
                               /\ agent[r].status = "SUCCEEDED" => agent[r].asset \in DOMAIN asset

PicturesInv ==
    /\ asset \in Seq({"IMAGE"})
    /\ RunsGive
    /\ media \subseteq DOMAIN asset /\ toldOf \subseteq DOMAIN asset
    /\ gone \subseteq DOMAIN asset \ media
    /\ DOMAIN studio = {"IMAGE"} /\ Studying(studio["IMAGE"])
    /\ DOMAIN grid = {"images", "fetch", "read", "failed"}
    /\ grid.fetch \in {"none", "asked", "read"}
    /\ grid.fetch = "read" => Agrees(grid.read)
    /\ grid.fetch = "none" /\ ~grid.failed => Agrees(grid.images)

LEMMA PicturesAlone == [Next]_vars /\ part = "pictures" => [Pictures!Next]_(Pictures!vars)
BY DEF Next, Guards, Posts, Pages, vars, postVars, studioVars, Pictures!vars

LEMMA PicturesInit == Init /\ part = "pictures" => PicturesInv
BY EmptySeq DEF Init, Pictures!Init, Pictures!Fresh, PicturesInv, RunsGive, IsList, Studying, Agrees

\* the studio moves, by a step of the page
LEMMA StudioOnly ==
    ASSUME PicturesInv, NEW s, Pictures!Set("IMAGE", s), Studying(s)',
           UNCHANGED <<agent, asset, media, grid, toldOf, gone>>
    PROVE  PicturesInv'
<1>1. DOMAIN studio' = {"IMAGE"} /\ studio'["IMAGE"] = s
  BY DEF Pictures!Set, PicturesInv
<1> QED
  BY <1>1 DEF PicturesInv, RunsGive, Agrees

\* runs that change their status keep what they gave
LEMMA RunsOnly ==
    ASSUME PicturesInv, UNCHANGED <<asset, media, grid, toldOf, gone>>, RunsGive',
           DOMAIN agent \subseteq DOMAIN agent',
           UNCHANGED studio
    PROVE  PicturesInv'
BY DEF PicturesInv, Studying, Agrees

LEMMA NotSucceeded ==
    ASSUME PicturesInv, NEW r, NEW st, st # "SUCCEEDED", UNCHANGED asset,
           agent' = [agent EXCEPT ![r].status = st]
    PROVE  RunsGive' /\ DOMAIN agent' = DOMAIN agent
<1>1. agent' = [x \in DOMAIN agent |-> agent'[x]]
      /\ \A x \in DOMAIN agent : agent'[x] = agent[x] \/ agent'[x] = [agent[x] EXCEPT !.status = st]
  <2>1. IsList(agent)
    BY DEF PicturesInv, RunsGive
  <2>2. agent = [x \in DOMAIN agent |-> agent[x]]
    BY <2>1, ListShape
  <2> QED
    BY <2>2
<1>2. IsList(agent') /\ DOMAIN agent' = DOMAIN agent
  BY <1>1, ListReplaced DEF PicturesInv, RunsGive
<1>3. ASSUME NEW x \in DOMAIN agent
      PROVE  /\ DOMAIN agent'[x] = {"agent", "status", "asset"} /\ agent'[x].agent = "IMAGE"
             /\ agent'[x].status = "SUCCEEDED" => agent'[x].asset \in DOMAIN asset
  BY <1>1 DEF PicturesInv, RunsGive
<1> QED
  BY <1>2, <1>3 DEF RunsGive

\* an image comes, and the page hears of it at once or not yet
LEMMA NewImage ==
    ASSUME PicturesInv
    PROVE  LET new == Len(asset) + 1
           IN  /\ Append(asset, "IMAGE") \in Seq({"IMAGE"})
               /\ DOMAIN Append(asset, "IMAGE") = DOMAIN asset \cup {new}
               /\ new \notin DOMAIN asset
<1>1. asset \in Seq({"IMAGE"})
  BY DEF PicturesInv
<1>2. /\ Append(asset, "IMAGE") \in Seq({"IMAGE"})
      /\ Len(Append(asset, "IMAGE")) = Len(asset) + 1
  BY <1>1, AppendProperties
<1> QED
  BY <1>1, <1>2

LEMMA Unheard ==
    ASSUME PicturesInv, asset' = Append(asset, "IMAGE"), media' = media \cup {Len(asset) + 1},
           UNCHANGED <<grid, toldOf, gone>>, RunsGive', DOMAIN agent \subseteq DOMAIN agent',
           DOMAIN studio' = {"IMAGE"}, Studying(studio["IMAGE"])'
    PROVE  PicturesInv'
<1> DEFINE new == Len(asset) + 1
<1>1. /\ asset' \in Seq({"IMAGE"}) /\ DOMAIN asset' = DOMAIN asset \cup {new}
      /\ new \notin DOMAIN asset
  BY NewImage
<1>2. media' = media \cup {new}
  OBVIOUS
<1> HIDE DEF new
<1>3. \A images : Agrees(images) => Agrees(images)'
  BY <1>1, <1>2 DEF PicturesInv, Agrees
<1> QED
  BY <1>1, <1>2, <1>3 DEF PicturesInv

\* the list is asked for again: whatever a reading had found is dropped
LEMMA AskedAgain ==
    ASSUME PicturesInv, grid' = Pictures!Invalidated(grid), UNCHANGED agent,
           asset' \in Seq({"IMAGE"}), DOMAIN asset \subseteq DOMAIN asset',
           media' \subseteq DOMAIN asset', toldOf' \subseteq DOMAIN asset',
           gone' \subseteq DOMAIN asset' \ media',
           DOMAIN studio' = {"IMAGE"}, Studying(studio["IMAGE"])'
    PROVE  PicturesInv'
<1>1. DOMAIN grid' = {"images", "fetch", "read", "failed"} /\ grid'.fetch = "asked"
  BY DEF PicturesInv, Pictures!Invalidated
<1>2. RunsGive'
  BY DEF PicturesInv, RunsGive
<1> QED
  BY <1>1, <1>2 DEF PicturesInv

LEMMA Typed ==
    ASSUME PicturesInv
    PROVE  /\ DOMAIN studio = {"IMAGE"} /\ Studying(studio["IMAGE"])
           /\ DOMAIN studio["IMAGE"] = {"start", "of", "watch", "left", "shown", "error"}
BY DEF PicturesInv, Studying

\* what is being watched and what was sent stay
LEMMA StudioKeeps ==
    ASSUME PicturesInv, NEW x, Pictures!Set("IMAGE", x), DOMAIN x = DOMAIN studio["IMAGE"],
           x.start \in {studio["IMAGE"].start, "asked", "idle"},
           x.of = studio["IMAGE"].of, x.watch = studio["IMAGE"].watch,
           UNCHANGED <<agent, asset, media, grid, toldOf, gone>>
    PROVE  PicturesInv'
<1>1. Studying(x)'
  BY Typed DEF Studying
<1> QED
  BY <1>1, StudioOnly

\* steps of the studio alone
LEMMA StudioSteps ==
    ASSUME PicturesInv,
           \/ Pictures!Generate("IMAGE") \/ Pictures!Refused("IMAGE") \/ Pictures!Pick("IMAGE")
    PROVE  PicturesInv'
<1> DEFINE s == studio["IMAGE"]
<1>2. CASE Pictures!Generate("IMAGE")
  <2> DEFINE x == [s EXCEPT !.start = "asked", !.error = FALSE, !.shown = 0]
  <2>1. DOMAIN x = DOMAIN s /\ x.start = "asked" /\ x.of = s.of /\ x.watch = s.watch
    BY Typed
  <2>2. Pictures!Set("IMAGE", x) /\ UNCHANGED <<agent, asset, media, grid, toldOf, gone>>
    BY <1>2 DEF Pictures!Generate
  <2> HIDE DEF x
  <2> QED
    BY <2>1, <2>2, StudioKeeps
<1>3. CASE Pictures!Refused("IMAGE")
  <2> DEFINE x == [s EXCEPT !.start = "idle", !.error = TRUE]
  <2>1. DOMAIN x = DOMAIN s /\ x.start = "idle" /\ x.of = s.of /\ x.watch = s.watch
    BY Typed
  <2>2. Pictures!Set("IMAGE", x) /\ UNCHANGED <<agent, asset, media, grid, toldOf, gone>>
    BY <1>3 DEF Pictures!Refused
  <2> HIDE DEF x
  <2> QED
    BY <2>1, <2>2, StudioKeeps
<1>4. CASE Pictures!Pick("IMAGE")
  <2>1. PICK n : Pictures!Set("IMAGE", [s EXCEPT !.left = n, !.error = FALSE])
    BY <1>4 DEF Pictures!Pick
  <2> DEFINE x == [s EXCEPT !.left = n, !.error = FALSE]
  <2>2. DOMAIN x = DOMAIN s /\ x.start = s.start /\ x.of = s.of /\ x.watch = s.watch
    BY Typed
  <2>3. Pictures!Set("IMAGE", x) /\ UNCHANGED <<agent, asset, media, grid, toldOf, gone>>
    BY <1>4, <2>1 DEF Pictures!Pick
  <2> HIDE DEF x
  <2> QED
    BY <2>2, <2>3, StudioKeeps
<1> QED
  BY <1>2, <1>3, <1>4

LEMMA EnqueueStep ==
    ASSUME PicturesInv, Pictures!Enqueue("IMAGE")
    PROVE  PicturesInv'
<1> DEFINE r == [agent |-> "IMAGE", status |-> "QUEUED", asset |-> 0]
           x == [studio["IMAGE"] EXCEPT !.start = "sent", !.of = Len(agent) + 1]
<1>1. agent' = Append(agent, r) /\ Pictures!Set("IMAGE", x)
      /\ UNCHANGED <<asset, media, grid, toldOf, gone>>
  BY DEF Pictures!Enqueue
<1>2. IsList(agent) /\ Len(agent) \in Nat
  BY ListShape DEF PicturesInv, RunsGive
<1>3. DOMAIN r = {"agent", "status", "asset"} /\ r.agent = "IMAGE" /\ r.status = "QUEUED"
  OBVIOUS
<1> HIDE DEF r
<1>4. Extends(agent', agent, {r})
  BY <1>1, <1>2, OneMore
<1>5. Len(agent) + 1 \in DOMAIN agent'
  BY <1>1, <1>2 DEF IsList
<1>6. DOMAIN x = {"start", "of", "watch", "left", "shown", "error"} /\ x.of = Len(agent) + 1
      /\ x.watch = studio["IMAGE"].watch
  BY Typed
<1>7. DOMAIN studio' = {"IMAGE"} /\ studio'["IMAGE"] = x
  BY <1>1, Typed DEF Pictures!Set
<1> HIDE DEF x
<1>8. Studying(studio["IMAGE"])'
  BY <1>4, <1>5, <1>6, <1>7, Typed DEF Studying, Extends
<1>9. RunsGive'
  BY <1>1, <1>3, <1>4 DEF Extends, PicturesInv, RunsGive
<1> QED
  BY <1>1, <1>7, <1>8, <1>9 DEF PicturesInv, Agrees

LEMMA AcceptedStep ==
    ASSUME PicturesInv, Pictures!Accepted("IMAGE")
    PROVE  PicturesInv'
<1> DEFINE s == studio["IMAGE"]
           x == [s EXCEPT !.start = "idle", !.watch = s.of, !.of = 0]
           y == [s EXCEPT !.start = "idle", !.of = 0, !.error = TRUE]
<1>1. /\ s.start = "sent" /\ UNCHANGED <<asset, media, grid, toldOf, gone>>
      /\ \/ UNCHANGED agent /\ (Pictures!Set("IMAGE", x) \/ Pictures!Set("IMAGE", y))
         \/ agent' = [agent EXCEPT ![s.of].status = "FAILED"] /\ Pictures!Set("IMAGE", y)
  BY DEF Pictures!Accepted
<1>2. RunsGive' /\ DOMAIN agent' = DOMAIN agent
  <2>1. CASE agent' = [agent EXCEPT ![s.of].status = "FAILED"]
    BY <1>1, <2>1, NotSucceeded
  <2>2. CASE UNCHANGED agent
    BY <1>1, <2>2 DEF PicturesInv, RunsGive
  <2> QED
    BY <1>1, <2>1, <2>2
<1>3. /\ DOMAIN x = DOMAIN s /\ x.start = "idle" /\ x.watch = s.of
      /\ DOMAIN y = DOMAIN s /\ y.start = "idle" /\ y.watch = s.watch
  BY Typed
<1>4. DOMAIN studio' = {"IMAGE"} /\ studio'["IMAGE"] \in {x, y}
  BY <1>1, Typed DEF Pictures!Set
<1> HIDE DEF x, y
<1>5. Studying(studio["IMAGE"])'
  BY <1>1, <1>2, <1>3, <1>4, Typed DEF Studying
<1> QED
  BY <1>1, <1>2, <1>4, <1>5 DEF PicturesInv, Agrees

\* the task and the reaper
LEMMA RunSteps ==
    ASSUME PicturesInv, NEW r \in DOMAIN agent,
           \/ Pictures!Start(r) \/ Pictures!Fail(r) \/ Pictures!Acknowledge(r)
           \/ Pictures!WorkerDies(r) \/ Pictures!Reap(r)
    PROVE  PicturesInv'
<1>1. /\ UNCHANGED <<asset, media, grid, studio, toldOf, gone>>
      /\ \/ UNCHANGED agent
         \/ \E st \in {"RUNNING", "FAILED"} : agent' = [agent EXCEPT ![r].status = st]
  BY DEF Pictures!Start, Pictures!Fail, Pictures!Acknowledge, Pictures!WorkerDies, Pictures!Reap
<1>2. RunsGive' /\ DOMAIN agent' = DOMAIN agent
  <2>1. CASE UNCHANGED agent
    BY <1>1, <2>1 DEF PicturesInv, RunsGive
  <2>2. ASSUME NEW st \in {"RUNNING", "FAILED"}, agent' = [agent EXCEPT ![r].status = st]
        PROVE  RunsGive' /\ DOMAIN agent' = DOMAIN agent
    BY <1>1, <2>2, NotSucceeded
  <2> QED
    BY <1>1, <2>1, <2>2
<1> QED
  BY <1>1, <1>2, RunsOnly

LEMMA StoreStep ==
    ASSUME PicturesInv, NEW r \in DOMAIN agent, Pictures!Store(r)
    PROVE  PicturesInv'
<1> DEFINE new == Len(asset) + 1
           x == [agent[r] EXCEPT !.status = "SUCCEEDED", !.asset = new]
<1>1. /\ DOMAIN agent[r] = {"agent", "status", "asset"} /\ agent[r].agent = "IMAGE"
      /\ IsList(agent)
  BY DEF PicturesInv, RunsGive
<1>2. /\ asset' = Append(asset, "IMAGE") /\ media' = media \cup {new}
      /\ UNCHANGED <<studio, grid, toldOf, gone>>
  BY <1>1 DEF Pictures!Store
<1>3. agent' = [agent EXCEPT ![r] = x]
  BY <1>1 DEF Pictures!Store
<1>4. DOMAIN x = {"agent", "status", "asset"} /\ x.agent = "IMAGE" /\ x.asset = new
  BY <1>1
<1>5. DOMAIN asset' = DOMAIN asset \cup {new}
  BY <1>2, NewImage
<1> HIDE DEF x, new
<1>6. agent' = [y \in DOMAIN agent |-> agent'[y]] /\ \A y \in DOMAIN agent : agent'[y] \in {agent[y], x}
  <2>1. agent = [y \in DOMAIN agent |-> agent[y]]
    BY <1>1, ListShape
  <2> QED
    BY <1>3, <2>1
<1>7. IsList(agent') /\ DOMAIN agent' = DOMAIN agent
  BY <1>1, <1>6, ListReplaced
<1>8. RunsGive'
  BY <1>4, <1>5, <1>6, <1>7 DEF PicturesInv, RunsGive
<1>9. DOMAIN studio' = {"IMAGE"} /\ Studying(studio["IMAGE"])'
  BY <1>2, <1>7, Typed DEF Studying
<1> QED
  BY <1>2, <1>7, <1>8, <1>9, Unheard DEF new

LEMMA PollStep ==
    ASSUME PicturesInv, Pictures!Poll("IMAGE")
    PROVE  PicturesInv'
<1> DEFINE s == studio["IMAGE"]
           x == [s EXCEPT !.watch = 0]
           y == [s EXCEPT !.watch = 0, !.error = TRUE]
<1>1. /\ DOMAIN x = DOMAIN s /\ x.start = s.start /\ x.of = s.of /\ x.watch = 0
      /\ DOMAIN y = DOMAIN s /\ y.start = s.start /\ y.of = s.of /\ y.watch = 0
  BY Typed
<1>2. s.watch \in DOMAIN agent /\ UNCHANGED <<agent, asset, media, gone>>
  BY Typed DEF Studying, Pictures!Poll
<1>3. \/ /\ agent[s.watch].status = "SUCCEEDED" /\ Pictures!Set("IMAGE", x)
         /\ grid' = Pictures!Invalidated(grid) /\ toldOf' = toldOf \cup {agent[s.watch].asset}
      \/ Pictures!Set("IMAGE", y) /\ UNCHANGED <<grid, toldOf>>
  BY DEF Pictures!Poll
<1>4. DOMAIN studio' = {"IMAGE"} /\ studio'["IMAGE"] \in {x, y}
  BY <1>3, Typed DEF Pictures!Set
<1> HIDE DEF x, y
<1>5. Studying(studio["IMAGE"])'
  BY <1>1, <1>2, <1>4, Typed DEF Studying
<1>6. CASE UNCHANGED <<grid, toldOf>>
  BY <1>2, <1>4, <1>5, <1>6 DEF PicturesInv, RunsGive, Agrees
<1>7. CASE /\ agent[s.watch].status = "SUCCEEDED" /\ grid' = Pictures!Invalidated(grid)
           /\ toldOf' = toldOf \cup {agent[s.watch].asset}
  <2>1. toldOf' \subseteq DOMAIN asset
    BY <1>2, <1>7 DEF PicturesInv, RunsGive
  <2> QED
    BY <1>2, <1>4, <1>5, <1>7, <2>1, AskedAgain DEF PicturesInv
<1> QED
  BY <1>3, <1>6, <1>7

LEMMA UploadStep ==
    ASSUME PicturesInv, Pictures!Upload("IMAGE")
    PROVE  PicturesInv'
<1> DEFINE s == studio["IMAGE"]
           new == Len(asset) + 1
           x == [s EXCEPT !.left = s.left - 1, !.shown = s.shown]
<1>1. /\ asset' = Append(asset, "IMAGE") /\ media' = media \cup {new} /\ UNCHANGED <<agent, gone>>
      /\ Pictures!Set("IMAGE", x)
      /\ \/ grid' = Pictures!Invalidated(grid) /\ toldOf' = toldOf \cup {new}
         \/ UNCHANGED <<grid, toldOf>>
  BY DEF Pictures!Upload
<1>2. DOMAIN x = DOMAIN s /\ x.start = s.start /\ x.of = s.of /\ x.watch = s.watch
  BY Typed
<1>3. DOMAIN studio' = {"IMAGE"} /\ studio'["IMAGE"] = x
  BY <1>1, Typed DEF Pictures!Set
<1> HIDE DEF x
<1>4. Studying(studio["IMAGE"])'
  BY <1>1, <1>2, <1>3, Typed DEF Studying
<1>5. /\ asset' \in Seq({"IMAGE"}) /\ DOMAIN asset' = DOMAIN asset \cup {new}
      /\ new \notin DOMAIN asset
  BY <1>1, NewImage
<1>6. CASE UNCHANGED <<grid, toldOf>>
  <2>1. RunsGive'
    BY <1>1, <1>5 DEF PicturesInv, RunsGive
  <2> QED
    BY <1>1, <1>3, <1>4, <1>6, <2>1, Unheard
<1>7. CASE grid' = Pictures!Invalidated(grid) /\ toldOf' = toldOf \cup {new}
  <2> HIDE DEF new
  <2>1. /\ media' \subseteq DOMAIN asset' /\ toldOf' \subseteq DOMAIN asset'
        /\ gone' \subseteq DOMAIN asset' \ media' /\ DOMAIN asset \subseteq DOMAIN asset'
    BY <1>1, <1>5, <1>7 DEF PicturesInv
  <2> QED
    BY <1>1, <1>3, <1>4, <1>5, <1>7, <2>1, AskedAgain
<1> QED
  BY <1>1, <1>6, <1>7

LEMMA UploadFailsStep ==
    ASSUME PicturesInv, Pictures!UploadFails("IMAGE")
    PROVE  PicturesInv'
<1> DEFINE s == studio["IMAGE"]
           x == [s EXCEPT !.left = 0, !.error = TRUE]
<1>1. /\ Pictures!Set("IMAGE", x) /\ UNCHANGED <<agent, grid, toldOf, gone>>
      /\ \/ UNCHANGED <<asset, media>>
         \/ asset' = Append(asset, "IMAGE") /\ media' = media \cup {Len(asset) + 1}
  BY DEF Pictures!UploadFails
<1>2. DOMAIN x = DOMAIN s /\ x.start = s.start /\ x.of = s.of /\ x.watch = s.watch
  BY Typed
<1>3. DOMAIN studio' = {"IMAGE"} /\ studio'["IMAGE"] = x
  BY <1>1, Typed DEF Pictures!Set
<1> HIDE DEF x
<1>4. Studying(studio["IMAGE"])'
  BY <1>1, <1>2, <1>3, Typed DEF Studying
<1>5. CASE UNCHANGED <<asset, media>>
  BY <1>1, <1>3, <1>4, <1>5 DEF PicturesInv, RunsGive, Agrees
<1>6. CASE asset' = Append(asset, "IMAGE") /\ media' = media \cup {Len(asset) + 1}
  <2>1. DOMAIN asset \subseteq DOMAIN asset'
    BY <1>6, NewImage
  <2>2. RunsGive'
    BY <1>1, <2>1 DEF PicturesInv, RunsGive
  <2> QED
    BY <1>1, <1>3, <1>4, <1>6, <2>2, Unheard
<1> QED
  BY <1>1, <1>5, <1>6

LEMMA DeletedStep ==
    ASSUME PicturesInv, NEW a \in DOMAIN asset, Pictures!Deleted(a)
    PROVE  PicturesInv'
<1>1. UNCHANGED <<agent, asset, toldOf>> /\ media' = media \ {a}
  BY DEF Pictures!Deleted
<1>2. CASE a \in media
  <2>1. grid' = Pictures!Invalidated(grid) /\ gone' = gone \cup {a} /\ UNCHANGED studio
    BY <1>2 DEF Pictures!Deleted
  <2>2. /\ media' \subseteq DOMAIN asset' /\ gone' \subseteq DOMAIN asset' \ media'
        /\ toldOf' \subseteq DOMAIN asset' /\ asset' \in Seq({"IMAGE"})
    BY <1>1, <2>1 DEF PicturesInv
  <2>3. DOMAIN studio' = {"IMAGE"} /\ Studying(studio["IMAGE"])'
    BY <1>1, <2>1, Typed DEF Studying
  <2> QED
    BY <1>1, <2>1, <2>2, <2>3, AskedAgain
<1>3. CASE a \notin media
  <2> DEFINE x == [studio["IMAGE"] EXCEPT !.error = TRUE]
  <2>1. Pictures!Set("IMAGE", x) /\ UNCHANGED <<grid, gone>> /\ media' = media
    BY <1>1, <1>3 DEF Pictures!Deleted
  <2>2. /\ DOMAIN x = DOMAIN studio["IMAGE"] /\ x.start = studio["IMAGE"].start
        /\ x.of = studio["IMAGE"].of /\ x.watch = studio["IMAGE"].watch
    BY Typed
  <2> HIDE DEF x
  <2> QED
    BY <1>1, <2>1, <2>2, StudioKeeps
<1> QED
  BY <1>2, <1>3

LEMMA ListSteps ==
    ASSUME PicturesInv, Pictures!ListRead \/ Pictures!ListArrives
    PROVE  PicturesInv'
<1>1. UNCHANGED <<agent, asset, media, studio, toldOf, gone>>
  BY DEF Pictures!ListRead, Pictures!ListArrives
<1>2. \A images : Agrees(images)' = Agrees(images)
  BY <1>1 DEF Agrees
<1>3. RunsGive' /\ Studying(studio["IMAGE"])'
  BY <1>1 DEF PicturesInv, RunsGive, Studying
<1>4. CASE Pictures!ListRead
  <2>1. Pictures!Images(media) = media
    BY DEF Pictures!Images, PicturesInv
  <2>2. Agrees(media)
    BY DEF Agrees, PicturesInv
  <2>3. grid' = [grid EXCEPT !.fetch = "read", !.read = media]
    BY <1>4, <2>1 DEF Pictures!ListRead
  <2> QED
    BY <1>1, <1>2, <1>3, <2>2, <2>3 DEF PicturesInv
<1>5. CASE Pictures!ListArrives
  <2>1. /\ grid.fetch = "read"
        /\ \/ grid' = [images |-> grid.read, fetch |-> "none", read |-> {}, failed |-> FALSE]
           \/ grid' = [grid EXCEPT !.fetch = "none", !.read = {}, !.failed = TRUE]
    BY <1>5 DEF Pictures!ListArrives
  <2>2. DOMAIN grid = {"images", "fetch", "read", "failed"}
    BY <1>2, <2>1 DEF PicturesInv
  <2>3. /\ DOMAIN grid' = {"images", "fetch", "read", "failed"} /\ grid'.fetch = "none"
        /\ grid'.images = grid.read \/ grid'.failed
    <3>1. CASE grid' = [images |-> grid.read, fetch |-> "none", read |-> {}, failed |-> FALSE]
      BY <3>1
    <3>2. CASE grid' = [grid EXCEPT !.fetch = "none", !.read = {}, !.failed = TRUE]
      <4>1. DOMAIN grid' = DOMAIN grid /\ grid'.fetch = "none" /\ grid'.failed = TRUE
        BY <2>2, <3>2
      <4> QED
        BY <2>2, <4>1
    <3> QED
      BY <2>1, <3>1, <3>2
  <2>4. ~grid'.failed => Agrees(grid.images)'
    BY <1>2, <2>1, <2>3 DEF PicturesInv
  <2> QED
    BY <1>1, <1>3, <2>3, <2>4 DEF PicturesInv
<1> QED
  BY <1>4, <1>5

LEMMA PicturesStep == PicturesInv /\ part = "pictures" /\ [Next]_vars => PicturesInv'
<1> SUFFICES ASSUME PicturesInv, [Pictures!Next]_(Pictures!vars) PROVE PicturesInv'
  BY PicturesAlone
<1>1. CASE UNCHANGED Pictures!vars
  BY <1>1 DEF Pictures!vars, PicturesInv, RunsGive, Studying, Agrees
<1>2. CASE \/ Pictures!Generate("IMAGE") \/ Pictures!Enqueue("IMAGE") \/ Pictures!Refused("IMAGE")
           \/ Pictures!Accepted("IMAGE") \/ Pictures!Poll("IMAGE") \/ Pictures!Pick("IMAGE")
           \/ Pictures!Upload("IMAGE") \/ Pictures!UploadFails("IMAGE")
  BY <1>2, StudioSteps, EnqueueStep, AcceptedStep, PollStep, UploadStep, UploadFailsStep
<1>3. ASSUME NEW r \in DOMAIN agent,
             \/ Pictures!Start(r) \/ Pictures!Store(r) \/ Pictures!Fail(r)
             \/ Pictures!Acknowledge(r) \/ Pictures!WorkerDies(r) \/ Pictures!Reap(r)
      PROVE  PicturesInv'
  BY <1>3, RunSteps, StoreStep
<1>4. ASSUME NEW a \in DOMAIN asset, Pictures!Discard(a) \/ Pictures!Deleted(a)
      PROVE  PicturesInv'
  <2>1. CASE Pictures!Discard(a)
    BY <2>1 DEF Pictures!Discard, PicturesInv, RunsGive, Studying, Agrees
  <2> QED
    BY <1>4, <2>1, DeletedStep
<1>5. CASE Pictures!ListRead \/ Pictures!ListArrives
  BY <1>5, ListSteps
<1> QED
  BY <1>1, <1>2, <1>3, <1>4, <1>5 DEF Pictures!Next, Pictures!Runs

\* In whichever order uploads, runs, removals and lists overtake each other, for any
\* number of each: once the list has come, the image studio shows every image whose
\* upload or run it was told of and none whose removal it was told of.
THEOREM GridShows == Spec => []GridShowsWhatWasReported
<1> DEFINE Inv == part = "pictures" => PicturesInv
<1>1. Init => Inv
  BY PicturesInit
<1>2. Inv /\ [Next]_vars => Inv'
  <2>1. [Next]_vars => UNCHANGED part
    BY DEF Next, vars
  <2> QED
    BY <2>1, PicturesStep
<1>3. Inv => GridShowsWhatWasReported
  BY DEF PicturesInv, Agrees, GridShowsWhatWasReported, Pictures!GridShowsWhatWasReported
<1> QED
  BY <1>1, <1>2, <1>3, PTL DEF Spec

-----------------------------------------------------------------------------
(***************************************************************************)
(* The account page: while its requests go one at a time, what it shows    *)
(* differs from the account only by the answer it waits for, or while a    *)
(* refresh is due.                                                         *)
(***************************************************************************)
CardKeys == {"setup", "done", "off", "disabling"}
AccountTyped ==
    /\ DOMAIN mine = {"name", "email", "mfa", "secret", "version"}
    /\ mine.mfa \in BOOLEAN /\ mine.version \in Nat
    /\ bearer \in Nat /\ bearer <= mine.version
    /\ DOMAIN card = CardKeys /\ card.done \in BOOLEAN /\ card.off \in BOOLEAN
    /\ DOMAIN sending = Account!Ops
    /\ \A op \in Account!Ops : DOMAIN sending[op] = {"pc", "body", "user"}
    /\ \A op \in Account!Ops : sending[op].pc \in {"free", "sent", "answered"}

Answered(op) == sending[op].pc = "answered"

\* its name and address
Known ==
    IF Answered("name") \/ Answered("email")
    THEN \A op \in {"name", "email"} : Answered(op) => sending[op].user = <<Account!Public(mine)>>
    ELSE me.name = mine.name /\ me.email = mine.email

\* its second factor
Guarded ==
    /\ me.mfa \in BOOLEAN
    /\ bearer = mine.version => me.mfa = mine.mfa
    /\ card.done => mine.mfa \/ Answered("disable")
    /\ card.off => ~mine.mfa /\ sending["enable"].pc = "free"
    /\ Answered("enable") => mine.mfa
    /\ Answered("disable") => ~mine.mfa
    /\ \/ Answered("enable") \/ Answered("disable")
       \/ sending["setup"].pc = "sent" /\ bearer # mine.version
       \/ Account!SaysOn <=> mine.mfa

AccountInv ==
    /\ AccountTyped
    /\ ~unsure =>
          /\ \A op, other \in Account!Pending : op = other
          /\ Known /\ Guarded

LEMMA AccountAlone == [Next]_vars => [Account!Next]_(Account!vars)
BY DEF Next, Guards, Posts, Pages, vars, callerVars, accountVars, Account!vars, Account!drafts

LEMMA AccountInit == Init => AccountInv
<1> SUFFICES ASSUME Init PROVE AccountInv
  OBVIOUS
<1>1. /\ DOMAIN mine = {"name", "email", "mfa", "secret", "version"}
      /\ mine.mfa \in BOOLEAN /\ mine.version = 0
  BY DEF Init, Account!Init
<1>2. /\ me = Account!Public(mine) /\ bearer = 0 /\ card = Account!Fresh
      /\ sending = [op \in Account!Ops |-> Account!Free]
  BY DEF Init, Account!Init
<1>3. /\ DOMAIN card = CardKeys /\ card.done = FALSE /\ card.off = FALSE
      /\ me.name = mine.name /\ me.email = mine.email /\ me.mfa = mine.mfa
      /\ \A op \in Account!Ops : /\ DOMAIN sending[op] = {"pc", "body", "user"}
                                 /\ sending[op].pc = "free"
  BY <1>2 DEF Account!Fresh, Account!Free, Account!Public, CardKeys
<1>4. \A op \in {"name", "email", "setup", "enable", "disable"} : sending[op].pc = "free"
  BY <1>3 DEF Account!Ops, Account!Mfa
<1>5. AccountTyped
  <2>1. DOMAIN sending = Account!Ops /\ bearer = 0
    BY <1>2
  <2>2. card.done \in BOOLEAN /\ card.off \in BOOLEAN
    BY <1>3
  <2>3. \A op \in Account!Ops : sending[op].pc \in {"free", "sent", "answered"}
    BY <1>3
  <2> QED
    BY <1>1, <1>3, <2>1, <2>2, <2>3 DEF AccountTyped
<1>6. Account!Pending = {}
  BY <1>3 DEF Account!Pending
<1>7. Known /\ Guarded
  BY <1>1, <1>3, <1>4 DEF Known, Guarded, Answered, Account!SaysOn
<1> QED
  BY <1>5, <1>6, <1>7 DEF AccountInv

LEMMA Typing ==
    ASSUME AccountInv, UNCHANGED <<mine, me, bearer, sending, unsure>>,
           card' = card \/ \E b : card' = [card EXCEPT !.disabling = b]
    PROVE  AccountInv'
<1>1. /\ DOMAIN card' = CardKeys /\ card'.done = card.done /\ card'.off = card.off
  BY DEF AccountInv, AccountTyped, CardKeys
<1> QED
  BY <1>1 DEF AccountInv, AccountTyped, Answered, Known, Guarded, Account!SaysOn, Account!Pending

\* one that is alone on its way, or none
LEMMA Alone ==
    ASSUME AccountInv, ~unsure, NEW op \in Account!Ops, sending[op].pc # "free"
    PROVE  \A other \in Account!Ops \ {op} : sending[other].pc = "free"
BY DEF AccountInv, Account!Pending

LEMMA OpNames ==
    Account!Ops = {"name", "email", "password", "setup", "enable", "disable"}
BY DEF Account!Ops, Account!Mfa

LEMMA SendStep ==
    ASSUME AccountInv, NEW op \in Account!Ops, NEW held, Account!Send(op, held),
           UNCHANGED <<mine, me, bearer>>,
           \/ card' = card /\ (op = "enable" => ~card.off)
           \/ op = "setup" /\ card' = [card EXCEPT !.off = FALSE] /\ ~Account!SaysOn
    PROVE  AccountInv'
<1> DEFINE x == [Account!Free EXCEPT !.pc = "sent", !.body = held]
<1>1. /\ sending' = [sending EXCEPT ![op] = x] /\ sending[op].pc = "free"
      /\ unsure' = (unsure \/ Account!Pending # {})
  BY DEF Account!Send
<1>2. DOMAIN x = {"pc", "body", "user"} /\ x.pc = "sent"
  BY DEF Account!Free
<1> HIDE DEF x
<1>3. /\ DOMAIN sending' = Account!Ops /\ sending'[op] = x
      /\ \A other \in Account!Ops \ {op} : sending'[other] = sending[other]
  BY <1>1 DEF AccountInv, AccountTyped
<1>4. /\ DOMAIN card' = CardKeys /\ card'.done = card.done
      /\ \/ card' = card /\ (op = "enable" => ~card.off)
         \/ op = "setup" /\ card'.off = FALSE /\ ~Account!SaysOn
  BY DEF AccountInv, AccountTyped, CardKeys
<1>5. AccountTyped'
  <2>1. card'.done \in BOOLEAN /\ card'.off \in BOOLEAN
    BY <1>4 DEF AccountInv, AccountTyped
  <2>2. \A other \in Account!Ops : /\ DOMAIN sending'[other] = {"pc", "body", "user"}
                                   /\ sending'[other].pc \in {"free", "sent", "answered"}
    BY <1>2, <1>3 DEF AccountInv, AccountTyped
  <2> QED
    BY <1>3, <1>4, <2>1, <2>2 DEF AccountInv, AccountTyped
<1>6. ASSUME ~unsure'
      PROVE  (\A p, q \in Account!Pending : p = q)' /\ Known' /\ Guarded'
  <2>1. ~unsure /\ Account!Pending = {}
    BY <1>1, <1>6
  <2>2. \A other \in Account!Ops : sending[other].pc = "free"
    BY <2>1 DEF Account!Pending
  <2>3. \A other \in Account!Ops : ~Answered(other) /\ ~Answered(other)'
    BY <1>2, <1>3, <2>2 DEF Answered
  <2>4. (\A p, q \in Account!Pending : p = q)'
    BY <1>3, <2>2 DEF Account!Pending
  <2>5. Known'
    BY <2>1, <2>3, OpNames DEF AccountInv, Known
  <2>6. Known /\ Guarded
    BY <2>1 DEF AccountInv
  <2>7. Account!SaysOn <=> mine.mfa
    BY <2>2, <2>3, <2>6, OpNames DEF Guarded
  <2>8. Guarded'
    <3>1. CASE card' = card /\ (op = "enable" => ~card.off)
      BY <1>3, <2>2, <2>3, <2>6, <2>7, <3>1, OpNames DEF Guarded, Account!SaysOn
    <3>2. CASE op = "setup" /\ card'.off = FALSE /\ ~Account!SaysOn
      BY <1>2, <1>3, <1>4, <2>2, <2>3, <2>6, <2>7, <3>2, OpNames
         DEF Guarded, Account!SaysOn, AccountInv, AccountTyped
    <3> QED
      BY <1>4, <3>1, <3>2
  <2> QED
    BY <2>4, <2>5, <2>8
<1> QED
  BY <1>5, <1>6 DEF AccountInv

LEMMA SendSteps ==
    ASSUME AccountInv,
           \/ Account!SaveName \/ Account!SaveEmail \/ Account!SavePassword
           \/ Account!StartMfa \/ Account!EnableMfa \/ Account!DisableMfa
    PROVE  AccountInv'
<1>1. CASE Account!SaveName
  BY <1>1, SendStep, OpNames DEF Account!SaveName
<1>2. CASE Account!SaveEmail
  BY <1>2, SendStep, OpNames DEF Account!SaveEmail
<1>3. CASE Account!SavePassword
  BY <1>3, SendStep, OpNames DEF Account!SavePassword
<1>4. CASE Account!StartMfa
  BY <1>4, SendStep, OpNames DEF Account!StartMfa, Account!SendMfa
<1>5. CASE Account!EnableMfa
  BY <1>5, SendStep, OpNames DEF Account!EnableMfa, Account!SendMfa
<1>6. CASE Account!DisableMfa
  BY <1>6, SendStep, OpNames DEF Account!DisableMfa, Account!SendMfa
<1> QED
  BY <1>1, <1>2, <1>3, <1>4, <1>5, <1>6

\* one request moves on, and nothing is sent
LEMMA RequestMoves ==
    ASSUME AccountInv, NEW op \in Account!Ops, NEW x, sending' = [sending EXCEPT ![op] = x],
           DOMAIN x = {"pc", "body", "user"}, x.pc \in {"free", "sent", "answered"},
           sending[op].pc # "free"
    PROVE  /\ DOMAIN sending' = Account!Ops /\ sending'[op] = x
           /\ \A other \in Account!Ops \ {op} : sending'[other] = sending[other]
           /\ \A other \in Account!Ops : DOMAIN sending'[other] = {"pc", "body", "user"}
           /\ \A other \in Account!Ops : sending'[other].pc \in {"free", "sent", "answered"}
           /\ (\A p, q \in Account!Pending : p = q) => (\A p, q \in Account!Pending : p = q)'
<1>1. /\ DOMAIN sending' = Account!Ops /\ sending'[op] = x
      /\ \A other \in Account!Ops \ {op} : sending'[other] = sending[other]
  BY DEF AccountInv, AccountTyped
<1>2. Account!Pending' \subseteq Account!Pending
  BY <1>1 DEF Account!Pending
<1> QED
  BY <1>1, <1>2 DEF AccountInv, AccountTyped

LEMMA RefreshStep ==
    ASSUME AccountInv, NEW op \in Account!Ops, Account!Refresh(op)
    PROVE  AccountInv'
<1>1. /\ sending[op].pc = "sent" /\ bearer' = mine.version /\ me' = Account!Public(mine)
      /\ UNCHANGED <<mine, card, sending, unsure>>
  BY DEF Account!Refresh
<1>2. me'.name = mine.name /\ me'.email = mine.email /\ me'.mfa = mine.mfa
  BY <1>1 DEF Account!Public
<1>3. AccountTyped' /\ (\A p, q \in Account!Pending : p = q)' = (\A p, q \in Account!Pending : p = q)
  BY <1>1 DEF AccountInv, AccountTyped, Account!Pending
<1>4. ASSUME ~unsure PROVE Known' /\ Guarded'
  <2>1. \A other \in Account!Ops : ~Answered(other) /\ ~Answered(other)'
    BY <1>1, <1>4, Alone DEF Answered
  <2>2. Known'
    BY <1>1, <1>2, <2>1, OpNames DEF Known
  <2>3. Guarded
    BY <1>4 DEF AccountInv
  <2>4. ~Answered("enable") /\ ~Answered("disable") /\ ~Answered("enable")' /\ ~Answered("disable")'
    BY <2>1, OpNames
  <2> QED
    BY <1>1, <1>2, <2>2, <2>3, <2>4 DEF Guarded, Account!SaysOn, AccountInv, AccountTyped
<1> QED
  BY <1>1, <1>3, <1>4 DEF AccountInv

\* what each handler leaves of the row
RowAfter(op, new) ==
    /\ DOMAIN new = {"name", "email", "mfa", "secret", "version"}
    /\ op = "enable" => new.mfa = TRUE
    /\ op = "disable" => new.mfa = FALSE
    /\ op \notin {"enable", "disable"} => new.mfa = mine.mfa
    /\ op \in {"password", "enable", "disable"} => new.version = mine.version + 1
    /\ op \notin {"password", "enable", "disable"} => new.version = mine.version
    /\ op \notin {"name", "email"} => new.name = mine.name /\ new.email = mine.email

LEMMA HandledRow ==
    ASSUME AccountInv, NEW op \in Account!Ops, NEW held
    PROVE  RowAfter(op, Account!Handled(op, held))
<1>1. DOMAIN mine = {"name", "email", "mfa", "secret", "version"}
  BY DEF AccountInv, AccountTyped
<1>2. CASE op = "name"
  BY <1>1, <1>2 DEF Account!Handled, RowAfter
<1>3. CASE op = "email"
  BY <1>1, <1>3 DEF Account!Handled, RowAfter
<1>4. CASE op = "password"
  BY <1>1, <1>4 DEF Account!Handled, Account!Ended, RowAfter
<1>5. CASE op = "setup"
  BY <1>1, <1>5 DEF Account!Handled, RowAfter
<1>6. CASE op = "enable"
  BY <1>1, <1>6 DEF Account!Handled, Account!Ended, RowAfter
<1>7. CASE op = "disable"
  BY <1>1, <1>7 DEF Account!Handled, Account!Ended, RowAfter
<1> QED
  BY <1>2, <1>3, <1>4, <1>5, <1>6, <1>7, OpNames

LEMMA ServeStep ==
    ASSUME AccountInv, NEW op \in Account!Ops, Account!Serve(op)
    PROVE  AccountInv'
<1> DEFINE x == [sending[op] EXCEPT !.pc = "answered", !.user = <<Account!Public(mine')>>]
<1>1. /\ sending[op].pc = "sent" /\ bearer = mine.version
      /\ mine' = Account!Handled(op, sending[op].body) /\ sending' = [sending EXCEPT ![op] = x]
      /\ UNCHANGED <<me, bearer, card, unsure>>
  BY DEF Account!Serve
<1>2. /\ DOMAIN x = {"pc", "body", "user"} /\ x.pc = "answered" /\ x.user = <<Account!Public(mine')>>
  BY DEF AccountInv, AccountTyped
<1> HIDE DEF x
<1>3. /\ DOMAIN mine' = {"name", "email", "mfa", "secret", "version"}
      /\ op = "enable" => mine'.mfa = TRUE
      /\ op = "disable" => mine'.mfa = FALSE
      /\ op \notin {"enable", "disable"} => mine'.mfa = mine.mfa
      /\ op \in {"password", "enable", "disable"} => mine'.version = mine.version + 1
      /\ op \notin {"password", "enable", "disable"} => mine'.version = mine.version
      /\ op \notin {"name", "email"} => mine'.name = mine.name /\ mine'.email = mine.email
  <2>1. RowAfter(op, mine')
    BY <1>1, HandledRow
  <2> QED
    BY <2>1 DEF RowAfter
<1>4. /\ DOMAIN sending' = Account!Ops /\ sending'[op] = x
      /\ \A other \in Account!Ops \ {op} : sending'[other] = sending[other]
      /\ \A other \in Account!Ops : DOMAIN sending'[other] = {"pc", "body", "user"}
      /\ \A other \in Account!Ops : sending'[other].pc \in {"free", "sent", "answered"}
      /\ (\A p, q \in Account!Pending : p = q) => (\A p, q \in Account!Pending : p = q)'
  BY <1>1, <1>2, RequestMoves
<1>5. AccountTyped'
  <2>1. /\ mine.mfa \in BOOLEAN /\ mine.version \in Nat /\ bearer \in Nat /\ bearer <= mine.version
        /\ DOMAIN card = CardKeys /\ card.done \in BOOLEAN /\ card.off \in BOOLEAN
    BY DEF AccountInv, AccountTyped
  <2>2. mine'.mfa \in BOOLEAN
    BY <1>3, <2>1
  <2>3. mine'.version \in Nat /\ bearer <= mine'.version
    BY <1>3, <2>1
  <2> QED
    BY <1>1, <1>3, <1>4, <2>1, <2>2, <2>3 DEF AccountTyped
<1>6. ASSUME ~unsure PROVE Known' /\ Guarded'
  <2>1. /\ \A other \in Account!Ops : ~Answered(other)
        /\ \A other \in Account!Ops : Answered(other)' <=> other = op
        /\ \A other \in Account!Ops \ {op} : sending'[other].pc = "free"
    BY <1>1, <1>2, <1>4, <1>6, Alone DEF Answered
  <2>2. Known /\ Guarded
    BY <1>6 DEF AccountInv
  <2>3. Known'
    <3>1. CASE op \in {"name", "email"}
      BY <1>2, <1>4, <2>1, <3>1, OpNames DEF Known
    <3>2. CASE op \notin {"name", "email"}
      BY <1>1, <1>3, <2>1, <2>2, <3>2, OpNames DEF Known
    <3> QED
      BY <3>1, <3>2
  <2>4. Guarded'
    <3>1. /\ me'.mfa = me.mfa /\ bearer' = bearer /\ card' = card
          /\ me.mfa \in BOOLEAN /\ me.mfa = mine.mfa /\ mine.mfa \in BOOLEAN
          /\ card.done => mine.mfa
          /\ card.off => ~mine.mfa /\ sending["enable"].pc = "free"
          /\ card.done \in BOOLEAN /\ card.off \in BOOLEAN /\ mine.version \in Nat
      BY <1>1, <2>1, <2>2, OpNames DEF Guarded, AccountInv, AccountTyped
    <3>2. CASE op = "enable"
      <4>1. mine'.mfa = TRUE /\ bearer' # mine'.version /\ ~card.off
        BY <1>1, <1>3, <3>1, <3>2
      <4>2. Answered("enable")' /\ ~Answered("disable")'
        BY <2>1, <3>2, OpNames
      <4> QED
        BY <3>1, <4>1, <4>2 DEF Guarded
    <3>3. CASE op = "disable"
      <4>1. mine'.mfa = FALSE /\ bearer' # mine'.version
        BY <1>1, <1>3, <3>1, <3>3
      <4>2. /\ ~Answered("enable")' /\ Answered("disable")'
            /\ sending'["enable"].pc = "free"
        BY <2>1, <3>3, OpNames
      <4> QED
        BY <3>1, <4>1, <4>2 DEF Guarded
    <3>4. CASE op \notin {"enable", "disable"}
      BY <1>1, <1>3, <2>1, <3>1, <3>4, OpNames DEF Guarded, Account!SaysOn
    <3> QED
      BY <3>2, <3>3, <3>4
  <2> QED
    BY <2>3, <2>4
<1> QED
  BY <1>1, <1>4, <1>5, <1>6 DEF AccountInv

\* the last step of a request: what it leaves is the account as it is
LEMMA Rests ==
    ASSUME AccountInv, NEW op \in Account!Ops, sending[op].pc # "free",
           sending' = [sending EXCEPT ![op] = Account!Free], AccountTyped',
           UNCHANGED unsure,
           ~unsure => /\ me'.name = mine'.name /\ me'.email = mine'.email
                      /\ me'.mfa \in BOOLEAN /\ (bearer' = mine'.version => me'.mfa = mine'.mfa)
                      /\ (card'.done => mine'.mfa) /\ (card'.off => ~mine'.mfa)
                      /\ (Account!SaysOn' <=> mine'.mfa)
    PROVE  AccountInv'
<1>1. DOMAIN Account!Free = {"pc", "body", "user"} /\ Account!Free.pc = "free"
  BY DEF Account!Free
<1>2. /\ sending'[op] = Account!Free
      /\ \A other \in Account!Ops \ {op} : sending'[other] = sending[other]
      /\ (\A p, q \in Account!Pending : p = q) => (\A p, q \in Account!Pending : p = q)'
  BY <1>1, RequestMoves
<1>3. ASSUME ~unsure PROVE Known' /\ Guarded'
  <2>1. \A other \in Account!Ops : sending'[other].pc = "free" /\ ~Answered(other)'
    BY <1>1, <1>2, <1>3, Alone DEF Answered
  <2> QED
    BY <1>3, <2>1, OpNames DEF Known, Guarded
<1> QED
  BY <1>2, <1>3 DEF AccountInv

\* typing of a step that ends a request and leaves the row alone
LEMMA RestTyped ==
    ASSUME AccountInv, NEW op \in Account!Ops, sending[op].pc # "free",
           sending' = [sending EXCEPT ![op] = Account!Free], UNCHANGED <<mine, bearer>>,
           DOMAIN card' = CardKeys, card'.done \in BOOLEAN, card'.off \in BOOLEAN
    PROVE  AccountTyped'
<1>1. DOMAIN Account!Free = {"pc", "body", "user"} /\ Account!Free.pc = "free"
  BY DEF Account!Free
<1>2. /\ DOMAIN sending' = Account!Ops
      /\ \A other \in Account!Ops : DOMAIN sending'[other] = {"pc", "body", "user"}
      /\ \A other \in Account!Ops : sending'[other].pc \in {"free", "sent", "answered"}
  BY <1>1, RequestMoves
<1> QED
  BY <1>2 DEF AccountInv, AccountTyped

LEMMA CardTyped ==
    ASSUME AccountInv
    PROVE  /\ DOMAIN card = CardKeys /\ card.done \in BOOLEAN /\ card.off \in BOOLEAN
           /\ mine.mfa \in BOOLEAN
BY DEF AccountInv, AccountTyped

LEMMA RefuseStep ==
    ASSUME AccountInv, NEW op \in Account!Ops, Account!Refuse(op)
    PROVE  AccountInv'
<1>1. /\ sending[op].pc = "sent" /\ bearer = mine.version
      /\ me' = me \/ me' = Account!Public(mine)
      /\ sending' = [sending EXCEPT ![op] = Account!Free]
      /\ UNCHANGED <<mine, bearer, card, unsure>>
  BY DEF Account!Refuse
<1>2. AccountTyped'
  BY <1>1, RestTyped, CardTyped
<1>3. ASSUME ~unsure
      PROVE  /\ me'.name = mine'.name /\ me'.email = mine'.email
             /\ me'.mfa \in BOOLEAN /\ (bearer' = mine'.version => me'.mfa = mine'.mfa)
             /\ (card'.done => mine'.mfa) /\ (card'.off => ~mine'.mfa)
             /\ (Account!SaysOn' <=> mine'.mfa)
  <2>1. \A other \in Account!Ops : ~Answered(other)
    BY <1>1, <1>3, Alone DEF Answered
  <2>2. Known /\ Guarded
    BY <1>3 DEF AccountInv
  <2>3. me'.name = mine.name /\ me'.email = mine.email /\ me'.mfa = mine.mfa
    BY <1>1, <2>1, <2>2, OpNames DEF Known, Guarded, Account!Public
  <2>4. (card.done => mine.mfa) /\ (card.off => ~mine.mfa)
    BY <2>1, <2>2, OpNames DEF Guarded
  <2>5. Account!SaysOn' <=> mine.mfa
    BY <1>1, <2>3, <2>4, CardTyped DEF Account!SaysOn
  <2> QED
    BY <1>1, <2>3, <2>4, <2>5, CardTyped
<1> QED
  BY <1>1, <1>2, <1>3, Rests

LEMMA ArriveStep ==
    ASSUME AccountInv, NEW op \in Account!Ops, Account!Arrive(op)
    PROVE  AccountInv'
<1>1. /\ sending[op].pc = "answered" /\ sending' = [sending EXCEPT ![op] = Account!Free]
      /\ UNCHANGED <<mine, bearer, unsure>>
  BY DEF Account!Arrive
<1>2. /\ DOMAIN card = CardKeys /\ card.done \in BOOLEAN /\ card.off \in BOOLEAN
      /\ mine.mfa \in BOOLEAN
  BY CardTyped
<1>3. /\ DOMAIN card' = CardKeys
      /\ card'.done = IF op = "enable" THEN TRUE ELSE IF op = "disable" THEN FALSE ELSE card.done
      /\ card'.off = IF op = "disable" THEN TRUE ELSE card.off
      /\ op \in {"name", "email"} => me' = sending[op].user[1]
      /\ op \notin {"name", "email"} => me' = me
  <2>1. CASE op \in {"name", "email"}
    BY <1>2, <2>1 DEF Account!Arrive, Account!PatchUser, Account!PasswordSaved, Account!ShowSecret,
       Account!Enabled, Account!Disabled
  <2>2. CASE op = "password"
    BY <1>2, <2>2 DEF Account!Arrive, Account!PatchUser, Account!PasswordSaved, Account!ShowSecret,
       Account!Enabled, Account!Disabled
  <2>3. CASE op = "setup"
    <3>1. card' = [card EXCEPT !.setup = TRUE] /\ me' = me
      BY <2>3 DEF Account!Arrive, Account!PatchUser, Account!PasswordSaved, Account!ShowSecret,
         Account!Enabled, Account!Disabled
    <3> QED
      BY <1>2, <2>3, <3>1 DEF CardKeys
  <2>4. CASE op = "enable"
    <3>1. card' = [card EXCEPT !.done = TRUE, !.setup = FALSE] /\ me' = me
      BY <2>4 DEF Account!Arrive, Account!PatchUser, Account!PasswordSaved, Account!ShowSecret,
         Account!Enabled, Account!Disabled
    <3> QED
      BY <1>2, <2>4, <3>1 DEF CardKeys
  <2>5. CASE op = "disable"
    <3>1. card' = [card EXCEPT !.done = FALSE, !.off = TRUE, !.disabling = FALSE] /\ me' = me
      BY <2>5 DEF Account!Arrive, Account!PatchUser, Account!PasswordSaved, Account!ShowSecret,
         Account!Enabled, Account!Disabled
    <3> QED
      BY <1>2, <2>5, <3>1 DEF CardKeys
  <2> QED
    BY <2>1, <2>2, <2>3, <2>4, <2>5, OpNames
<1>4. card'.done \in BOOLEAN /\ card'.off \in BOOLEAN
  BY <1>2, <1>3
<1>5. AccountTyped'
  BY <1>1, <1>3, <1>4, RestTyped
<1>6. ASSUME ~unsure
      PROVE  /\ me'.name = mine'.name /\ me'.email = mine'.email
             /\ me'.mfa \in BOOLEAN /\ (bearer' = mine'.version => me'.mfa = mine'.mfa)
             /\ (card'.done => mine'.mfa) /\ (card'.off => ~mine'.mfa)
             /\ (Account!SaysOn' <=> mine'.mfa)
  <2>1. \A other \in Account!Ops : Answered(other) <=> other = op
    BY <1>1, <1>6, Alone DEF Answered
  <2>2. \A other \in Account!Ops \ {op} : sending[other].pc = "free"
    BY <1>1, <1>6, Alone
  <2>3. Known /\ Guarded
    BY <1>6 DEF AccountInv
  <2>4. CASE op \in {"name", "email"}
    <3>1. me' = Account!Public(mine)
      BY <1>3, <2>1, <2>3, <2>4, OpNames DEF Known
    <3>2. me'.name = mine.name /\ me'.email = mine.email /\ me'.mfa = mine.mfa
      BY <3>1 DEF Account!Public
    <3>3. (card.done => mine.mfa) /\ (card.off => ~mine.mfa)
      BY <2>1, <2>3, <2>4, OpNames DEF Guarded
    <3>4. card'.done = card.done /\ card'.off = card.off
      BY <1>3, <2>4
    <3>5. Account!SaysOn' <=> mine.mfa
      BY <1>2, <3>2, <3>3, <3>4 DEF Account!SaysOn
    <3> QED
      BY <1>1, <1>2, <3>2, <3>3, <3>4, <3>5
  <2>5. CASE op \notin {"name", "email"}
    <3>1. me' = me /\ me.name = mine.name /\ me.email = mine.email
      BY <1>3, <2>1, <2>3, <2>5, OpNames DEF Known
    <3>2. me.mfa \in BOOLEAN /\ (bearer = mine.version => me.mfa = mine.mfa)
      BY <2>3 DEF Guarded
    <3>3. CASE op = "enable"
      <4>1. mine.mfa /\ card.off = FALSE
        BY <1>1, <1>2, <2>1, <2>3, <3>3, OpNames DEF Guarded
      <4>2. card'.done = TRUE /\ card'.off = FALSE
        BY <1>3, <3>3, <4>1
      <4>3. Account!SaysOn'
        BY <4>2 DEF Account!SaysOn
      <4> QED
        BY <1>1, <3>1, <3>2, <4>1, <4>2, <4>3
    <3>4. CASE op = "disable"
      <4>1. ~mine.mfa
        BY <2>1, <2>3, <3>4, OpNames DEF Guarded
      <4>2. card'.done = FALSE /\ card'.off = TRUE
        BY <1>3, <3>4
      <4>3. ~Account!SaysOn'
        BY <4>2 DEF Account!SaysOn
      <4> QED
        BY <1>1, <3>1, <3>2, <4>1, <4>2, <4>3
    <3>5. CASE op \notin {"enable", "disable"}
      <4>1. ~Answered("enable") /\ ~Answered("disable")
        BY <2>1, <3>5, OpNames
      <4>2. (card.done => mine.mfa) /\ (card.off => ~mine.mfa)
        BY <2>3, <4>1 DEF Guarded
      <4>3. Account!SaysOn <=> mine.mfa
        <5>1. sending["setup"].pc # "sent"
          BY <1>1, <2>2, OpNames
        <5> QED
          BY <2>3, <4>1, <5>1 DEF Guarded
      <4>4. card'.done = card.done /\ card'.off = card.off
        BY <1>3, <3>5
      <4>5. Account!SaysOn' <=> mine.mfa
        BY <3>1, <4>3, <4>4 DEF Account!SaysOn
      <4> QED
        BY <1>1, <3>1, <3>2, <4>2, <4>4, <4>5
    <3> QED
      BY <3>3, <3>4, <3>5
  <2> QED
    BY <2>4, <2>5
<1> QED
  BY <1>1, <1>5, <1>6, Rests

LEMMA FailStep ==
    ASSUME AccountInv, NEW op \in Account!Ops, Account!Fail(op)
    PROVE  AccountInv'
<1>1. /\ sending[op].pc # "free" /\ unsure' = TRUE
      /\ sending' = [sending EXCEPT ![op] = Account!Free] /\ UNCHANGED <<mine, bearer, card>>
  BY DEF Account!Fail
<1>2. AccountTyped'
  BY <1>1, RestTyped, CardTyped
<1> QED
  BY <1>1, <1>2 DEF AccountInv

LEMMA ReloadStep ==
    ASSUME AccountInv, Account!Reload
    PROVE  AccountInv'
<1>1. /\ Account!Pending = {} /\ bearer' = mine.version /\ me' = Account!Public(mine)
      /\ card' = Account!Fresh /\ UNCHANGED <<mine, sending>>
  BY DEF Account!Reload
<1>2. /\ DOMAIN card' = CardKeys /\ card'.done = FALSE /\ card'.off = FALSE
      /\ me'.name = mine.name /\ me'.email = mine.email /\ me'.mfa = mine.mfa
  BY <1>1 DEF Account!Fresh, Account!Public, CardKeys
<1>3. AccountTyped'
  <2>1. card'.done \in BOOLEAN /\ card'.off \in BOOLEAN
    BY <1>2
  <2>2. bearer' = mine.version /\ mine' = mine /\ sending' = sending
    BY <1>1
  <2> QED
    BY <1>2, <2>1, <2>2 DEF AccountInv, AccountTyped
<1>4. \A op \in Account!Ops : sending[op].pc = "free" /\ sending'[op].pc = "free"
  BY <1>1 DEF Account!Pending
<1>5. \A op \in Account!Ops : ~Answered(op)'
  BY <1>4 DEF Answered
<1>6. Account!SaysOn' <=> mine.mfa
  BY <1>2, CardTyped DEF Account!SaysOn
<1>7. Known' /\ Guarded'
  BY <1>1, <1>2, <1>5, <1>6, OpNames, CardTyped DEF Known, Guarded
<1>8. (\A p, q \in Account!Pending : p = q)'
  BY <1>4 DEF Account!Pending
<1> QED
  BY <1>3, <1>7, <1>8 DEF AccountInv

LEMMA AccountStep == AccountInv /\ [Next]_vars => AccountInv'
<1> SUFFICES ASSUME AccountInv, [Account!Next]_(Account!vars) PROVE AccountInv'
  BY AccountAlone
<1>1. CASE UNCHANGED Account!vars
  BY <1>1, Typing DEF Account!vars
<1>2. CASE \/ Account!SaveName \/ Account!SaveEmail \/ Account!SavePassword
           \/ Account!StartMfa \/ Account!EnableMfa \/ Account!DisableMfa
  BY <1>2, SendSteps
<1>3. CASE \/ Account!AskToDisable \/ Account!CancelDisable
           \/ \E n \in UserNames : Account!TypeName(n)
           \/ \E e \in Emails : Account!TypeEmail(e)
  BY <1>3, Typing DEF Account!AskToDisable, Account!CancelDisable, Account!TypeName,
     Account!TypeEmail, Account!drafts
<1>4. CASE Account!Reload
  BY <1>4, ReloadStep
<1>5. ASSUME NEW op \in Account!Ops,
             \/ Account!Refresh(op) \/ Account!Serve(op) \/ Account!Refuse(op)
             \/ Account!Arrive(op) \/ Account!Fail(op)
      PROVE  AccountInv'
  BY <1>5, RefreshStep, ServeStep, RefuseStep, ArriveStep, FailStep
<1> QED
  BY <1>1, <1>2, <1>3, <1>4, <1>5 DEF Account!Next

\* With every answer in and one request at a time, the account page's name, address
\* and second factor are the account's, through refreshes, refusals, lost answers
\* and reloads: patchUser, disableMfa and the card's own mfaDone and mfaOff.
THEOREM PageKnows == Spec => []PageKnowsItsUser
<1>1. AccountInv => PageKnowsItsUser
  <2> SUFFICES ASSUME AccountInv, Account!Pending = {}, ~unsure
               PROVE  /\ me.name = mine.name /\ me.email = mine.email
                      /\ Account!SaysOn <=> mine.mfa
    BY DEF PageKnowsItsUser, Account!PageKnowsItsUser
  <2>1. \A op \in Account!Ops : sending[op].pc = "free" /\ ~Answered(op)
    BY DEF Account!Pending, Answered
  <2>2. Known /\ Guarded
    BY DEF AccountInv
  <2> QED
    BY <2>1, <2>2, OpNames DEF Known, Guarded
<1> QED
  BY <1>1, AccountInit, AccountStep, PTL DEF Spec

=============================================================================
