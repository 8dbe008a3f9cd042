--------------------------- MODULE SettingsCards ---------------------------
(***************************************************************************)
(* The settings page's brand kit, business profile and product catalogue   *)
(* cards, and the services that store what they send.                      *)
(*                                                                         *)
(* A card shows its draft while there is one, else what it last got.  The  *)
(* kit is its colours, logo and track; the profile is the website; fields  *)
(* that nothing else reads are handled as these are.  One person edits.    *)
(* A refetch that fails is tried again; the products themselves are in     *)
(* Catalogue.                                                              *)
(***************************************************************************)
EXTENDS Integers, FiniteSets

CONSTANTS
    Cards,          \* of "kit", "profile" and "products"
    Colours, Files, \* what can be chosen for the kit
    Websites,
    Platforms,      \* AVAILABLE_PLATFORMS
    Slots,          \* requests on their way at once
    MaxSends        \* bound

VARIABLES
    stored,     \* the BrandKit row and the two halves of the BusinessProfile row
    cache,      \* what each card's query last returned
    stale,      \* the queries to be fetched again
    draft,      \* of each card: nothing, or the values being edited
    error,      \* the cards that show a failure
    request,    \* of each slot
    sends

vars == <<stored, cache, stale, draft, error, request, sends>>

None == "none"
Free == [pc |-> "free", op |-> "none", body |-> <<>>]

\* What a card's query answers: product settings bring the profile's website
Answer(c) ==
    IF c = "products" THEN [stored.products EXCEPT !.website = stored.profile.website]
    ELSE stored[c]

Init ==
    /\ stored = [kit |-> [colour |-> CHOOSE x \in Colours : TRUE, logo |-> None, track |-> None],
                 profile |-> [website |-> None],
                 products |-> [website |-> None, consent |-> FALSE, import |-> FALSE,
                               post |-> FALSE, platforms |-> {}]]
    /\ cache = stored
    /\ stale = {} /\ error = {} /\ sends = 0
    /\ draft = [c \in Cards |-> <<>>]
    /\ request = [s \in Slots |-> Free]

Current(c) == IF draft[c] = <<>> THEN cache[c] ELSE draft[c][1]

Refetch(c) ==
    /\ c \in stale
    /\ cache' = [cache EXCEPT ![c] = Answer(c)]
    /\ stale' = stale \ {c}
    /\ UNCHANGED <<stored, draft, error, request, sends>>

Pending(op) == \E s \in Slots : request[s].op = op

Send(s, op, body) ==
    /\ request[s].pc = "free" /\ sends < MaxSends
    /\ request' = [request EXCEPT ![s] = [pc |-> "sent", op |-> op, body |-> body]]
    /\ sends' = sends + 1

-----------------------------------------------------------------------------
\* The brand kit
EditKit(colour) ==
    /\ colour # Current("kit").colour
    /\ draft' = [draft EXCEPT !["kit"] = <<[Current("kit") EXCEPT !.colour = colour]>>]
    /\ UNCHANGED <<stored, cache, stale, error, request, sends>>

SaveKit(s) ==
    /\ draft["kit"] # <<>> /\ ~Pending("kit")
    /\ Send(s, "kit", <<Current("kit").colour>>)
    /\ UNCHANGED <<stored, cache, stale, draft, error>>

UploadLogo(s, file) ==
    /\ Send(s, "logo", <<file>>)
    /\ UNCHANGED <<stored, cache, stale, draft, error>>

\* onMutate takes the kit's error away, whatever it was about
UploadTrack(s, file) ==
    /\ Send(s, "track", <<file>>)
    /\ error' = error \ {"kit"}
    /\ UNCHANGED <<stored, cache, stale, draft>>

TrackTooLarge ==
    /\ error' = error \cup {"kit"}
    /\ UNCHANGED <<stored, cache, stale, draft, request, sends>>

RemoveTrack(s) ==
    /\ Current("kit").track # None /\ ~Pending("untrack")
    /\ Send(s, "untrack", <<>>)
    /\ UNCHANGED <<stored, cache, stale, draft, error>>

\* The profile
EditProfile(website) ==
    /\ website # Current("profile").website
    /\ draft' = [draft EXCEPT !["profile"] = <<[website |-> website]>>]
    /\ UNCHANGED <<stored, cache, stale, error, request, sends>>

SaveProfile(s) ==
    /\ draft["profile"] # <<>> /\ ~Pending("profile")
    /\ Send(s, "profile", <<Current("profile").website>>)
    /\ UNCHANGED <<stored, cache, stale, draft, error>>

\* The product catalogue: each switch is drafted and sent at once
Update(s, next) ==
    /\ draft' = [draft EXCEPT !["products"] = <<next>>]
    /\ Send(s, "products", <<next>>)
    /\ UNCHANGED <<stored, cache, stale, error>>

\* Withdrawing permission stops the scheduled work too
ToggleConsent(s) ==
    LET now == Current("products")
    IN  Update(s, [now EXCEPT !.consent = ~now.consent,
                              !.import = now.import /\ ~now.consent,
                              !.post = now.post /\ ~now.consent])

ToggleImport(s) ==
    LET now == Current("products")
    IN  now.consent /\ Update(s, [now EXCEPT !.import = ~now.import])

TogglePost(s) ==
    LET now == Current("products")
    IN  now.consent /\ Update(s, [now EXCEPT !.post = ~now.post])

\* Without a destination there is no posting
TogglePlatform(s, p) ==
    LET now == Current("products")
        chosen == IF p \in now.platforms THEN now.platforms \ {p} ELSE now.platforms \cup {p}
    IN  /\ now.consent /\ now.post
        /\ Update(s, [now EXCEPT !.platforms = chosen, !.post = chosen # {}])

-----------------------------------------------------------------------------
\* productSettingsSchema; the other bodies are well formed
Refused(r) ==
    /\ r.op = "products"
    /\ LET sent == r.body[1]
       IN  \/ sent.post /\ sent.platforms = {}
           \/ ~sent.consent /\ (sent.import \/ sent.post)

\* Each endpoint writes its own columns
KitStored(r) ==
    CASE r.op = "kit" -> [stored EXCEPT !.kit.colour = r.body[1]]
      [] r.op = "logo" -> [stored EXCEPT !.kit.logo = r.body[1]]
      [] r.op = "track" -> [stored EXCEPT !.kit.track = r.body[1]]
      [] r.op = "untrack" -> [stored EXCEPT !.kit.track = None]

ProfileStored(r) == [stored EXCEPT !.profile.website = r.body[1]]

\* getSettings' website is not one it is sent
ProductsStored(r) == [stored EXCEPT !.products = [r.body[1] EXCEPT !.website = None]]

Stored(r) ==
    CASE r.op = "profile" -> ProfileStored(r)
      [] r.op = "products" -> ProductsStored(r)
      [] OTHER -> KitStored(r)

Land(s) ==
    /\ request[s].pc = "sent" /\ ~Refused(request[s])
    /\ stored' = Stored(request[s])
    /\ request' = [request EXCEPT ![s].pc = "stored"]
    /\ UNCHANGED <<cache, stale, draft, error, sends>>

CardOf(op) == IF op \in {"profile", "products"} THEN op ELSE "kit"

\* "Product import and SEO both read the website from here."
InvalidatedOwn(op) == {CardOf(op)}
Invalidated(op) == IF op = "profile" THEN {"profile", "products"} ELSE {CardOf(op)}

Succeed(s) ==
    LET op == request[s].op
        saved == op \in {"kit", "profile", "products"}
    IN  /\ request[s].pc = "stored"
        /\ stale' = stale \cup (Invalidated(op) \cap Cards)
        /\ draft' = IF saved THEN [draft EXCEPT ![CardOf(op)] = <<>>] ELSE draft
        /\ error' = IF op \in {"profile", "products"} THEN error \ {op} ELSE error
        /\ request' = [request EXCEPT ![s] = Free]
        /\ UNCHANGED <<stored, cache, sends>>

\* Refused, never delivered, or stored with the answer lost
Fail(s) ==
    /\ request[s].pc # "free"
    /\ error' = error \cup {CardOf(request[s].op)}
    /\ request' = [request EXCEPT ![s] = Free]
    /\ UNCHANGED <<stored, cache, stale, draft, sends>>

OnKit ==
    /\ "kit" \in Cards
    /\ \/ TrackTooLarge
       \/ \E colour \in Colours : EditKit(colour)
       \/ \E s \in Slots : \/ SaveKit(s) \/ RemoveTrack(s)
                           \/ \E file \in Files : UploadLogo(s, file) \/ UploadTrack(s, file)

OnProfile ==
    /\ "profile" \in Cards
    /\ \/ \E website \in Websites : EditProfile(website)
       \/ \E s \in Slots : SaveProfile(s)

OnProducts ==
    /\ "products" \in Cards
    /\ \E s \in Slots : \/ ToggleConsent(s) \/ ToggleImport(s) \/ TogglePost(s)
                        \/ \E p \in Platforms : TogglePlatform(s, p)

Next ==
    \/ OnKit \/ OnProfile \/ OnProducts
    \/ \E c \in Cards : Refetch(c)
    \/ \E s \in Slots : Land(s) \/ Succeed(s) \/ Fail(s)

Spec == Init /\ [][Next]_vars

-----------------------------------------------------------------------------
\* When nothing of a card is on its way, the card shows what is stored, or an edit
\* not sent, or a failure; a switch of the catalogue, which is sent as it is pressed,
\* never stands for something not stored without a failure beside it.  The website
\* the catalogue shows is the profile card's to keep (business-profile-card.tsx:69).
CardsTellWhatIsStored ==
    \A c \in Cards :
        (c \notin stale /\ error = {} /\ \A s \in Slots : request[s].pc = "free") =>
            IF draft[c] = <<>> THEN cache[c] = Answer(c) ELSE c # "products"
=============================================================================
