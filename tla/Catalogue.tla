----------------------------- MODULE Catalogue -----------------------------
(***************************************************************************)
(* A workspace's imported products: ProductsService's import and removal,  *)
(* the import task that stores what the shop shows, the tasks that post    *)
(* about a product, and the pages of the shop changing under them.         *)
(*                                                                         *)
(* A product is its page; a text is a value.  Time passes in ticks, and a  *)
(* task works within one.  The posts themselves are the pipeline's.        *)
(***************************************************************************)
EXTENDS Integers, FiniteSets

CONSTANTS
    Pages,          \* the shop's product pages
    Texts,          \* what a page may say
    Makers,         \* tasks writing a product post at the same time
    Repost,         \* REPOST_AFTER_DAYS
    MaxTime, MaxImports, MaxChanges, MaxCrashes     \* bounds

VARIABLES
    now,
    consent,    \* productImportConsentAt
    shop,       \* what each page says now, or nothing
    row,        \* the Product row of each page
    job,        \* the import: queued, reading the shop, or about to store
    maker,      \* of each task: the product it picked
    imports, changes, crashes,
    posted      \* ghost: when each row was last posted about

vars == <<now, consent, shop, row, job, maker, imports, changes, crashes, posted>>

Nothing == "nothing"
Never == -1
NoRow == [id |-> Never, text |-> Nothing, first |-> Never, last |-> Never]
NoJob == [pc |-> "none", found |-> [p \in {} |-> Nothing]]
Idle == [pc |-> "idle", page |-> Nothing, id |-> Never]

Init ==
    /\ now = 0 /\ consent = FALSE
    /\ shop \in [Pages -> Texts]
    /\ row = [p \in Pages |-> NoRow]
    /\ job = NoJob
    /\ maker = [m \in Makers |-> Idle]
    /\ imports = 0 /\ changes = 0 /\ crashes = 0
    /\ posted = [p \in Pages |-> Never]

Stored == {p \in Pages : row[p] # NoRow}

\* saveSettings
Allow ==
    /\ ~consent /\ consent' = TRUE
    /\ UNCHANGED <<now, shop, row, job, maker, imports, changes, crashes, posted>>

Withdraw ==
    /\ consent /\ changes < MaxChanges
    /\ consent' = FALSE /\ changes' = changes + 1
    /\ UNCHANGED <<now, shop, row, job, maker, imports, crashes, posted>>

ShopChanges(p, text) ==
    /\ changes < MaxChanges /\ text # shop[p]
    /\ shop' = [shop EXCEPT ![p] = text] /\ changes' = changes + 1
    /\ UNCHANGED <<now, consent, row, job, maker, imports, crashes, posted>>

-----------------------------------------------------------------------------
\* importNow, and scheduled_imports
ImportNow ==
    /\ consent /\ job = NoJob /\ imports < MaxImports
    /\ job' = [NoJob EXCEPT !.pc = "queued"] /\ imports' = imports + 1
    /\ UNCHANGED <<now, consent, shop, row, maker, changes, crashes, posted>>

\* consent is asked again, once, before the shop is read
Crawl ==
    /\ job.pc = "queued"
    /\ job' = IF consent
              THEN [pc |-> "read", found |-> [p \in {q \in Pages : shop[q] # Nothing} |-> shop[p]]]
              ELSE NoJob
    /\ UNCHANGED <<now, consent, shop, row, maker, imports, changes, crashes, posted>>

\* a new page is a new row; one that is known keeps its history
UpsertedAnew(p) ==
    IF p \notin DOMAIN job.found THEN row[p]
    ELSE [id |-> imports + crashes, text |-> job.found[p], first |-> now, last |-> Never]

Upserted(p) ==
    IF p \notin DOMAIN job.found THEN row[p]
    ELSE IF row[p] = NoRow THEN [id |-> imports + crashes, text |-> job.found[p], first |-> now, last |-> Never]
    ELSE [row[p] EXCEPT !.text = job.found[p]]

Store ==
    /\ job.pc = "read"
    /\ row' = [p \in Pages |-> Upserted(p)]
    /\ job' = [NoJob EXCEPT !.pc = "stored"]
    /\ UNCHANGED <<now, consent, shop, maker, imports, changes, crashes, posted>>

Acknowledge ==
    /\ job.pc = "stored" /\ job' = NoJob
    /\ UNCHANGED <<now, consent, shop, row, maker, imports, changes, crashes, posted>>

\* the worker dies: the message is delivered again
ImportRedelivered ==
    /\ job.pc \in {"read", "stored"} /\ crashes < MaxCrashes
    /\ job' = [NoJob EXCEPT !.pc = "queued"] /\ crashes' = crashes + 1
    /\ UNCHANGED <<now, consent, shop, row, maker, imports, changes, posted>>

\* remove, one or all
Remove(gone) ==
    /\ gone # {} /\ gone \subseteq Stored /\ changes < MaxChanges
    /\ row' = [p \in Pages |-> IF p \in gone THEN NoRow ELSE row[p]]
    /\ posted' = [p \in Pages |-> IF p \in gone THEN Never ELSE posted[p]]
    /\ changes' = changes + 1
    /\ UNCHANGED <<now, consent, shop, job, maker, imports, crashes>>

-----------------------------------------------------------------------------
\* create_product_post, and autopilot's fallback on the catalogue
Due(p) == row[p].last = Never \/ row[p].last < now - Repost

\* never posted first, the newest of those; then the one waiting longest
Before(p, q) ==
    \/ row[p].last < row[q].last
    \/ row[p].last = row[q].last /\ row[p].first > row[q].first

Pick(m, p) ==
    /\ maker[m] = Idle
    /\ p \in Stored /\ Due(p)
    /\ ~\E q \in Stored : Due(q) /\ Before(q, p)
    /\ maker' = [maker EXCEPT ![m] = [pc |-> "writing", page |-> p, id |-> row[p].id]]
    /\ UNCHANGED <<now, consent, shop, row, job, imports, changes, crashes, posted>>

\* by row id: a row removed meanwhile is not updated, and the post is written all the same
Book(m) ==
    LET p == maker[m].page
        same == row[p].id = maker[m].id
    IN  /\ maker[m].pc = "writing"
        /\ row' = IF same THEN [row EXCEPT ![p].last = now] ELSE row
        /\ posted' = IF same THEN [posted EXCEPT ![p] = now] ELSE posted
        /\ maker' = [maker EXCEPT ![m].pc = "booked"]
        /\ UNCHANGED <<now, consent, shop, job, imports, changes, crashes>>

Finish(m) ==
    /\ maker[m].pc = "booked"
    /\ maker' = [maker EXCEPT ![m] = Idle]
    /\ UNCHANGED <<now, consent, shop, row, job, imports, changes, crashes, posted>>

\* before or after its commit, a worker that dies leaves the message to the next
Redelivered(m, p) ==
    /\ maker[m] # Idle /\ crashes < MaxCrashes
    /\ maker' = [maker EXCEPT ![m] = Idle] /\ crashes' = crashes + 1
    /\ p = maker[m].page
    /\ UNCHANGED <<now, consent, shop, row, job, imports, changes, posted>>

Tick ==
    /\ now < MaxTime /\ now' = now + 1
    /\ \A m \in Makers : maker[m] = Idle
    /\ UNCHANGED <<consent, shop, row, job, maker, imports, changes, crashes, posted>>

Next ==
    \/ Allow \/ Withdraw \/ ImportNow \/ Crawl \/ Store \/ Acknowledge \/ ImportRedelivered \/ Tick
    \/ \E p \in Pages, text \in Texts : ShopChanges(p, text)
    \/ \E gone \in SUBSET Pages : Remove(gone)
    \/ \E m \in Makers : \/ Book(m) \/ Finish(m)
                         \/ \E p \in Pages : Pick(m, p) \/ Redelivered(m, p)

Spec == Init /\ [][Next]_vars

-----------------------------------------------------------------------------
\* "How long a product waits before it may be posted about again"
\* (REPOST_AFTER_DAYS): whatever the shop publishes again and whichever worker dies, no
\* task takes up a product posted about within that time and not removed since.  Two
\* tasks at work at once may take up the same one.
NotRepeatedTooSoon ==
    [][\A m \in Makers :
         LET p == maker'[m].page
         IN  maker[m] = Idle /\ maker'[m] # Idle => posted[p] = Never \/ posted[p] + Repost < now]_vars
=============================================================================
