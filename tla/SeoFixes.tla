------------------------------ MODULE SeoFixes ------------------------------
(***************************************************************************)
(* Site audits and their fixes: SeoService of the API, the audit and the   *)
(* verification task of the engine, and the SEO page.                      *)
(*                                                                         *)
(* A site has one finding of each kind in Kinds: "page" can be judged from *)
(* one page, "file" from a file, "site" by a full audit only.  Scores,     *)
(* texts and keywords are left out.  A task's message comes back when its  *)
(* worker dies.                                                            *)
(***************************************************************************)
EXTENDS Integers, Sequences, FiniteSets

CONSTANTS
    Kinds,          \* the findings the site may have
    Website,        \* the workspace's registered host, or "none"
    Hosts,          \* hosts that are typed; "blank" is the website
    MaxAudits,      \* bound: audits
    MaxFixes,       \* bound: rows of fixes
    MaxChecks,      \* bound: verification tasks
    MaxChanges,     \* bound: changes of the site
    MaxCrashes      \* bound: workers that die

VARIABLES
    ask,        \* the page's request for an audit
    clear,      \* the request that deletes every audit, with the runs it read
    audit,      \* SeoAudit and AgentRun of each: status, run, host; confirmed is a ghost
    job,        \* the audit task: "none", "queued", "working", "stored"
    fix,        \* SeoFix rows
    site,       \* the findings that hold on the site now
    check,      \* verification tasks: phase, rows read, pages and verdicts
    list,       \* the page: the fixes' statuses it last got
    seen,       \* ghost: fixes a crawl found done
    notified,   \* ghost: fixes whose pages the search engines were told of
    changes, crashes

vars == <<ask, clear, audit, job, fix, site, check, list, seen, notified, changes, crashes>>

Quiet == [pc |-> "idle", host |-> "none", allow |-> FALSE, of |-> 0]

Init ==
    /\ ask = Quiet /\ clear = [pc |-> "idle", runs |-> {}]
    /\ audit = <<>> /\ job = <<>> /\ fix = <<>>
    /\ site \in SUBSET Kinds /\ check = <<>> /\ list = <<>>
    /\ seen = {} /\ notified = {} /\ changes = 0 /\ crashes = 0

Audits == DOMAIN audit
Fixes == DOMAIN fix
Exists(a) == audit[a].status \notin {"none", "deleted"}
Status(i) == IF Exists(fix[i].audit) THEN fix[i].status ELSE "deleted"

-----------------------------------------------------------------------------
(* Audits *)

Request(host) ==
    /\ ask.pc = "idle" /\ Len(audit) < MaxAudits
    /\ ask' = [Quiet EXCEPT !.pc = "owner", !.host = host]
    /\ UNCHANGED <<clear, audit, job, fix, site, check, list, seen, notified, changes, crashes>>

\* runAudit: a host that is not the registered one needs a confirmation, and
\* so does every host of a workspace that registered none
Owned(host) == host = Website
Target == IF ask.host = "blank" THEN Website ELSE ask.host

CheckOwner ==
    /\ ask.pc = "owner"
    /\ IF Target = "none" THEN ask' = Quiet /\ UNCHANGED <<audit, job>>
       ELSE IF ~Owned(Target) /\ ~ask.allow
       THEN ask' = [ask EXCEPT !.pc = "confirm"] /\ UNCHANGED <<audit, job>>
       ELSE /\ audit' = Append(audit, [status |-> "none", run |-> "QUEUED", host |-> Target,
                                       confirmed |-> ask.allow])
            /\ job' = Append(job, "none")
            /\ ask' = [ask EXCEPT !.pc = "row", !.of = Len(audit) + 1]
    /\ UNCHANGED <<clear, fix, site, check, list, seen, notified, changes, crashes>>

\* window.confirm
Confirm ==
    /\ ask.pc = "confirm"
    /\ ask' \in {Quiet, [ask EXCEPT !.pc = "owner", !.allow = TRUE]}
    /\ UNCHANGED <<clear, audit, job, fix, site, check, list, seen, notified, changes, crashes>>

CreateAudit ==
    /\ ask.pc = "row"
    /\ audit' = [audit EXCEPT ![ask.of].status = "QUEUED"]
    /\ ask' = [ask EXCEPT !.pc = "engine"]
    /\ UNCHANGED <<clear, job, fix, site, check, list, seen, notified, changes, crashes>>

\* rows are written by id: one that was deleted stays so
Written(a, state) ==
    [audit EXCEPT ![a].run = IF @ = "deleted" THEN @ ELSE state,
                  ![a].status = IF @ = "deleted" THEN @ ELSE state]

\* queued and heard, queued and not heard, or not queued; the last two fail
\* the rows
Enqueue ==
    /\ ask.pc = "engine"
    /\ job' \in {job, [job EXCEPT ![ask.of] = "queued"]}
    /\ \/ job' # job /\ UNCHANGED audit
       \/ audit' = Written(ask.of, "FAILED")
    /\ ask' = Quiet
    /\ UNCHANGED <<clear, fix, site, check, list, seen, notified, changes, crashes>>

Start(a) ==
    /\ job[a] = "queued"
    /\ job' = [job EXCEPT ![a] = "working"]
    /\ audit' = Written(a, "RUNNING")
    /\ UNCHANGED <<ask, clear, fix, site, check, list, seen, notified, changes, crashes>>

Found(a) ==
    LET add(rows, k) == IF k \in site
                        THEN Append(rows, [audit |-> a, kind |-> k, status |-> "PROPOSED"])
                        ELSE rows
    IN  add(add(add(<<>>, "page"), "file"), "site")

\* one commit; fixes of a deleted audit are refused by their foreign key, and
\* the task fails
End(a) ==
    /\ job[a] = "working"
    /\ job' = [job EXCEPT ![a] = "stored"]
    /\ \/ /\ Exists(a) /\ Len(fix) + Cardinality(site) <= MaxFixes
          /\ audit' = [audit EXCEPT ![a].status = "SUCCEEDED",
                                    ![a].run = IF @ = "deleted" THEN @ ELSE "SUCCEEDED"]
          /\ fix' = fix \o Found(a)
       \/ audit' = Written(a, "FAILED") /\ UNCHANGED fix
    /\ UNCHANGED <<ask, clear, site, check, list, seen, notified, changes, crashes>>

Acknowledge(a) ==
    /\ job[a] = "stored"
    /\ job' = [job EXCEPT ![a] = "none"]
    /\ UNCHANGED <<ask, clear, audit, fix, site, check, list, seen, notified, changes, crashes>>

WorkerDies(a) ==
    /\ job[a] \in {"working", "stored"} /\ crashes < MaxCrashes
    /\ crashes' = crashes + 1
    /\ job' = [job EXCEPT ![a] = "queued"]
    /\ UNCHANGED <<ask, clear, audit, fix, site, check, list, seen, notified, changes>>

\* clearAll: the runs are read first, and deleted last
ClearRead ==
    /\ clear.pc = "idle" /\ \E a \in Audits : Exists(a)
    /\ clear' = [pc |-> "audits", runs |-> {a \in Audits : Exists(a)}]
    /\ UNCHANGED <<ask, audit, job, fix, site, check, list, seen, notified, changes, crashes>>

ClearAudits ==
    /\ clear.pc = "audits"
    /\ audit' = [a \in Audits |-> IF Exists(a) THEN [audit[a] EXCEPT !.status = "deleted"]
                                  ELSE audit[a]]
    /\ clear' = [clear EXCEPT !.pc = "runs"]
    /\ UNCHANGED <<ask, job, fix, site, check, list, seen, notified, changes, crashes>>

ClearRuns ==
    /\ clear.pc = "runs"
    /\ audit' = [a \in Audits |-> IF a \in clear.runs THEN [audit[a] EXCEPT !.run = "deleted"]
                                  ELSE audit[a]]
    /\ clear' = [pc |-> "idle", runs |-> {}]
    /\ UNCHANGED <<ask, job, fix, site, check, list, seen, notified, changes, crashes>>

-----------------------------------------------------------------------------
(* Fixes *)

\* the page lists them again after each of its requests and 20 s after "Verify"
ListFixes ==
    /\ list # [i \in Fixes |-> Status(i)]
    /\ list' = [i \in Fixes |-> Status(i)]
    /\ UNCHANGED <<ask, clear, audit, job, fix, site, check, seen, notified, changes, crashes>>

\* the buttons of the listed status; updateFixStatus writes by id
Buttons == [PROPOSED |-> {"APPLIED", "DISMISSED"}, APPLIED |-> {"DISMISSED", "PROPOSED"},
            FAILED |-> {"APPLIED", "DISMISSED"}, DISMISSED |-> {"APPLIED", "PROPOSED"},
            VERIFIED |-> {}, deleted |-> {}]

Mark(i, status) ==
    /\ i \in DOMAIN list /\ status \in Buttons[list[i]] /\ Status(i) # "deleted"
    /\ fix' = [fix EXCEPT ![i].status = status]
    /\ UNCHANGED <<ask, clear, audit, job, site, check, list, seen, notified, changes, crashes>>

Listed(status) == {i \in DOMAIN list : list[i] = status}

\* those the page lists as open
MarkAll ==
    LET open == Listed("PROPOSED")
    IN  /\ open # {}
        /\ fix' = [i \in Fixes |-> IF i \in open THEN [fix[i] EXCEPT !.status = "APPLIED"] ELSE fix[i]]
        /\ UNCHANGED <<ask, clear, audit, job, site, check, list, seen, notified, changes, crashes>>

ToCheck(a) == {i \in Fixes : fix[i].audit = a /\ Status(i) \in {"APPLIED", "FAILED"}}

Verify(a) ==
    /\ ToCheck(a) # {} /\ Len(check) < MaxChecks
    /\ check' = Append(check, [of |-> a, pc |-> "read", rows |-> {}, still |-> {}, lost |-> {},
                               done |-> {}])
    /\ UNCHANGED <<ask, clear, audit, job, fix, site, list, seen, notified, changes, crashes>>

Step(c, to) == check' = [check EXCEPT ![c] = to]

CheckRead(c) ==
    /\ check[c].pc = "read"
    /\ Step(c, [check[c] EXCEPT !.pc = "fetch", !.rows = ToCheck(check[c].of)])
    /\ UNCHANGED <<ask, clear, audit, job, fix, site, list, seen, notified, changes, crashes>>

\* fetch_pages, once for all of them; a page that cannot be fetched is missing
CheckFetch(c) ==
    LET pages == {i \in check[c].rows : fix[i].kind = "page"}
    IN  /\ check[c].pc = "fetch"
        /\ \E lost \in {{}, pages} :
             LET still == {i \in pages \ lost : "page" \in site}
             IN  /\ Step(c, [check[c] EXCEPT !.pc = "write", !.lost = lost, !.still = still])
                 /\ seen' = seen \cup (pages \ (lost \cup still))
        /\ UNCHANGED <<ask, clear, audit, job, fix, site, list, notified, changes, crashes>>

\* "ok": what a crawl no longer reports
OkUnlessReported(c, served) ==
    {i \in check[c].rows : fix[i].kind = "page" /\ i \notin check[c].still} \cup served
Ok(c, served) ==
    {i \in check[c].rows : fix[i].kind = "page" /\ i \notin check[c].still \cup check[c].lost}
        \cup served

\* files are fetched here; one commit, by id, whatever the rows say by now
CheckWrite(c) ==
    LET files == {i \in check[c].rows : fix[i].kind = "file"}
    IN  /\ check[c].pc = "write"
        /\ \E served \in {{}, IF "file" \in site THEN {} ELSE files} :
             LET ok == Ok(c, served)
             IN  /\ fix' = [i \in Fixes |->
                      IF i \notin check[c].rows \/ fix[i].kind = "site" THEN fix[i]
                      ELSE [fix[i] EXCEPT !.status = IF i \in ok THEN "VERIFIED" ELSE "FAILED"]]
                 /\ seen' = seen \cup served
                 /\ Step(c, [check[c] EXCEPT !.pc = IF ok = {} THEN "stored" ELSE "submit", !.done = ok])
        /\ UNCHANGED <<ask, clear, audit, job, site, list, notified, changes, crashes>>

\* best-effort, and only while the audit is there
CheckSubmit(c) ==
    /\ check[c].pc = "submit"
    /\ notified' \in {notified, IF Exists(check[c].of) THEN notified \cup check[c].done ELSE notified}
    /\ Step(c, [check[c] EXCEPT !.pc = "stored"])
    /\ UNCHANGED <<ask, clear, audit, job, fix, site, list, seen, changes, crashes>>

CheckDies(c) ==
    /\ check[c].pc # "read" /\ crashes < MaxCrashes
    /\ crashes' = crashes + 1
    /\ Step(c, [of |-> check[c].of, pc |-> "read", rows |-> {}, still |-> {}, lost |-> {}, done |-> {}])
    /\ UNCHANGED <<ask, clear, audit, job, fix, site, list, seen, notified, changes>>

\* submitIndexNow, which the page asks for without naming pages
NotifyEngines(a) ==
    /\ Listed("VERIFIED") # {}
    /\ LET pages == {i \in Fixes : fix[i].audit = a /\ fix[i].kind # "file" /\ Status(i) = "VERIFIED"}
       IN  pages # {} /\ notified' = notified \cup pages
    /\ UNCHANGED <<ask, clear, audit, job, fix, site, check, list, seen, changes, crashes>>

SiteChanges(k) ==
    /\ changes < MaxChanges
    /\ changes' = changes + 1
    /\ site' = IF k \in site THEN site \ {k} ELSE site \cup {k}
    /\ UNCHANGED <<ask, clear, audit, job, fix, check, list, seen, notified, crashes>>

Next ==
    \/ \E h \in Hosts : Request(h)
    \/ CheckOwner \/ Confirm \/ CreateAudit \/ Enqueue
    \/ \E a \in Audits : \/ Start(a) \/ End(a) \/ Acknowledge(a) \/ WorkerDies(a)
                         \/ Verify(a) \/ NotifyEngines(a)
    \/ ClearRead \/ ClearAudits \/ ClearRuns
    \/ ListFixes \/ MarkAll
    \/ \E i \in Fixes, s \in {"PROPOSED", "APPLIED", "DISMISSED"} : Mark(i, s)
    \/ \E c \in DOMAIN check : \/ CheckRead(c) \/ CheckFetch(c) \/ CheckWrite(c)
                               \/ CheckSubmit(c) \/ CheckDies(c)
    \/ \E k \in Kinds : SiteChanges(k)

Spec == Init /\ [][Next]_vars

-----------------------------------------------------------------------------
\* "Nothing is marked VERIFIED because we wrote it or because the user said
\* they did, only because the site now says so" (verify_fixes), and only such
\* pages are submitted to the search engines, across deletions, re-opened
\* fixes, overlapping checks and checks that start again.
VerifiedWasSeen ==
    /\ \A i \in Fixes : fix[i].status = "VERIFIED" => i \in seen
    /\ notified \subseteq seen
=============================================================================
