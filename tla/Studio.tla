------------------------------- MODULE Studio -------------------------------
(***************************************************************************)
(* The pictures and videos of one content item: the image and video        *)
(* studios of apps/web, MediaService, the engine's image and video tasks   *)
(* and reap_stale_runs.                                                    *)
(*                                                                         *)
(* An asset is a number; briefs, presets, costs and the stages of a run    *)
(* are left out.  A task's message comes back when its worker dies before  *)
(* it has acknowledged it (task_acks_late).                                *)
(***************************************************************************)
EXTENDS Integers, Sequences, FiniteSets

CONSTANTS
    Kinds,          \* the studios that are used: "IMAGE", "VIDEO"
    MaxImages,      \* MAX_IMAGES
    MaxRuns,        \* bound: generations
    MaxAssets,      \* bound: assets
    MaxCrashes      \* bound: workers that die

VARIABLES
    run,        \* AgentRun rows: agent, status, asset of the output
    job,        \* the task of each run: "none", "queued", "working", "stored"
    asset,      \* MediaAsset rows that were ever created: kind
    media,      \* those that exist
    studio,     \* each studio on the page
    grid,       \* the page's media query: images, the request, whether the last one failed
    removing,   \* DELETE requests on their way
    told,       \* ghost: images whose success the page was told of
    gone,       \* ghost: images whose removal the page was told of
    crashes

vars == <<run, job, asset, media, studio, grid, removing, told, gone, crashes>>

\* start: a generate mutation; watch: agentRunId; left: files yet to upload
Fresh == [start |-> "idle", of |-> 0, watch |-> 0, left |-> 0, shown |-> 0, error |-> FALSE]

Init ==
    /\ run = <<>> /\ job = <<>> /\ asset = <<>> /\ media = {}
    /\ studio = [k \in Kinds |-> Fresh]
    /\ grid = [images |-> {}, fetch |-> "none", read |-> {}, failed |-> FALSE]
    /\ removing = {} /\ told = {} /\ gone = {} /\ crashes = 0

Runs == DOMAIN run
Set(k, s) == studio' = [studio EXCEPT ![k] = s]
Images(ids) == {a \in ids : asset[a] = "IMAGE"}

\* invalidateQueries: a request under way is dropped and sent again
InvalidatedUnlessAsked(g) == IF g.fetch = "none" THEN [g EXCEPT !.fetch = "asked"] ELSE g
Invalidated(g) == [g EXCEPT !.fetch = "asked", !.read = {}]

-----------------------------------------------------------------------------
(* Generating *)

\* the video studio takes the finished video off the screen
Generate(k) ==
    /\ studio[k].start = "idle" /\ studio[k].watch = 0 /\ Len(run) < MaxRuns
    /\ Set(k, [studio[k] EXCEPT !.start = "asked", !.error = FALSE, !.shown = 0])
    /\ UNCHANGED <<run, job, asset, media, grid, removing, told, gone, crashes>>

\* generateImage, generateVideo: the row first, then the engine, which may
\* queue the task and still not be heard
Enqueue(k) ==
    /\ studio[k].start = "asked" /\ Len(run) < MaxRuns
    /\ run' = Append(run, [agent |-> k, status |-> "QUEUED", asset |-> 0])
    /\ \E queued \in {"none", "queued"} : job' = Append(job, queued)
    /\ Set(k, [studio[k] EXCEPT !.start = "sent", !.of = Len(run) + 1])
    /\ UNCHANGED <<asset, media, grid, removing, told, gone, crashes>>

Refused(k) ==
    /\ studio[k].start = "asked"
    /\ Set(k, [studio[k] EXCEPT !.start = "idle", !.error = TRUE])
    /\ UNCHANGED <<run, job, asset, media, grid, removing, told, gone, crashes>>

\* heard: the run is watched; otherwise the row is FAILED whatever the task has
\* written meanwhile
Accepted(k) ==
    LET s == studio[k]
    IN  /\ s.start = "sent"
        /\ \/ /\ job[s.of] # "none" \/ run[s.of].status # "QUEUED"
              /\ UNCHANGED run
              /\ \/ Set(k, [s EXCEPT !.start = "idle", !.watch = s.of, !.of = 0])
                 \/ Set(k, [s EXCEPT !.start = "idle", !.of = 0, !.error = TRUE])
           \/ /\ run' = [run EXCEPT ![s.of].status = "FAILED"]
              /\ Set(k, [s EXCEPT !.start = "idle", !.of = 0, !.error = TRUE])
        /\ UNCHANGED <<job, asset, media, grid, removing, told, gone, crashes>>

\* RUNNING by id, also a run that has been failed or has succeeded
Start(r) ==
    /\ job[r] = "queued"
    /\ job' = [job EXCEPT ![r] = "working"]
    /\ run' = [run EXCEPT ![r].status = "RUNNING"]
    /\ UNCHANGED <<asset, media, studio, grid, removing, told, gone, crashes>>

\* the asset and the end of the run in one commit
Store(r) ==
    /\ job[r] = "working" /\ Len(asset) < MaxAssets
    /\ asset' = Append(asset, run[r].agent)
    /\ media' = media \cup {Len(asset) + 1}
    /\ run' = [run EXCEPT ![r].status = "SUCCEEDED", ![r].asset = Len(asset) + 1]
    /\ job' = [job EXCEPT ![r] = "stored"]
    /\ UNCHANGED <<studio, grid, removing, told, gone, crashes>>

Fail(r) ==
    /\ job[r] = "working"
    /\ run' = [run EXCEPT ![r].status = "FAILED"]
    /\ job' = [job EXCEPT ![r] = "none"]
    /\ UNCHANGED <<asset, media, studio, grid, removing, told, gone, crashes>>

Acknowledge(r) ==
    /\ job[r] = "stored"
    /\ job' = [job EXCEPT ![r] = "none"]
    /\ UNCHANGED <<run, asset, media, studio, grid, removing, told, gone, crashes>>

WorkerDies(r) ==
    /\ job[r] \in {"working", "stored"} /\ crashes < MaxCrashes
    /\ crashes' = crashes + 1
    /\ job' = [job EXCEPT ![r] = "queued"]
    /\ UNCHANGED <<run, asset, media, studio, grid, removing, told, gone>>

\* reap_stale_runs: by age since creation, so a run may be at work, or done
\* since it was selected
Reap(r) ==
    /\ run[r].status = "RUNNING"
    /\ run' = [run EXCEPT ![r].status = "FAILED"]
    /\ UNCHANGED <<job, asset, media, studio, grid, removing, told, gone, crashes>>

\* every 1.5 or 2 s, until the run has ended
Poll(k) ==
    LET s == studio[k]
        r == run[s.watch]
    IN  /\ s.watch # 0
        /\ \/ /\ r.status = "SUCCEEDED"
              /\ IF k = "IMAGE"
                 THEN /\ Set(k, [s EXCEPT !.watch = 0])
                      /\ grid' = Invalidated(grid)
                      /\ told' = told \cup {r.asset}
                 ELSE /\ Set(k, [s EXCEPT !.watch = 0, !.shown = r.asset])
                      /\ UNCHANGED <<grid, told>>
           \/ /\ r.status = "FAILED"
              /\ Set(k, [s EXCEPT !.watch = 0, !.error = TRUE])
              /\ UNCHANGED <<grid, told>>
        /\ UNCHANGED <<run, job, asset, media, removing, gone, crashes>>

-----------------------------------------------------------------------------
(* Uploads and removals *)

\* images: as many as the grid leaves room for; one video
Pick(k) ==
    /\ studio[k].left = 0
    /\ \E n \in 1..(IF k = "IMAGE" THEN MaxImages - Cardinality(grid.images) ELSE 1) :
         Set(k, [studio[k] EXCEPT !.left = n, !.error = FALSE])
    /\ UNCHANGED <<run, job, asset, media, grid, removing, told, gone, crashes>>

\* one after the other; the page is refreshed after the last one alone
Upload(k) ==
    LET s == studio[k]
        new == Len(asset) + 1
    IN  /\ s.left > 0 /\ Len(asset) < MaxAssets
        /\ asset' = Append(asset, k)
        /\ media' = media \cup {new}
        /\ Set(k, [s EXCEPT !.left = @ - 1, !.shown = IF k = "VIDEO" THEN new ELSE @])
        /\ IF s.left = 1 /\ k = "IMAGE"
           THEN grid' = Invalidated(grid) /\ told' = told \cup {new}
           ELSE UNCHANGED <<grid, told>>
        /\ UNCHANGED <<run, job, removing, gone, crashes>>

\* refused, or stored and not heard; the files after it are not sent
UploadFails(k) ==
    /\ studio[k].left > 0
    /\ Set(k, [studio[k] EXCEPT !.left = 0, !.error = TRUE])
    /\ \/ UNCHANGED <<asset, media>>
       \/ /\ Len(asset) < MaxAssets
          /\ asset' = Append(asset, k)
          /\ media' = media \cup {Len(asset) + 1}
    /\ UNCHANGED <<run, job, grid, removing, told, gone, crashes>>

Discard(a) ==
    /\ a \in grid.images \ removing
    /\ removing' = removing \cup {a}
    /\ UNCHANGED <<run, job, asset, media, studio, grid, told, gone, crashes>>

\* remove: deleted, or not found
Deleted(a) ==
    /\ a \in removing
    /\ removing' = removing \ {a}
    /\ media' = media \ {a}
    /\ IF a \in media
       THEN grid' = Invalidated(grid) /\ gone' = gone \cup {a} /\ UNCHANGED studio
       ELSE UNCHANGED <<grid, gone>> /\ Set("IMAGE", [studio["IMAGE"] EXCEPT !.error = TRUE])
    /\ UNCHANGED <<run, job, asset, told, crashes>>

-----------------------------------------------------------------------------
(* The media query *)

ListRead ==
    /\ grid.fetch = "asked"
    /\ grid' = [grid EXCEPT !.fetch = "read", !.read = Images(media)]
    /\ UNCHANGED <<run, job, asset, media, studio, removing, told, gone, crashes>>

\* one retry; what was on screen stays when that fails too
ListArrives ==
    /\ grid.fetch = "read"
    /\ \/ grid' = [images |-> grid.read, fetch |-> "none", read |-> {}, failed |-> FALSE]
       \/ grid' = [grid EXCEPT !.fetch = "none", !.read = {}, !.failed = TRUE]
    /\ UNCHANGED <<run, job, asset, media, studio, removing, told, gone, crashes>>

Next ==
    \/ \E k \in Kinds : \/ Generate(k) \/ Enqueue(k) \/ Refused(k) \/ Accepted(k) \/ Poll(k)
                        \/ Pick(k) \/ Upload(k) \/ UploadFails(k)
    \/ \E r \in Runs : \/ Start(r) \/ Store(r) \/ Fail(r) \/ Acknowledge(r)
                       \/ WorkerDies(r) \/ Reap(r)
    \/ \E a \in DOMAIN asset : Discard(a) \/ Deleted(a)
    \/ ListRead \/ ListArrives

Spec == Init /\ [][Next]_vars

-----------------------------------------------------------------------------
\* "the count and the grid reflect what will actually publish"
\* (image-studio.tsx): once the list has come, every image whose upload or run
\* the page was told of is in the grid, and none whose removal it was told of,
\* in whichever order uploads, runs, removals and lists overtake each other.
GridShowsWhatWasReported ==
    grid.fetch = "none" /\ ~grid.failed =>
        told \cap media \subseteq grid.images /\ gone \cap grid.images = {}
=============================================================================
