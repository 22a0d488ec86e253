---------------------------- MODULE M3u8sExport ----------------------------
(***************************************************************************)
(* The export of videos as encrypted HLS packages: the view model's batch, *)
(* EncryptedHlsBatchPackager with its parallel EncryptedHlsPackager jobs,  *)
(* and the uploads of the finished packages through TransferManager.       *)
(*                                                                         *)
(* All handlers run on the thread of the interface; FFmpeg, the workers    *)
(* that probe, encrypt and archive, the timer of the next dispatch and the *)
(* network come back to it in any order. A package is identified with its  *)
(* video: its key and its name are derived from random bytes. Its content  *)
(* is one upload task, and so is the folder it may be in.                  *)
(***************************************************************************)
EXTENDS Naturals, FiniteSets

CONSTANTS
    Videos,      \* the videos there are; each is exported once
    Parts,       \* the uploads of a package: its "file", perhaps its "folder"
    Jobs,        \* m_parallelJobs, 1..4
    MaxExports   \* bound: the batches

JobsAssumption == Jobs \in Nat \ {0}
VideosAssumption == IsFiniteSet(Videos)
PartsAssumption == Parts \in {{"file"}, {"folder", "file"}}

Tasks == Videos \X Parts
ActivePhases == {"probing", "segmenting", "encrypting", "archiving"}
Phases == {"new", "waiting", "completed", "failed", "canceled"} \cup ActivePhases
Ends == {"canceled", "failed", "packaged", "uploadPartial", "uploadCompleted"}

VARIABLES
    \* EncryptedHlsPackager, by the video it works on
    phase,            \* m_phase; "waiting": in m_request, not dispatched
    stopping,         \* the packagers whose m_cancelRequested is set
    \* EncryptedHlsBatchPackager
    running, cancelBatch,
    generation,       \* m_runGeneration
    posted,           \* the generations of the dispatch timers that are due
    \* AppViewModel
    webdav,           \* m_m3u8sOutputMode
    card,             \* m_m3u8sWebDavCard is there
    scan,             \* m_m3u8sPreparing, and what m_m3u8sSourceScanCanceled says
    selected,         \* m_m3u8sSelectedSources, the videos found there
    batch,            \* the videos of the present export
    known,            \* the tasks in m_m3u8sUploadTaskPaths
    pendingUploads, uploadFailures,
    uploading, batchCompleted, cancelRequested,
    status,           \* of the last export
    \* TransferManager
    task,
    \* what is stored
    keys,             \* the TSSL entries of the repository
    staged,           \* the packages in the staging directory
    output,           \* those in the chosen local directory
    fallback, remote

job == <<phase, stopping>>
queue == <<running, cancelBatch, generation, posted>>
uploads == <<known, pendingUploads, uploadFailures, uploading, task>>
export == <<batchCompleted, cancelRequested, status>>
disk == <<keys, staged, output, fallback, remote>>
source == <<selected, batch>>
vars == <<job, queue, webdav, card, scan, source, uploads, export, disk>>

Active == {v \in Videos : phase[v] \in ActivePhases}
In(p) == {v \in Videos : phase[v] = p}

\* Those of m_request.packages from m_nextRequestIndex on. What a canceled batch left behind
\* is forgotten with its request.
Waiting == In("waiting") \cap batch

\* m3u8sPackaging()
Packaging == scan # "none" \/ running \/ uploading

Init ==
    /\ phase = [v \in Videos |-> "new"] /\ stopping = {}
    /\ running = FALSE /\ cancelBatch = FALSE /\ generation = 0 /\ posted = {}
    /\ webdav = FALSE /\ card = TRUE /\ scan = "none" /\ selected = {} /\ batch = {}
    /\ known = {} /\ pendingUploads = 0 /\ uploadFailures = 0 /\ uploading = FALSE
    /\ task = [t \in Tasks |-> "none"]
    /\ batchCompleted = FALSE /\ cancelRequested = FALSE /\ status = "none"
    /\ keys = {} /\ staged = {} /\ output = {} /\ fallback = {} /\ remote = {}

-----------------------------------------------------------------------------
(* The end of an export *)

\* MUTANT: the uploads that are still to come are forgotten.
ReadyEarly(pending, completed) == completed

\* finishM3u8sExportIfReady: what it waits for.
Ready(pending, completed) == completed /\ pending = 0

\* finishM3u8sExportIfReady after a handler that leaves these values; last is
\* the status that handler shows.
FinishIfReady(pending, failures, completed, last) ==
    IF Ready(pending, completed)
    THEN /\ uploading' = FALSE
         /\ staged' = staged \ batch
         /\ status' = IF cancelRequested' THEN "canceled"
                      ELSE IF failures > 0 THEN "uploadPartial" ELSE "uploadCompleted"
    ELSE UNCHANGED <<uploading, staged>> /\ status' = last

\* The view model's handlers of completed and canceled, after the last job.
BatchEnds(result, pending, failures) ==
    /\ running' = FALSE
    /\ IF webdav
       THEN batchCompleted' = TRUE /\ FinishIfReady(pending, failures, TRUE, result)
       ELSE status' = result /\ UNCHANGED <<batchCompleted, uploading, staged>>

-----------------------------------------------------------------------------
(* The view model starts an export *)

Selects(videos) ==
    /\ ~Packaging /\ selected' = videos
    /\ UNCHANGED <<job, queue, webdav, card, scan, batch, uploads, export, disk>>

\* addM3u8sVideoSource: a file dialog's answer; a file that is selected stays so.
AddVideo(v) == phase[v] = "new" /\ v \notin selected /\ Selects(selected \cup {v})

\* addM3u8sFolderSource: the videos below a folder.
AddFolder == \E some \in SUBSET In("new") : Selects(selected \cup some)

\* removeM3u8sSource, clearM3u8sSources
RemoveSource == \E some \in SUBSET selected : Selects(selected \ some)

\* createM3u8sFromSelectedSources, up to the worker that looks for the videos.
\* The old staging directory, if there is one, is removed with its owner.
Create ==
    /\ ~Packaging /\ generation < MaxExports /\ selected # {}
    /\ \E mode \in BOOLEAN : (mode => card) /\ webdav' = mode
    /\ batch' = selected /\ selected' = {}
    /\ scan' = "scanning"
    /\ known' = {} /\ pendingUploads' = 0 /\ uploadFailures' = 0 /\ uploading' = FALSE
    /\ batchCompleted' = FALSE /\ cancelRequested' = FALSE /\ status' = "working"
    /\ UNCHANGED <<job, queue, card, task, disk>>

\* EncryptedHlsSourcePlanner::plan, in a worker that polls the cancellation.
plan == {"sources", "error"}

\* The plan could not be made, or its making was canceled.
PlanFails ==
    /\ scan # "none" /\ scan' = "none"
    /\ \E result \in plan : scan = "canceled" \/ result = "error"
    /\ cancelRequested' = (cancelRequested \/ scan = "canceled")
    /\ status' = IF scan = "canceled" THEN "canceled" ELSE "failed"
    /\ UNCHANGED <<job, queue, webdav, card, source, uploads, batchCompleted, disk>>

-----------------------------------------------------------------------------
(* EncryptedHlsBatchPackager *)

\* The packagers that a dispatch starts, and those it cannot start, out of
\* the videos that wait: as many as there are free workers.
Dispatched(waiting, busy) ==
    {d \in (SUBSET waiting) \X (SUBSET waiting) :
        LET started == d[1]  refused == d[2] IN
        /\ started \cap refused = {}
        /\ Cardinality(busy \cup started) <= Jobs
        /\ IF Cardinality(busy) >= Jobs THEN refused = {}
           ELSE \/ started \cup refused = waiting
                \/ Cardinality(busy \cup started) = Jobs}

\* dispatchAvailable: nothing runs and nothing waits.
LastOne(waiting, busy) == busy = {} /\ waiting = {}

\* start() of a packager: with automatic encoding the codec is probed first.
StartPhases == {"probing", "segmenting"}

\* The arguments may turn out not to fit the codec.
buildFfmpegArguments == {"arguments", "error"}

\* launchFfmpeg
LaunchPhases ==
    {IF result = "arguments" THEN "segmenting" ELSE "failed" : result \in buildFfmpegArguments}

\* The loop of dispatchAvailable over the waiting videos; a launch that fails
\* at once posts a timer.
DispatchLoop(waiting) ==
    \E d \in Dispatched(waiting, Active), first \in StartPhases, again \in BOOLEAN :
        LET started == d[1]  refused == d[2] IN
        /\ again => refused # {}
        /\ phase' = [v \in Videos |->
               IF v \in started THEN first
               ELSE IF v \in refused THEN "failed"
               ELSE IF v \in waiting THEN "waiting" ELSE phase[v]]
        /\ posted' = IF again THEN posted \cup {generation'} ELSE posted \ {generation'}
        /\ IF LastOne(waiting \ (started \cup refused), Active \cup started)
           THEN BatchEnds(IF \E v \in batch : phase'[v] = "failed" THEN "failed" ELSE "packaged",
                          pendingUploads, uploadFailures)
           ELSE running' = TRUE /\ UNCHANGED <<uploading, staged, batchCompleted, status>>

\* The plan is there: start() of the batch and its first dispatch.
PlanDone ==
    /\ scan = "scanning" /\ scan' = "none" /\ ~running
    /\ generation' = generation + 1 /\ cancelBatch' = FALSE /\ stopping' = {}
    /\ UNCHANGED cancelRequested
    /\ DispatchLoop(batch)
    /\ UNCHANGED <<webdav, card, source, known, pendingUploads, uploadFailures, task,
                   keys, output, fallback, remote>>

\* The timer of scheduleDispatch. A timer of an earlier batch does nothing.
Dispatch(g) ==
    /\ g \in posted
    /\ UNCHANGED <<generation, stopping, cancelBatch, cancelRequested>>
    /\ IF g # generation \/ ~running \/ (cancelBatch /\ Active # {})
       THEN /\ posted' = posted \ {g}
            /\ UNCHANGED <<phase, running, uploading, staged, batchCompleted, status>>
       ELSE IF cancelBatch
       THEN /\ posted' = posted \ {g}
            /\ BatchEnds("canceled", pendingUploads, uploadFailures) /\ UNCHANGED phase
       ELSE DispatchLoop(Waiting)
    /\ UNCHANGED <<webdav, card, scan, source, known, pendingUploads, uploadFailures, task,
                   keys, output, fallback, remote>>

-----------------------------------------------------------------------------
(* EncryptedHlsPackager *)

\* MUTANT: a canceled job does not ask for the next dispatch.
JobEndsSilently(v, how) ==
    /\ phase' = [phase EXCEPT ![v] = how]
    /\ stopping' = stopping \ {v}
    /\ posted' = IF how = "canceled" THEN posted ELSE posted \cup {generation}
    /\ cancelBatch' = (cancelBatch \/ how = "canceled")

\* finishFailure or finishCanceled, and the batch's handler of it.
JobEnds(v, how) ==
    /\ phase' = [phase EXCEPT ![v] = how]
    /\ stopping' = stopping \ {v}
    /\ posted' = posted \cup {generation}
    /\ cancelBatch' = (cancelBatch \/ how = "canceled")

\* MUTANT: what the worker did while the cancellation came is taken.
GoesOnAnyway(v) == v \in Videos

\* The handlers of the stages: a cancellation is looked at first.
GoesOn(v) == v \notin stopping

Unpublished == UNCHANGED <<running, generation, webdav, card, scan, source, uploads, export, disk>>

\* What the workers come back with. They look at the flag of the cancellation
\* now and then, and those that are nearly done may still succeed.
probeVideoCodec == {"codec", "error"}
validateGeneratedVideoTrack == {"valid", "error"}
encryptHlsDirectory == {"prepared", "error"}
buildTar == {"index", "error"}

\* The outcome of a stage that leaves no package: the next stage, a failure,
\* or the cancellation.
StageEnds(v, ok, next) ==
    /\ \/ /\ GoesOn(v) /\ ok
          /\ phase' = [phase EXCEPT ![v] = next]
          /\ UNCHANGED <<stopping, posted, cancelBatch>>
       \/ GoesOn(v) /\ ~ok /\ JobEnds(v, "failed")
       \/ v \in stopping /\ JobEnds(v, "canceled")
    /\ Unpublished

\* handleCodecProbeFinished
ProbeDone(v) ==
    /\ phase[v] = "probing"
    /\ \E codec \in probeVideoCodec, next \in LaunchPhases :
          StageEnds(v, codec = "codec" /\ next # "failed", next)

\* handleFfmpegFinished: beginEncryption
FfmpegDone(v) ==
    /\ phase[v] = "segmenting"
    /\ \E normal \in BOOLEAN : StageEnds(v, normal, "encrypting")

\* The handler of FailedToStart does not ask for the cancellation.
FfmpegCannotStart(v) ==
    phase[v] = "segmenting" /\ JobEnds(v, "failed") /\ Unpublished

PublishOrder == <<"key", "package">>

\* What is stored after the first n steps.
Stored(n, thing) == \E i \in 1..n : PublishOrder[i] = thing

\* The two places of a package: the staging directory of an upload, or the
\* directory the user chose.
PackageStored(v, is) ==
    /\ output' = IF is /\ ~webdav THEN output \cup {v} ELSE output
    /\ staged' = IF is /\ webdav THEN staged \cup {v} ELSE staged

\* enqueueM3u8sPackageUpload: each task is counted.
EnqueuedPending == pendingUploads + Cardinality(Parts)

\* The batch's handler of completed and the view model's of itemCompleted.
\* Without a card a package is neither uploaded nor copied.
Enqueue(v) ==
    IF webdav /\ card
    THEN /\ task' = [t \in Tasks |-> IF t[1] = v THEN "queued" ELSE task[t]]
         /\ known' = known \cup {t \in Tasks : t[1] = v}
         /\ pendingUploads' = EnqueuedPending
         /\ uploading' = TRUE
    ELSE UNCHANGED <<task, known, pendingUploads, uploading>>

\* savePackage, rename, and the package is announced.
Publish(v) ==
    /\ GoesOn(v)
    /\ keys' = keys \cup {v} /\ PackageStored(v, TRUE)
    /\ phase' = [phase EXCEPT ![v] = "completed"] /\ stopping' = stopping \ {v}
    /\ posted' = posted \cup {generation}
    /\ Enqueue(v)
    /\ UNCHANGED <<running, cancelBatch, generation, webdav, card, scan, source,
                   uploadFailures, export, fallback, remote>>

\* handleEncryptionFinished: an archive is made next, or a directory is
\* published. When that fails the key is deleted again.
EncryptionDone(v) ==
    /\ phase[v] = "encrypting"
    /\ \E valid \in validateGeneratedVideoTrack, prepared \in encryptHlsDirectory :
          LET ok == valid = "valid" /\ prepared = "prepared" IN
          StageEnds(v, ok, "archiving") \/ (ok /\ Publish(v)) \/ StageEnds(v, FALSE, "archiving")

\* handleTarFinished, the same for an archive.
TarDone(v) ==
    /\ phase[v] = "archiving"
    /\ \E tar \in buildTar : (tar = "index" /\ Publish(v)) \/ StageEnds(v, FALSE, "completed")

-----------------------------------------------------------------------------
(* The uploads *)

\* TransferManager starts a task.
UploadStarts(t) ==
    /\ task[t] = "queued" /\ task' = [task EXCEPT ![t] = "running"]
    /\ UNCHANGED <<job, queue, webdav, card, scan, source, known, pendingUploads,
                   uploadFailures, uploading, export, disk>>

\* copyM3u8sPath: whether the package reaches the fallback directory.
copyM3u8sPath(t) == IF t[2] = "file" /\ t[1] \in staged THEN BOOLEAN ELSE {FALSE}

\* The handler of taskFinished. A failed file is copied to the fallback
\* directory, and one that succeeded if the user wants it; a copy may fail.
UploadEnds(t) ==
    /\ task[t] \in {"running", "aborting"} /\ t \in known
    /\ task' = [task EXCEPT ![t] = "ended"]
    /\ \E ok \in BOOLEAN, copied \in copyM3u8sPath(t) :
        /\ ok => task[t] = "running"
        /\ remote' = IF ok /\ t[2] = "file" THEN remote \cup {t[1]} ELSE remote
        /\ fallback' = IF copied THEN fallback \cup {t[1]} ELSE fallback
        /\ uploadFailures' = IF ok THEN uploadFailures ELSE uploadFailures + 1
        /\ known' = known \ {t} /\ pendingUploads' = pendingUploads - 1
        /\ UNCHANGED cancelRequested
        /\ FinishIfReady(pendingUploads', uploadFailures', batchCompleted, status)
    /\ UNCHANGED <<job, queue, webdav, card, scan, source, batchCompleted, keys, output>>

-----------------------------------------------------------------------------
(* The user and the services *)

\* The tasks that the loop of cancelM3u8sPackaging comes to. A waiting task
\* ends at once and is taken from the table the loop iterates over, which may
\* skip others.
LoopVisits ==
    {some \in SUBSET known :
        /\ known # {} => some # {}
        /\ some # known => \E t \in some : task[t] = "queued"}

\* cancelM3u8sPackaging
Cancel ==
    /\ Packaging /\ cancelRequested' = TRUE
    /\ IF scan # "none"
       THEN scan' = "canceled" /\ UNCHANGED <<job, queue, uploads, batchCompleted, status, disk>>
       ELSE \E visited \in LoopVisits :
            LET atOnce == {t \in visited : task[t] = "queued"}
                left == pendingUploads - Cardinality(atOnce)
                failed == uploadFailures + Cardinality(atOnce) IN
            /\ cancelBatch' = (cancelBatch \/ running)
            /\ stopping' = IF running THEN Active ELSE stopping
            /\ task' = [t \in Tasks |-> IF t \in atOnce THEN "ended"
                           ELSE IF t \in visited THEN "aborting" ELSE task[t]]
            /\ known' = known \ atOnce /\ pendingUploads' = left /\ uploadFailures' = failed
            /\ \E copied \in SUBSET {t[1] : t \in {u \in atOnce : TRUE \in copyM3u8sPath(u)}} :
                  fallback' = fallback \cup copied
            /\ IF running /\ Active = {}
               THEN BatchEnds("canceled", left, failed)
               ELSE /\ UNCHANGED <<running, batchCompleted>>
                    /\ FinishIfReady(left, failed, batchCompleted, status)
            /\ UNCHANGED <<phase, generation, posted, scan, keys, output, remote>>
    /\ UNCHANGED <<webdav, card, source>>

\* refreshServiceCards when privacy is locked, or applyServiceCards when the
\* service is no longer there; and applyServiceCards when it is back.
CardChanges ==
    /\ card' = ~card
    /\ UNCHANGED <<job, queue, webdav, scan, source, uploads, export, disk>>

\* The process ends; a handler that publishes a package may be cut off after
\* any of its steps.
Crash ==
    /\ \E n \in 0..2, v \in Videos :
        /\ n > 0 => phase[v] \in {"encrypting", "archiving"} /\ v \notin stopping
        /\ keys' = IF Stored(n, "key") THEN keys \cup {v} ELSE keys
        /\ PackageStored(v, Stored(n, "package"))
    /\ phase' = [v \in Videos |-> IF phase[v] \in ActivePhases \cup {"waiting"}
                                  THEN "failed" ELSE phase[v]]
    /\ stopping' = {} /\ running' = FALSE /\ cancelBatch' = FALSE /\ posted' = {}
    /\ scan' = "none" /\ selected' = {} /\ batch' = {}
    /\ known' = {} /\ pendingUploads' = 0 /\ uploadFailures' = 0 /\ uploading' = FALSE
    /\ task' = [t \in Tasks |-> "none"]
    /\ batchCompleted' = FALSE /\ cancelRequested' = FALSE /\ status' = "none"
    /\ UNCHANGED <<generation, webdav, card, fallback, remote>>

-----------------------------------------------------------------------------
JobStep == \E v \in Videos :
    ProbeDone(v) \/ FfmpegDone(v) \/ FfmpegCannotStart(v) \/ EncryptionDone(v) \/ TarDone(v)

Next ==
    \/ AddFolder \/ RemoveSource \/ \E v \in Videos : AddVideo(v)
    \/ Create \/ PlanFails \/ PlanDone \/ Cancel \/ CardChanges \/ Crash
    \/ \E g \in 1..MaxExports : Dispatch(g)
    \/ JobStep
    \/ \E t \in Tasks : UploadStarts(t) \/ UploadEnds(t)

Spec == Init /\ [][Next]_vars

\* FFmpeg and the workers end (a canceled FFmpeg is killed after two seconds),
\* timers fire, and TransferManager ends what it is given.
Fairness ==
    /\ WF_vars(PlanFails \/ PlanDone)
    /\ \A g \in 1..MaxExports : WF_vars(Dispatch(g))
    /\ \A v \in Videos : WF_vars(ProbeDone(v)) /\ WF_vars(FfmpegDone(v))
                         /\ WF_vars(EncryptionDone(v)) /\ WF_vars(TarDone(v))
    /\ \A t \in Tasks : WF_vars(UploadStarts(t)) /\ WF_vars(UploadEnds(t))

FairSpec == Spec /\ Fairness

-----------------------------------------------------------------------------
TypeOK ==
    /\ phase \in [Videos -> Phases] /\ stopping \subseteq Active
    /\ running \in BOOLEAN /\ cancelBatch \in BOOLEAN
    /\ generation \in Nat /\ posted \subseteq 1..generation
    /\ webdav \in BOOLEAN /\ card \in BOOLEAN
    /\ scan \in {"none", "scanning", "canceled"} /\ selected \subseteq In("new") /\ batch \subseteq Videos
    /\ known \subseteq Tasks /\ pendingUploads \in Nat /\ uploadFailures \in Nat
    /\ uploading \in BOOLEAN /\ batchCompleted \in BOOLEAN /\ cancelRequested \in BOOLEAN
    /\ status \in {"none", "working"} \cup Ends
    /\ task \in [Tasks -> {"none", "queued", "running", "aborting", "ended"}]
    /\ keys \subseteq Videos /\ staged \subseteq Videos /\ output \subseteq Videos
    /\ fallback \subseteq Videos /\ remote \subseteq Videos

\* The staging directory is not removed while an upload still reads from it:
\* a task that has not ended has its package there.
StagingWhileNeeded ==
    \A t \in Tasks : task[t] \in {"queued", "running", "aborting"} => t[1] \in staged

\* No package exists, wherever, that could never be played: its key was stored
\* before it, and a crash at any point leaves it there.
KeyBeforePackage == output \cup staged \cup fallback \cup remote \subseteq keys

\* A batch is over only when every one of its videos is: no packager works on,
\* none waits, and the free slots belong to nobody.
NoJobOutlivesBatch ==
    /\ Cardinality(Active) <= Jobs
    /\ ~running => Active = {} /\ (~cancelBatch => Waiting = {})

\* What an export of packages guarantees whatever is canceled and whatever fails:
\* the files an upload reads stay, a package is never without its key, and a batch
\* ends with its jobs (EncryptedHlsBatchPackager, finishM3u8sExportIfReady).
ExportInv == TypeOK /\ StagingWhileNeeded /\ KeyBeforePackage /\ NoJobOutlivesBatch

\* After a cancellation of the batch no further package appears and no
\* further upload is added.
CancelHolds ==
    [][cancelBatch /\ running /\ running' => staged' \subseteq staged /\ output' = output
                      /\ known' \subseteq known]_vars

\* An export comes to an end, whatever fails and whenever it is canceled, and
\* the page can be used again.
ExportEnds == Packaging ~> ~Packaging
=============================================================================
