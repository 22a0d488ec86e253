----------------------------- MODULE MCPackages -----------------------------
(***************************************************************************)
(* Packages made and packages restored. The two share nothing but the      *)
(* proxy and the repository, so a behaviour here is one of M3u8sExport or  *)
(* one of HlsRestore, as "part" says, and the other one rests in its       *)
(* initial state, where nothing of it is fair.                             *)
(***************************************************************************)
EXTENDS HlsRestore, FiniteSets

CONSTANTS Videos, Parts, Jobs, MaxExports

VARIABLES
    part,
    phase, stopping, packing, cancelBatch, runGeneration, dispatches, webdav, card, scan, selected,
    videos, known, pendingUploads, uploadFailures, uploading, batchCompleted, cancelExport, status,
    task, keys, staged, output, fallback, remote

Export == INSTANCE M3u8sExport WITH
    running <- packing, generation <- runGeneration, posted <- dispatches, batch <- videos,
    cancelRequested <- cancelExport

ASSUME ExportAssumption == Export!JobsAssumption /\ Export!VideosAssumption /\ Export!PartsAssumption

exportVars ==
    <<phase, stopping, packing, cancelBatch, runGeneration, dispatches, webdav, card, scan, selected, videos, known,
      pendingUploads, uploadFailures, uploading, batchCompleted, cancelExport, status, task, keys, staged, output,
      fallback, remote>>
allVars == <<part, restoreVars, exportVars>>

PartsInit == part \in {"restore", "export"} /\ RestoreInit /\ Export!Init

PartsNext ==
    \/ part = "restore" /\ RestoreNext /\ UNCHANGED <<part, exportVars>>
    \/ part = "export" /\ Export!Next /\ UNCHANGED <<part, restoreVars>>

PartsSpec == PartsInit /\ [][PartsNext]_allVars /\ RestoreFairness /\ Export!Fairness

\* What an export guarantees at every moment: the staging directory is not removed while an upload
\* still reads from it (AppViewModel.cpp:10825), no package exists whose key was not stored before
\* (EncryptedHlsPackager.cpp:932), and a batch is over only when all of its videos are.
ExportInv == part = "export" => Export!ExportInv

\* A cancellation is not taken back by what was under way: no further package or upload appears
\* (EncryptedHlsBatchPackager::startAvailable), and no video counts as restored though FFmpeg, which
\* was told to stop or had lost its stream, exits normally (EncryptedHlsRestorer::processFinished).
CancellationHolds == Export!CancelHolds /\ OnlyWholeVideos

\* An export and a restoration come to an end, whatever fails, hangs and whenever it is canceled,
\* and the page can be used again (AppViewModel.cpp:10780-10850, EncryptedHlsRestorer's watchdog).
JobsEnd == Export!ExportEnds /\ BatchEnds
=============================================================================
