----------------------------- MODULE TsslBackup -----------------------------
(***************************************************************************)
(* The backup and the restore of TSSL packages: TsslBackupService, which   *)
(* transfers files one after another over WebDAV or S3, and the operations *)
(* of AppViewModel that use it.                                            *)
(*                                                                         *)
(* Everything runs on the thread of the interface. The service goes on in  *)
(* callbacks: of a worker that reads a file or parses a listing, of a      *)
(* network reply, or of the timer that delays a retry. An action is one    *)
(* callback or one command of the user, with all it calls synchronously:   *)
(* the abort of a reply runs that reply's handlers, and the end of a       *)
(* service operation runs the view model's callback.                       *)
(***************************************************************************)
EXTENDS Naturals, Sequences, FiniteSets

CONSTANTS
    MaxFiles,      \* bound: the files of an operation
    MaxToken,      \* bound: the continuation tokens a server gives out
    PageLimit,     \* the pages of an S3 listing (10'000 in listS3Page)
    MaximumRetries, \* m_networkPolicy.maximumRetries
    Dir, NoDir     \* the temporary directories under m_restoreDirectory

ASSUME BoundAssumption ==
    MaxFiles \in Nat /\ MaxToken \in Nat /\ PageLimit \in Nat \ {0} /\ MaximumRetries \in Nat
ASSUME NoDirAssumption == NoDir \notin Dir

Token == 0..MaxToken    \* 0: the empty token, of the first page
Callback ==
    [by: {"worker", "reply", "timer"},
     does: {"read", "upload", "list", "parse", "download"},
     arg: Nat,              \* the file, or the token of the page
     current: BOOLEAN]      \* its operation is that of m_operationGeneration

VARIABLES
    \* AppViewModel
    running,       \* m_tsslBackupRunning
    cancelable,    \* m_tsslBackupCancelable
    work,          \* what a worker of the view model is doing
    importing,     \* the directory whose files are imported, NoDir for others
    asked,         \* history: a cancellation of this operation was accepted
    outcome,       \* history: how the last operation ended
    \* TsslBackupService
    busy,          \* m_running
    restoreMode,   \* m_restoreMode
    cancelRequested, retryCount,
    s3,            \* m_target.type
    pending,       \* the callbacks to come
    activeReply,   \* m_activeReply, a set with at most one
    total,         \* m_localFiles.size() or m_remoteFiles.size()
    next,          \* m_nextIndex or m_restoreNextIndex
    moved,         \* the files counted in m_completed, or m_downloadedFiles
    pageTokens,    \* m_s3PageTokens, as many as m_s3Pages
    restorePath, restoreCleanupPath,
    existing       \* the temporary directories that exist

view == <<running, cancelable, work, importing, outcome>>
request == <<asked, cancelRequested>>
files == <<total, next, moved>>
staging == <<restorePath, restoreCleanupPath, existing>>
setting == <<restoreMode, s3>>
vars == <<view, request, busy, setting, retryCount, pending, activeReply, files, pageTokens, staging>>

-----------------------------------------------------------------------------
(* The chain of callbacks *)

Make(by, does, arg) == [by |-> by, does |-> does, arg |-> arg, current |-> TRUE]

\* The callback old is over and the handler leaves new to come.
Continue(old, new) ==
    /\ pending' = (pending \ {old}) \cup {new}
    /\ activeReply' = IF new.by = "reply" THEN {new} ELSE activeReply \ {old}

Stop(old) == pending' = pending \ {old} /\ activeReply' = activeReply \ {old}

\* ++m_operationGeneration: what is still to come belongs to an earlier one.
Begin(new) ==
    /\ pending' = {[c EXCEPT !.current = FALSE] : c \in pending} \cup {new}
    /\ activeReply' = IF new.by = "reply" THEN {new} ELSE activeReply

\* The view model's operation is over.
EndView(result) ==
    /\ running' = FALSE /\ cancelable' = FALSE /\ outcome' = result
    /\ UNCHANGED importing

\* finish(), and the callback of backupTsslToConfiguredTarget.
Finish(result) ==
    /\ busy /\ busy' = FALSE /\ restoreMode' = FALSE
    /\ EndView(result) /\ UNCHANGED <<work, s3, staging>>

\* MUTANT: the directory of a restore that failed is not removed.
FinishRestoreLeavesFiles(result) ==
    /\ busy /\ restoreMode /\ busy' = FALSE /\ restoreMode' = FALSE
    /\ restorePath' = NoDir /\ restoreCleanupPath' = restorePath
    /\ EndView(result) /\ UNCHANGED <<work, s3, existing>>

\* finishRestore() with an error or without files, and the callback of
\* restoreTsslBackup, which calls cleanupRestoreFiles().
FinishRestore(result) ==
    /\ busy /\ restoreMode /\ busy' = FALSE /\ restoreMode' = FALSE
    /\ restorePath' = NoDir /\ restoreCleanupPath' = NoDir
    /\ existing' = existing \ {restorePath}
    /\ EndView(result) /\ UNCHANGED <<work, s3>>

FinishEither(result) ==
    IF restoreMode THEN FinishRestore(result) ELSE Finish(result)

\* finishRestore() with the downloaded files, which restoreTsslBackupFiles imports.
HandOver ==
    /\ busy /\ restoreMode /\ busy' = FALSE /\ restoreMode' = FALSE
    /\ restorePath' = NoDir /\ restoreCleanupPath' = restorePath
    /\ cancelable' = FALSE /\ work' = "import" /\ importing' = restorePath
    /\ UNCHANGED <<running, outcome, s3, existing>>

GoOn == UNCHANGED <<view, busy, setting, staging>>

-----------------------------------------------------------------------------
(* The service's steps, each after the callback c *)

\* uploadNext(); the cancellation was looked at by its callers.
UploadNext(c) ==
    IF next >= total
    THEN Finish("done") /\ Stop(c) /\ UNCHANGED next
    ELSE next' = next + 1 /\ Continue(c, Make("worker", "read", next + 1)) /\ GoOn

\* restoreNext() with n remote files.
RestoreNext(c, n) ==
    \/ /\ n = 0
       /\ FinishRestore("failed") /\ Stop(c) /\ UNCHANGED next
    \/ /\ n > 0 /\ next >= n
       /\ HandOver /\ Stop(c) /\ UNCHANGED next
    \/ /\ next < n
       /\ next' = next + 1 /\ Continue(c, Make("reply", "download", next + 1)) /\ GoOn

\* listS3Page(token), which gives up when the pages do not advance or take
\* longer than the total time; seen are the tokens of the pages before.
ListPage(c, token, seen) ==
    \/ /\ Cardinality(seen) < PageLimit /\ token \notin seen
       /\ pageTokens' = seen \cup {token}
       /\ Continue(c, Make("reply", "list", token)) /\ GoOn
    \/ /\ pageTokens' = seen
       /\ FinishRestore("failed") /\ Stop(c)

\* A worker has read a file, or has failed to.
FileRead(c) ==
    /\ c.by = "worker" /\ c.does = "read"
    /\ \/ cancelRequested /\ Finish("canceled") /\ Stop(c)
       \/ ~cancelRequested /\ Finish("failed") /\ Stop(c)
       \/ ~cancelRequested /\ Continue(c, Make("reply", "upload", c.arg)) /\ GoOn
    /\ UNCHANGED <<request, retryCount, files, pageTokens>>

\* A worker has parsed the WebDAV listing, or a page of the S3 listing.
ListingParsed(c) ==
    /\ c.by = "worker" /\ c.does = "parse"
    /\ \/ /\ IF cancelRequested THEN FinishRestore("canceled") ELSE FinishRestore("failed")
          /\ Stop(c) /\ UNCHANGED <<files, pageTokens>>
       \/ /\ ~cancelRequested
          /\ \E n \in total..MaxFiles :   \* the page's files are appended
                /\ total' = n
                /\ \/ RestoreNext(c, n) /\ UNCHANGED <<moved, pageTokens>>
                   \/ /\ s3
                      /\ \E token \in Token \ {0} : ListPage(c, token, pageTokens)
                      /\ UNCHANGED <<next, moved>>
    /\ UNCHANGED <<request, retryCount>>

\* checkReply() finds that the operation was canceled.
Canceled(c) ==
    FinishEither("canceled") /\ Stop(c) /\ UNCHANGED <<retryCount, files, pageTokens>>

\* MUTANT: a retry is not counted.
FailedUncounted(c, transient) ==
    /\ IF transient /\ retryCount < MaximumRetries
       THEN Continue(c, Make("timer", c.does, c.arg)) /\ GoOn
       ELSE FinishEither("failed") /\ Stop(c)
    /\ UNCHANGED <<retryCount, files, pageTokens>>

\* The reply c has failed: retryReply(), or the end of the operation.
Failed(c, transient) ==
    /\ IF transient /\ retryCount < MaximumRetries
       THEN /\ retryCount' = retryCount + 1
            /\ Continue(c, Make("timer", c.does, c.arg)) /\ GoOn
       ELSE FinishEither("failed") /\ Stop(c) /\ UNCHANGED retryCount
    /\ UNCHANGED <<files, pageTokens>>

\* The reply c has succeeded (checkReply resets the retries).
Succeeded(c) ==
    /\ retryCount' = 0
    /\ \/ /\ c.does = "upload"
          /\ moved' = Append(moved, c.arg) /\ UploadNext(c)
          /\ UNCHANGED <<total, pageTokens>>
       \/ /\ c.does = "list"
          /\ Continue(c, Make("worker", "parse", c.arg)) /\ GoOn
          /\ UNCHANGED <<files, pageTokens>>
       \/ /\ c.does = "download"   \* and is saved in m_restorePath
          /\ moved' = Append(moved, c.arg) /\ RestoreNext(c, total)
          /\ UNCHANGED <<total, pageTokens>>
       \/ /\ c.does = "download"   \* an invalid package, or it cannot be saved
          /\ FinishRestore("failed") /\ Stop(c)
          /\ UNCHANGED <<files, pageTokens>>

\* A reply ends by itself, by a refusal or by one of its two timers.
ReplyFinished(c) ==
    /\ c.by = "reply"
    /\ IF cancelRequested
       THEN Canceled(c)
       ELSE Succeeded(c) \/ \E transient \in BOOLEAN : Failed(c, transient)
    /\ UNCHANGED request

\* The timer of a retry.
RetryTimer(c) ==
    /\ c.by = "timer"
    /\ IF ~busy \/ ~c.current
       THEN Stop(c) /\ GoOn /\ UNCHANGED pageTokens
       ELSE IF cancelRequested
       THEN FinishEither("canceled") /\ Stop(c) /\ UNCHANGED pageTokens
       ELSE IF c.does = "list" /\ s3
       THEN ListPage(c, c.arg, pageTokens \ {c.arg})
       ELSE Continue(c, Make("reply", c.does, c.arg)) /\ GoOn /\ UNCHANGED pageTokens
    /\ UNCHANGED <<request, retryCount, files>>

-----------------------------------------------------------------------------
(* The view model's operations *)

ServiceUnchanged ==
    UNCHANGED <<busy, cancelRequested, setting, retryCount, pending, activeReply, files,
                pageTokens>>

\* backupTsslToConfiguredTarget(), to a local folder or to a server.
Backup(place) ==
    /\ ~running
    /\ running' = TRUE /\ cancelable' = FALSE
    /\ work' = IF place = "local" THEN "scanLocal" ELSE "scanRemote"
    /\ asked' = FALSE /\ outcome' = "none"
    /\ ServiceUnchanged /\ UNCHANGED <<importing, staging>>

\* MUTANT: m_cancelRequested keeps what the operation before left in it.
BeginServiceStaysCanceled(restoring, onS3, callback) ==
    /\ ~busy /\ busy' = TRUE /\ UNCHANGED cancelRequested /\ retryCount' = 0
    /\ restoreMode' = restoring /\ s3' = onS3 /\ moved' = <<>>
    /\ Begin(callback)

\* The fields both backup() and restore() of the service reset.
BeginService(restoring, onS3, callback) ==
    /\ ~busy /\ busy' = TRUE /\ cancelRequested' = FALSE /\ retryCount' = 0
    /\ restoreMode' = restoring /\ s3' = onS3 /\ moved' = <<>>
    /\ Begin(callback)

\* The packages are listed: nothing to back up, no credentials or an invalid
\* target; a local copy; or the service's backup() of n files.
ScanDone ==
    /\ work \in {"scanLocal", "scanRemote"}
    /\ \/ EndView("failed") /\ work' = "none" /\ ServiceUnchanged
       \/ /\ work = "scanLocal" /\ work' = "copy"
          /\ UNCHANGED <<running, cancelable, importing, outcome>> /\ ServiceUnchanged
       \/ /\ work = "scanRemote" /\ work' = "none"
          /\ cancelable' = TRUE /\ UNCHANGED <<running, importing, outcome>>
          /\ total' \in 1..MaxFiles /\ next' = 1
          /\ \E onS3 \in BOOLEAN : BeginService(FALSE, onS3, Make("worker", "read", 1))
          /\ UNCHANGED pageTokens
    /\ UNCHANGED <<asked, staging>>

CopyDone ==
    /\ work = "copy" /\ work' = "none"
    /\ \E result \in {"done", "failed"} : EndView(result)
    /\ ServiceUnchanged /\ UNCHANGED <<asked, staging>>

\* restoreTsslBackup() from a local folder.
RestoreLocal ==
    /\ ~running
    /\ running' = TRUE /\ cancelable' = FALSE /\ work' = "import" /\ importing' = NoDir
    /\ asked' = FALSE /\ outcome' = "none"
    /\ ServiceUnchanged /\ UNCHANGED staging

\* restoreTsslBackup() from a server, with restore() of the service.
RestoreRemote ==
    /\ ~running
    /\ running' = TRUE /\ cancelable' = TRUE /\ asked' = FALSE /\ outcome' = "none"
    /\ \E onS3 \in BOOLEAN :
        /\ BeginService(TRUE, onS3, Make("reply", "list", 0))
        /\ pageTokens' = IF onS3 THEN {0} ELSE pageTokens
    /\ total' = 0 /\ next' = 0
    /\ \E d \in Dir \ existing : restorePath' = d /\ existing' = existing \cup {d}
    /\ UNCHANGED <<work, importing, restoreCleanupPath>>

\* The same when the service refuses the target: the callback ends the
\* operation at once, and calls cleanupRestoreFiles().
RestoreRefused ==
    /\ ~running
    /\ asked' = FALSE /\ outcome' = "failed"
    /\ restoreCleanupPath' = NoDir /\ existing' = existing \ {restoreCleanupPath}
    /\ ServiceUnchanged /\ UNCHANGED <<running, cancelable, work, importing, restorePath>>

\* The same when the directory cannot be made, after the fields are reset.
NoRestoreDirectory ==
    /\ ~running
    /\ asked' = FALSE /\ outcome' = "failed"
    /\ ~busy /\ cancelRequested' = FALSE /\ retryCount' = 0
    /\ restoreMode' = FALSE /\ s3' \in BOOLEAN
    /\ pending' = {[c EXCEPT !.current = FALSE] : c \in pending}
    /\ total' = 0 /\ next' = 0 /\ moved' = <<>>
    /\ restorePath' = NoDir /\ restoreCleanupPath' = NoDir
    /\ UNCHANGED <<running, cancelable, work, importing, busy, activeReply, pageTokens, existing>>

\* The packages are imported, and cleanupRestoreFiles() removes their directory.
ImportDone ==
    /\ work = "import" /\ work' = "none" /\ importing' = NoDir
    /\ restoreCleanupPath' = NoDir /\ existing' = existing \ {restoreCleanupPath}
    /\ running' = FALSE /\ cancelable' = FALSE /\ outcome' = "done"
    /\ ServiceUnchanged /\ UNCHANGED <<asked, restorePath>>

\* cancelTsslBackup(): the abort of the active reply ends the operation before
\* cancel() returns; a worker or a timer ends it later.
Cancel ==
    /\ running /\ cancelable
    /\ cancelRequested' = TRUE /\ asked' = TRUE
    /\ \/ \E c \in activeReply : Canceled(c)
       \/ /\ activeReply = {}
          /\ cancelable' = FALSE
          /\ UNCHANGED <<running, work, importing, outcome, busy, setting, retryCount,
                         pending, activeReply, files, pageTokens, staging>>

-----------------------------------------------------------------------------
Init ==
    /\ running = FALSE /\ cancelable = FALSE /\ work = "none" /\ importing = NoDir
    /\ asked = FALSE /\ outcome = "none"
    /\ busy = FALSE /\ restoreMode = FALSE /\ cancelRequested = FALSE /\ retryCount = 0
    /\ s3 = FALSE /\ pending = {} /\ activeReply = {}
    /\ total = 0 /\ next = 0 /\ moved = <<>> /\ pageTokens = {}
    /\ restorePath = NoDir /\ restoreCleanupPath = NoDir /\ existing = {}

ServiceStep == \E c \in pending :
    FileRead(c) \/ ListingParsed(c) \/ ReplyFinished(c) \/ RetryTimer(c)

Command ==
    \/ \E place \in {"local", "remote"} : Backup(place)
    \/ RestoreLocal \/ RestoreRemote \/ RestoreRefused \/ NoRestoreDirectory
    \/ Cancel

Next == Command \/ ServiceStep \/ ScanDone \/ CopyDone \/ ImportDone

Spec == Init /\ [][Next]_vars

\* Workers and timers end, and the idle timer and the deadline of wireReply()
\* end every reply. Nothing is assumed of the user.
Fairness ==
    WF_vars(ServiceStep) /\ WF_vars(ScanDone) /\ WF_vars(CopyDone) /\ WF_vars(ImportDone)

FairSpec == Spec /\ Fairness

-----------------------------------------------------------------------------
(* Correctness *)

\* Every variable has its type, and what counts files stays within the files.
TypeOK ==
    /\ running \in BOOLEAN /\ cancelable \in BOOLEAN /\ asked \in BOOLEAN
    /\ work \in {"none", "scanLocal", "scanRemote", "copy", "import"}
    /\ outcome \in {"none", "done", "failed", "canceled"}
    /\ busy \in BOOLEAN /\ restoreMode \in BOOLEAN /\ cancelRequested \in BOOLEAN
    /\ s3 \in BOOLEAN /\ retryCount \in 0..MaximumRetries
    /\ pending \subseteq Callback /\ activeReply \subseteq Callback
    /\ total \in 0..MaxFiles /\ next \in 0..total /\ moved \in Seq(1..MaxFiles)
    /\ pageTokens \subseteq Token
    /\ {importing, restorePath, restoreCleanupPath} \subseteq Dir \cup {NoDir}
    /\ existing \subseteq Dir

\* The service is one chain of callbacks: while it runs exactly one is to come,
\* of this operation, and m_activeReply is that one when it is a reply. Not
\* running, it has nothing to come that could disturb a later operation.
OneChain ==
    /\ IF busy THEN \E c \in pending : pending = {c} /\ c.current ELSE pending = {}
    /\ activeReply = {c \in pending : c.by = "reply"}

\* The view model and the service agree: the interface shows an operation
\* while one of them works on it, and offers to cancel it exactly while the
\* service runs and has not been told.
ViewHonest ==
    /\ running <=> (busy \/ work # "none")
    /\ ~(busy /\ work # "none")
    /\ cancelable <=> (busy /\ ~cancelRequested)

\* A directory of downloaded packages is there until their import is over, and
\* no directory outlives the operation it was made for.
StagingSafe ==
    /\ importing # NoDir => importing \in existing /\ restoreCleanupPath = importing
    /\ existing = {restorePath, importing} \ {NoDir}

\* Success is complete: however often requests were repeated, a backup that
\* reports success has sent, and a restore that imports has downloaded, every
\* file once and in order.
CompleteSuccess ==
    [][busy /\ ~busy' /\ (outcome' = "done" \/ work' = "import")
         => moved' = [i \in 1..total' |-> i]]_vars

\* Once a cancellation is accepted, the operation sends no further request.
CancelStopsRequests ==
    [][cancelRequested /\ cancelRequested'
         => \A c \in pending' : c.by = "reply" => c \in pending]_vars

\* The user is told the truth of every operation: one outcome each, "canceled"
\* exactly when a cancellation was accepted.
Operation == INSTANCE CancelableOperation WITH busy <- running
OneOutcome == Operation!Spec

\* Every operation ends, whatever the server does and whether or not it is
\* canceled.
OperationEnds == running ~> ~running
=============================================================================
