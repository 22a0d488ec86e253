--------------------------- MODULE TransferManager ---------------------------
(***************************************************************************)
(* The run-time transfer queue of the WebDAV client                        *)
(* (services/webdav/TransferManager.cpp): uploads, downloads and remote    *)
(* directory creations (MKCOL), alone or as the children of a folder       *)
(* ("group"), with pause, resume, cancel, retry and automatic retry.       *)
(*                                                                         *)
(* Everything runs on one Qt thread, so an action is one run of the event  *)
(* loop: a slot called from the UI, a reply's finished signal, a retry     *)
(* timer, or the zero timer by which a finished task asks for the next.    *)
(* QNetworkReply::abort() emits finished before it returns, so the code's  *)
(* requestedStop mark never outlives the slot that sets it.                *)
(***************************************************************************)
EXTENDS Integers, Sequences, FiniteSets, Subsequences

CONSTANTS
    Task,                     \* the files and directories to transfer
    Group,                    \* the folder tasks
    NoGroup,                  \* the parent of a flat task
    Parent,                   \* Task -> Group or NoGroup: TransferTask::parentId
    GroupOrder,               \* Group -> its children in order: GroupState::taskIds
    IsUpload,                 \* the upload groups: GroupState::isUpload
    Direction,                \* Task -> "upload" | "download" | "mkdir"
    RetainPartial,            \* the tasks with QueuedTask::retainPartial
    StrongEtag,               \* the tasks whose resumeEtag is a strong validator
    SizeKnown,                \* the tasks whose bytesTotal is not negative
    MaxConcurrentDownloads,   \* maxConcurrentDownloads
    MaxAutomaticRetryCount    \* maxAutomaticRetryCount

Members(g) == {t \in Task : Parent[t] = g}

ASSUME TaskAssumption == IsFiniteSet(Task)
ASSUME LimitAssumption ==
    /\ MaxConcurrentDownloads \in Nat \ {0}
    /\ MaxAutomaticRetryCount \in Nat
ASSUME DirectionAssumption == Direction \in [Task -> {"upload", "download", "mkdir"}]
ASSUME FlagAssumption == RetainPartial \subseteq Task /\ StrongEtag \subseteq Task
ASSUME GroupAssumption ==
    /\ NoGroup \notin Group
    /\ Parent \in [Task -> Group \cup {NoGroup}]
    /\ GroupOrder \in [Group -> Seq(Task)]
    /\ \A g \in Group :
          /\ {GroupOrder[g][i] : i \in DOMAIN GroupOrder[g]} = Members(g)
          /\ Len(GroupOrder[g]) = Cardinality(Members(g))
          /\ Members(g) # {}
          /\ \A t \in Members(g) : (Direction[t] = "download") <=> (g \notin IsUpload)

VARIABLES
    status,           \* m_tasks[t].status, "absent" when the list has no such row
    queue,            \* m_queue
    active,           \* m_active: "none", or what the slot holds: "reply" | "backoff"
    definitions,      \* the keys of m_taskDefinitions
    retryCount,       \* automaticRetryCount of the current attempt
    file,             \* what is at the task's local path
    pauseRequested,   \* the groups with GroupState::pauseRequested
    cancelRequested,  \* the groups with GroupState::cancelRequested
    selectedGroup,    \* m_selectedGroupId
    pendingStart      \* a zero timer that will call startNext is posted

vars == <<status, queue, active, definitions, retryCount, file,
          pauseRequested, cancelRequested, selectedGroup, pendingStart>>
groupVars == <<pauseRequested, cancelRequested, selectedGroup>>

Finished == {"done", "failed", "canceled"}
Status == {"absent", "queued", "running", "retrying", "paused"} \cup Finished
Slot == {"none", "reply", "backoff"}
File == {"absent", "empty", "partial", "complete", "source"}

Downloads == {t \in Task : Direction[t] = "download"}
Mkdirs == {t \in Task : Direction[t] = "mkdir"}
Pausable == Task \ Mkdirs
RetryableWhenCanceled == Task \ Mkdirs

-----------------------------------------------------------------------------
(* Pure helpers *)

Without(s, K) == Subsequence(s, Task \ K)

Prefix(s, k) == {s[i] : i \in 1..k}

\* f with the value v for every task of S.
Update(f, S, v) == [t \in Task |-> IF t \in S THEN v ELSE f[t]]

\* A fault of DropFiles: retainPartial is not asked.
DropRetainedFiles(fl, S) == Update(fl, S \cap Downloads, "absent")

\* QFile::remove of the incomplete downloads among S. Uploads and retained
\* partial downloads are left alone.
DropFiles(fl, S) == Update(fl, (S \cap Downloads) \ RetainPartial, "absent")

\* A download's file once startTask has opened it: truncated, unless the
\* bytes of an earlier attempt can be continued by a Range request.
Opened(t, f) ==
    IF t \notin Downloads THEN f
    ELSE IF /\ t \in RetainPartial \cap StrongEtag
            /\ f = "partial" \/ (f = "complete" /\ t \notin SizeKnown)
         THEN f
         ELSE "empty"

-----------------------------------------------------------------------------
(* startNext *)

Slots(act) == {t \in Task : act[t] # "none"}

\* A fault of CanStart: only the number of slots counts.
CanStartBySize(t, A) == Cardinality(A) < MaxConcurrentDownloads

\* May t take a slot while the tasks of A hold theirs?
CanStart(t, A) ==
    /\ \A a \in A : Direction[a] = "download"
    /\ IF Direction[t] = "download"
       THEN Cardinality(A) < MaxConcurrentDownloads
       ELSE A = {}

\* The loop takes the first k tasks of q, those of bad failing at once, and
\* stops there.
Admits(q, A, k, bad) ==
    LET Held(n) == A \cup (Prefix(q, n) \ bad)
    IN  /\ \A i \in 1..k : CanStart(q[i], Held(i - 1))
        /\ \A i \in 1..(k - 1) : Direction[q[i]] = "download"
        /\ \/ k > 0 /\ Direction[q[k]] # "download"
           \/ k < Len(q) => ~CanStart(q[k + 1], Held(k))

\* startNext on the queue q, slots act, statuses st and files fl left by the
\* calling slot; post says whether that slot has posted a zero timer. A task
\* of bad cannot open its local file and fails at once.
StartNext(q, act, st, fl, post) ==
    \E k \in 0..Len(q) : \E bad \in SUBSET (Prefix(q, k) \ Mkdirs) :
        LET opened == Prefix(q, k) \ bad
        IN  /\ Admits(q, Slots(act), k, bad)
            /\ queue' = SubSeq(q, k + 1, Len(q))
            /\ active' = Update(act, opened, "reply")
            /\ status' = Update(Update(st, opened, "running"), bad, "failed")
            /\ LET dropped == DropFiles(fl, bad)
               IN  file' = [t \in Task |-> IF t \in opened THEN Opened(t, dropped[t])
                                                           ELSE dropped[t]]
            /\ pendingStart' = (post \/ bad # {})

-----------------------------------------------------------------------------
(* The group row, recomputed by updateGroup from the children *)

GroupPresent(g) == \E t \in Members(g) : status[t] # "absent"
HasStatus(g, S) == \E t \in Members(g) : status[t] \in S
AllFinished(g) == \A t \in Members(g) : status[t] \in Finished

GroupStatus(g) ==
    CASE AllFinished(g) /\ HasStatus(g, {"failed"}) -> "failed"
      [] AllFinished(g) /\ ~HasStatus(g, {"failed"}) /\ HasStatus(g, {"canceled"}) -> "canceled"
      [] AllFinished(g) /\ ~HasStatus(g, {"failed", "canceled"}) -> "done"
      [] ~AllFinished(g) /\ HasStatus(g, {"running"}) -> "running"
      [] ~AllFinished(g) /\ ~HasStatus(g, {"running"}) /\ HasStatus(g, {"retrying"}) -> "retrying"
      [] ~AllFinished(g) /\ ~HasStatus(g, {"running", "retrying"}) /\ HasStatus(g, {"queued"}) -> "queued"
      [] OTHER -> "paused"

CanPause(t) == t \in Pausable /\ status[t] \in {"queued", "running", "retrying"}

GroupCanPause(g) ==
    /\ g \notin pauseRequested \cup cancelRequested
    /\ \E t \in Members(g) : CanPause(t)

GroupCanResume(g) ==
    /\ g \notin cancelRequested
    /\ ~GroupCanPause(g)
    /\ ~HasStatus(g, {"running", "queued"})
    /\ HasStatus(g, {"paused"})

GroupRetryable(g) == GroupPresent(g) /\ GroupStatus(g) \in {"failed", "canceled"}

GroupCancellable(g) ==
    /\ GroupPresent(g)
    /\ g \notin cancelRequested
    /\ GroupStatus(g) \notin {"done", "canceled"}

\* updateGroup forgets the definitions of a group whose children are all done.
ForgetDoneGroup(defs, st) ==
    {t \in defs : \/ Parent[t] = NoGroup
                  \/ Parent[t] \in cancelRequested
                  \/ \E c \in Members(Parent[t]) : st[c] # "done"}

-----------------------------------------------------------------------------
Init ==
    /\ status = [t \in Task |-> "absent"]
    /\ queue = <<>>
    /\ active = [t \in Task |-> "none"]
    /\ definitions = {}
    /\ retryCount = [t \in Task |-> 0]
    /\ file = [t \in Task |-> IF t \in Downloads THEN "absent" ELSE "source"]
    /\ pauseRequested = {}
    /\ cancelRequested = {}
    /\ selectedGroup = NoGroup
    /\ pendingStart = FALSE

(* Enqueueing. The callers give a new download a path of its own; only a   *)
(* retained download comes back to the bytes an earlier task left.         *)

EnqueueTask(t) ==
    /\ Parent[t] = NoGroup
    /\ status[t] = "absent"
    /\ definitions' = definitions \cup {t}
    /\ StartNext(Append(queue, t), active, Update(status, {t}, "queued"),
                 DropFiles(file, {t}), pendingStart)
    /\ UNCHANGED <<retryCount, groupVars>>

EnqueueGroup(g) ==
    /\ ~GroupPresent(g)
    /\ definitions' = definitions \cup Members(g)
    /\ StartNext(queue \o GroupOrder[g], active, Update(status, Members(g), "queued"),
                 DropFiles(file, Members(g)), pendingStart)
    /\ UNCHANGED <<retryCount, groupVars>>

-----------------------------------------------------------------------------
(* The network: bytes arrive, the reply finishes, the retry timer fires *)

Receive(t) ==
    /\ active[t] = "reply"
    /\ t \in Downloads
    /\ file[t] # "complete"
    /\ \E bytes \in {"partial", "complete"} : file' = [file EXCEPT ![t] = bytes]
    /\ UNCHANGED <<status, queue, active, definitions, retryCount, groupVars, pendingStart>>

\* A fault of Release: no zero timer for startNext.
ReleaseQuietly(S, outcome) ==
    /\ active' = Update(active, S, "none")
    /\ status' = Update(status, S, outcome)
    /\ retryCount' = Update(retryCount, S, 0)
    /\ UNCHANGED <<queue, pendingStart>>

\* finishActive and finishPaused, which differ in the status they publish:
\* the slots of S are released and a zero timer for startNext is posted.
Release(S, outcome) ==
    /\ active' = Update(active, S, "none")
    /\ status' = Update(status, S, outcome)
    /\ retryCount' = Update(retryCount, S, 0)
    /\ pendingStart' = TRUE
    /\ UNCHANGED queue

FinishOk(t) ==
    /\ active[t] = "reply"
    /\ Release({t}, "done")
    /\ file' = Update(file, {t} \cap Downloads, "complete")
    /\ definitions' = ForgetDoneGroup(definitions, status')
    /\ UNCHANGED groupVars

\* An error that is not transient, or one more than the retry limit.
FinishFailed(t) ==
    /\ active[t] = "reply"
    /\ Release({t}, "failed")
    /\ file' = DropFiles(file, {t})
    /\ UNCHANGED <<definitions, groupVars>>

\* The slot is kept, with a timer in place of the reply.
Backoff(t, count) ==
    /\ active[t] = "reply"
    /\ active' = [active EXCEPT ![t] = "backoff"]
    /\ status' = [status EXCEPT ![t] = "retrying"]
    /\ retryCount' = [retryCount EXCEPT ![t] = count]
    /\ definitions' = definitions \cup {t}
    /\ UNCHANGED <<queue, groupVars, pendingStart>>

\* A fault of ScheduleRetry: the attempt is not counted.
ScheduleRetryUncounted(t) == Backoff(t, retryCount[t]) /\ file' = DropFiles(file, {t})

\* A transient error: the task keeps its slot during the backoff.
ScheduleRetry(t) ==
    /\ retryCount[t] < MaxAutomaticRetryCount
    /\ Backoff(t, retryCount[t] + 1)
    /\ file' = DropFiles(file, {t})

\* The timer starts the task again itself, without startNext.
RetryTimerFires(t) ==
    /\ active[t] = "backoff"
    /\ \/ /\ active' = [active EXCEPT ![t] = "reply"]
          /\ status' = [status EXCEPT ![t] = "running"]
          /\ file' = [file EXCEPT ![t] = Opened(t, @)]
          /\ UNCHANGED <<queue, retryCount, pendingStart>>
       \/ /\ t \notin Mkdirs
          /\ Release({t}, "failed")
          /\ file' = DropFiles(file, {t})
    /\ UNCHANGED <<definitions, groupVars>>

DeferredStart ==
    /\ pendingStart
    /\ StartNext(queue, active, status, file, FALSE)
    /\ UNCHANGED <<definitions, retryCount, groupVars>>

-----------------------------------------------------------------------------
(* One row: cancelTask, pauseTask, resumeTask, retryTask *)

CancelTask(t) ==
    /\ \/ /\ active[t] # "none"
          /\ Release({t}, "canceled")
          /\ file' = DropFiles(file, {t})
       \/ /\ active[t] = "none"
          /\ status[t] \in {"queued", "paused"}
          /\ StartNext(Without(queue, {t}), active, Update(status, {t}, "canceled"),
                       DropFiles(file, {t}), pendingStart)
          /\ UNCHANGED retryCount
    /\ definitions' = definitions \ ({t} \ RetryableWhenCanceled)
    /\ UNCHANGED groupVars

\* A fault of PauseTask: the incomplete file of a running download stays.
PauseTaskKeepsFile(t) ==
    /\ t \in Pausable
    /\ active[t] # "none"
    /\ Release({t}, "paused")
    /\ UNCHANGED <<file, definitions, groupVars>>

PauseTask(t) ==
    /\ t \in Pausable
    /\ \/ /\ active[t] # "none"
          /\ Release({t}, "paused")
          /\ file' = DropFiles(file, {t})
       \/ /\ active[t] = "none"
          /\ status[t] = "queued"
          /\ StartNext(Without(queue, {t}), active, Update(status, {t}, "paused"),
                       file, pendingStart)
          /\ UNCHANGED retryCount
    /\ UNCHANGED <<definitions, groupVars>>

\* requeueTask needs the definition of the task; for a download it also
\* recreates the target directory, which may fail and then changes nothing.
Requeueable(t) == t \in definitions /\ active[t] = "none" /\ status[t] # "queued"

\* requeueTask for the tasks of the sequence ts, then startNext.
Requeue(ts) ==
    LET S == Prefix(ts, Len(ts))
    IN  /\ StartNext(queue \o ts, active, Update(status, S, "queued"),
                     DropFiles(file, S), pendingStart)
        /\ retryCount' = Update(retryCount, S, 0)

NothingRequeued == UNCHANGED <<status, queue, active, retryCount, file, pendingStart>>

ResumeTask(t) ==
    /\ status[t] = "paused"
    /\ Requeueable(t)
    /\ Requeue(<<t>>)
    /\ UNCHANGED <<definitions, groupVars>>

\* prepareGroupRetry: the first retry after a cancellation reopens the group.
PrepareGroupRetry(g) ==
    /\ cancelRequested' = cancelRequested \ {g}
    /\ pauseRequested' = IF g \in cancelRequested THEN pauseRequested \ {g} ELSE pauseRequested

RetryTask(t) ==
    /\ status[t] \in {"failed", "canceled"}
    /\ Requeueable(t)
    /\ PrepareGroupRetry(Parent[t])
    /\ Requeue(<<t>>) \/ (t \in Downloads /\ NothingRequeued)
    /\ UNCHANGED <<definitions, selectedGroup>>

-----------------------------------------------------------------------------
(* A folder row. The buttons of the row are there only while its flags say *)
(* so (qml/Main.qml:10432-10468), hence the first guard of each action.    *)

\* Every child ends canceled, the finished ones included, and the files of a
\* download group go with its target directory; only what retained downloads
\* still own is spared. The zero timers of the released slots stay posted.
CancelGroup(g) ==
    LET M == Members(g)
        held == M \cap Slots(active)
        owned == M \cap definitions
        spared == IF owned \cap RetainPartial # {}
                  THEN (owned \cap RetainPartial) \cup (M \ owned)
                  ELSE {}
    IN  /\ GroupCancellable(g)
        /\ cancelRequested' = cancelRequested \cup {g}
        /\ pauseRequested' = pauseRequested \ {g}
        /\ definitions' = definitions \ (held \ RetryableWhenCanceled)
        /\ retryCount' = Update(retryCount, M, 0)
        /\ StartNext(Without(queue, M),
                     Update(active, M, "none"),
                     Update(status, M, "canceled"),
                     IF g \in IsUpload THEN file ELSE Update(file, M \ spared, "absent"),
                     pendingStart \/ held # {})
        /\ UNCHANGED selectedGroup

\* Unlike pauseTask, this pauses directory creations too.
PauseGroup(g) ==
    LET M == Members(g)
        held == M \cap Slots(active)
        stopped == {t \in M : active[t] # "none" \/ status[t] = "queued"}
    IN  /\ GroupCanPause(g)
        /\ pauseRequested' = pauseRequested \cup {g}
        /\ retryCount' = Update(retryCount, held, 0)
        /\ StartNext(Without(queue, M),
                     Update(active, M, "none"),
                     Update(status, stopped, "paused"),
                     DropFiles(file, held),
                     pendingStart \/ held # {})
        /\ UNCHANGED <<definitions, cancelRequested, selectedGroup>>

\* A fault of RequeueMembers: the done children are queued again as well.
RequeueEveryMember(g, S) ==
    LET able == {t \in Members(g) : status[t] \in S \cup {"done"} /\ Requeueable(t)}
    IN  IF able = {} THEN NothingRequeued ELSE Requeue(Subsequence(GroupOrder[g], able))

\* The children of g that are in one of the statuses S and are requeued: all
\* that can be, except downloads whose directory cannot be made again.
RequeueMembers(g, S) ==
    LET able == {t \in Members(g) : status[t] \in S /\ Requeueable(t)}
    IN  \E stuck \in SUBSET (able \cap Downloads) :
            IF able = stuck
            THEN NothingRequeued
            ELSE Requeue(Subsequence(GroupOrder[g], able \ stuck))

ResumeGroup(g) ==
    /\ GroupCanResume(g)
    /\ \A t \in Members(g) : active[t] # "reply"
    /\ pauseRequested' = pauseRequested \ {g}
    /\ RequeueMembers(g, {"paused"})
    /\ UNCHANGED <<definitions, cancelRequested, selectedGroup>>

RetryGroup(g) ==
    /\ GroupRetryable(g)
    /\ PrepareGroupRetry(g)
    /\ RequeueMembers(g, {"failed", "canceled"})
    /\ UNCHANGED <<definitions, selectedGroup>>

-----------------------------------------------------------------------------
(* The list as a whole *)

\* The finished top-level rows go, a folder with its children.
Clearable == {t \in Task : IF Parent[t] = NoGroup THEN status[t] \in Finished
                           ELSE AllFinished(Parent[t])}

ClearFinished ==
    LET gone == {g \in Group : AllFinished(g)}
    IN  /\ Clearable # {}
        /\ status' = Update(status, Clearable, "absent")
        /\ definitions' = definitions \ Clearable
        /\ pauseRequested' = pauseRequested \ gone
        /\ cancelRequested' = cancelRequested \ gone
        /\ selectedGroup' = IF selectedGroup \in gone THEN NoGroup ELSE selectedGroup
        /\ UNCHANGED <<queue, active, retryCount, file, pendingStart>>

SelectGroup(g) ==
    /\ GroupPresent(g)
    /\ selectedGroup' = g
    /\ UNCHANGED <<status, queue, active, definitions, retryCount, file,
                   pauseRequested, cancelRequested, pendingStart>>

ClearGroupSelection ==
    /\ selectedGroup # NoGroup
    /\ selectedGroup' = NoGroup
    /\ UNCHANGED <<status, queue, active, definitions, retryCount, file,
                   pauseRequested, cancelRequested, pendingStart>>

-----------------------------------------------------------------------------
ReplyFinishes(t) == FinishOk(t) \/ FinishFailed(t) \/ ScheduleRetry(t)

TaskOperation(t) ==
    \/ EnqueueTask(t)
    \/ CancelTask(t)
    \/ PauseTask(t)
    \/ ResumeTask(t)
    \/ RetryTask(t)

GroupOperation(g) ==
    \/ EnqueueGroup(g)
    \/ CancelGroup(g)
    \/ PauseGroup(g)
    \/ ResumeGroup(g)
    \/ RetryGroup(g)
    \/ SelectGroup(g)

Next ==
    \/ \E t \in Task : TaskOperation(t) \/ Receive(t) \/ ReplyFinishes(t) \/ RetryTimerFires(t)
    \/ \E g \in Group : GroupOperation(g)
    \/ DeferredStart
    \/ ClearFinished
    \/ ClearGroupSelection

Spec == Init /\ [][Next]_vars

(* The event loop delivers what is due: a posted zero timer and an elapsed *)
(* retry timer fire, and a reply finishes, by its 60 s idle timeout        *)
(* (wireReply) if in no other way. Nothing is assumed of the user.         *)
Fairness ==
    /\ WF_vars(DeferredStart)
    /\ \A t \in Task : WF_vars(ReplyFinishes(t)) /\ WF_vars(RetryTimerFires(t))

FairSpec == Spec /\ Fairness

-----------------------------------------------------------------------------
(* Properties *)

\* Type correctness. The queue is a FIFO of tasks; a backoff counter never
\* passes the limit of scheduleAutomaticRetry.
TypeOK ==
    /\ status \in [Task -> Status]
    /\ queue \in Seq(Task)
    /\ active \in [Task -> Slot]
    /\ definitions \subseteq Task
    /\ retryCount \in [Task -> 0..MaxAutomaticRetryCount]
    /\ file \in [Task -> File]
    /\ pauseRequested \subseteq Group
    /\ cancelRequested \subseteq Group
    /\ selectedGroup \in Group \cup {NoGroup}
    /\ pendingStart \in BOOLEAN

\* At most maxConcurrentDownloads downloads hold slots together, and an upload
\* or a directory creation holds the only slot (VIBEDOCS/WebDAV.md:263), also
\* across backoffs, whose timer starts the task again without asking startNext.
ExclusiveSlots ==
    \/ /\ \A t \in Slots(active) : Direction[t] = "download"
       /\ Cardinality(Slots(active)) <= MaxConcurrentDownloads
    \/ Cardinality(Slots(active)) = 1

\* The row, the queue, the slots and the definitions tell one story: a queued
\* task is in m_queue exactly once and nowhere else, a running or retrying one
\* is in m_active with a reply or a timer, and whatever may run again (now, or
\* by the row's resume or retry button) still has its definition.
OneStory ==
    /\ \A i, j \in DOMAIN queue : queue[i] = queue[j] => i = j
    /\ \A t \in Task :
          /\ (status[t] = "queued") <=> (\E i \in DOMAIN queue : queue[i] = t)
          /\ (status[t] = "running") <=> (active[t] = "reply")
          /\ (status[t] = "retrying") <=> (active[t] = "backoff")
          /\ status[t] \in {"queued", "running", "retrying", "paused", "failed"} => t \in definitions
          /\ status[t] = "canceled" /\ t \in RetryableWhenCanceled => t \in definitions

\* No lost wake-up: while the head of the queue could have a slot, a call of
\* startNext is still to come. Every path that frees a slot or shortens the
\* queue has to see to it.
NoStall ==
    queue # <<>> /\ CanStart(queue[1], Slots(active)) => pendingStart

\* The files on the disk match the rows: an upload's source is never touched,
\* a done download has all its bytes, and a download that is not under way
\* leaves no incomplete file behind unless it retains it
\* (VIBEDOCS/WebDAV.md:241, 252, 265).
FilesMatchRows ==
    \A t \in Task :
        /\ t \notin Downloads => file[t] = "source"
        /\ t \in Downloads /\ status[t] = "done" => file[t] = "complete"
        /\ t \in Downloads \ RetainPartial /\
           status[t] \in {"queued", "retrying", "paused", "failed", "canceled"} => file[t] = "absent"

\* A cancelled folder is at rest until the user retries something in it: all
\* its children are canceled, none waits or holds a slot, and no pause is
\* pending that would hide the buttons after the retry.
CanceledGroupAtRest ==
    \A g \in cancelRequested :
        /\ g \notin pauseRequested
        /\ \A t \in Members(g) : status[t] = "canceled"

\* The rows can be trusted: what the list shows of a task (TransferTask::status)
\* is where m_queue, m_active and m_definitions have it, what is on the disk, and
\* what the two folder flags promise, in every order of user operations, replies,
\* retries and timers.
RowsConsistent == TypeOK /\ OneStory /\ FilesMatchRows /\ CanceledGroupAtRest

\* A done file is never downloaded again (VIBEDOCS/WebDAV.md:251): the row
\* stays done until it is cleared or its whole folder is cancelled.
DoneNotRedone ==
    [][\A t \in Task : status[t] = "done" =>
          \/ status'[t] \in {"done", "absent"}
          \/ Parent[t] \in cancelRequested' \ cancelRequested]_vars

\* No operation loses the bytes a resumable download has already fetched, short
\* of a server that answers its Range request with the whole file.
RetainedBytesSurvive ==
    [][\A t \in RetainPartial \cap StrongEtag :
          file[t] = "partial" => file'[t] \in {"partial", "complete"}]_vars

\* Nothing waits for ever: a queued task is started, or taken out of the queue
\* by its user, however the others fail, back off, and are paused and resumed.
QueuedStarts == \A t \in Task : (status[t] = "queued") ~> (status[t] # "queued")

\* A slot is not held for ever: the retries of one attempt are bounded.
SlotReleased == \A t \in Task : (active[t] # "none") ~> (active[t] = "none")

\* Transfers make progress: startNext reaches every queued row, and every attempt
\* with its automatic retries (scheduleAutomaticRetry) comes to an end.
TransfersProgress == QueuedStarts /\ SlotReleased

=============================================================================
