-------------------------- MODULE ScheduledPlayback --------------------------
(***************************************************************************)
(* The keep-alive playback runner                                          *)
(* (services/scheduler/ScheduledPlaybackManager.cpp) with the operations   *)
(* AppViewModel offers on it, its Emby requests and its own headless       *)
(* libmpv. One task runs at a time; due tasks wait in a FIFO queue, and    *)
(* playback in the foreground has priority.                                *)
(*                                                                         *)
(* When a task is due is not modelled here: any automatic task may become  *)
(* due at any evaluation.                                                  *)
(*                                                                         *)
(* The generation check of the asynchronous answers is modelled by what it *)
(* does: an answer is fresh until ++m_generation makes it stale.           *)
(***************************************************************************)
EXTENDS Integers, Sequences, FiniteSets, Subsequences

CONSTANTS
    Task,            \* the keep-alive tasks, each of a service of its own
    NoTask,          \* no task
    SelfSigned,      \* the tasks whose service trusts a self-signed certificate
    Target,          \* m_targetSeconds, in units of playing time
    ItemLength,      \* the length of a media item, in the same units
    MinPlayed,       \* the least an item that started has played when it ends
    MaxCandidates,   \* randomCandidateCount
    MaxFailures,     \* maxConsecutiveFailures
    ReadsFail,       \* the task list may be unreadable (a locked database)
    PromptEnds,      \* libmpv's events are polled before the next item is loaded
    EventBound       \* bound: libmpv events not yet polled

ASSUME TaskAssumption == IsFiniteSet(Task) /\ NoTask \notin Task
ASSUME SelfSignedAssumption == SelfSigned \subseteq Task
ASSUME NumberAssumption ==
    /\ Target \in Nat \ {0}
    /\ ItemLength \in Nat \ {0}
    /\ MinPlayed \in 0..ItemLength
    /\ MaxCandidates \in Nat \ {0}
    /\ MaxFailures \in Nat \ {0}
    /\ EventBound \in Nat \ {0}
ASSUME FlagAssumption == ReadsFail \in BOOLEAN /\ PromptEnds \in BOOLEAN

VARIABLES
    saved,        \* the stored tasks of the services that are not removed
    automatic,    \* the tasks with an enabled automatic schedule
    private,      \* the tasks whose service is private
    privacy,      \* AppViewModel's m_privacyMode
    listed,       \* m_scheduledTasks
    foreground,   \* m_foregroundPlaybackActive
    queue,        \* m_scheduledQueue
    wake,         \* a zero timer that will call startNextScheduledTask is posted
    run,          \* the manager's state of the current run
    mpv           \* PlayerController and the libmpv behind it

listVars == <<saved, automatic, private, privacy, listed>>
vars == <<saved, automatic, private, privacy, listed, foreground, queue, wake, run, mpv>>

Request == {"candidates", "url"}
Status == {"idle", "waiting", "starting", "playing", "completed", "error"}
Event == {"restart", "stopped", "eof", "error"}

\* loadScheduledPlaybackTasks
Visible(rows, hidden, mode) == {t \in rows : mode \/ t \notin hidden}

Idle(r) == r.current = NoTask /\ r.pending = NoTask

\* AppViewModel's test before it lets the user run or delete a task.
Busy == run.status \in {"waiting", "starting", "playing"}

QueuedTasks == {queue[i] : i \in DOMAIN queue}

\* The sequences that hold each element of S once: a QHash is walked in any order.
Orders(S) == {s \in [1..Cardinality(S) -> S] : \A i, j \in DOMAIN s : s[i] = s[j] => i = j}

Kept(q, K) == Subsequence(q, K)

-----------------------------------------------------------------------------
(* What the slots of the manager are built from *)

\* ++m_generation: the answers still to come will be dropped.
NewGeneration(r) ==
    [r EXCEPT !.fresh = [k \in Request |-> 0],
              !.stale = @ \cup {k \in Request : r.fresh[k] > 0}]

\* PlayerController::stop. libmpv reports the end of the entry later.
Stopped(p) ==
    [entry |-> "idle", position |-> 0,
     events |-> IF p.entry = "idle" THEN p.events ELSE Append(p.events, "stopped")]

\* PlayerController::playUrl, once the request to load is accepted.
Loaded(p) == [Stopped(p) EXCEPT !.entry = "loading"]

\* stopCurrentItem, on the manager's side and on the player's.
ItemStopped(r, credit) ==
    IF r.item = "none" THEN r
    ELSE [r EXCEPT !.item = "none", !.ignoreEnd = TRUE, !.completed = @ + credit]

PlayerStopped(r, p) == IF r.item = "none" THEN p ELSE Stopped(p)

\* fetchCandidates
Fetching(r) == [NewGeneration(r) EXCEPT !.fresh["candidates"] = @ + 1]

Waiting(r) == [r EXCEPT !.resume = TRUE, !.status = "waiting"]

\* tryNextCandidate, for a task that is current.
NextCandidate(r) ==
    IF foreground THEN Waiting(r)
    ELSE IF r.candidates = 0 THEN Fetching(r)
    ELSE [r EXCEPT !.candidates = @ - 1, !.fresh["url"] = @ + 1]

\* finishTask and failTask
Over(r, status) ==
    [ItemStopped(NewGeneration(r), 0) EXCEPT
        !.current = NoTask, !.resume = FALSE, !.status = status,
        !.completed = IF status = "completed" THEN Target ELSE @]

\* A fault of EndTask: no zero timer for the next task.
EndTaskQuietly(r, p, status) ==
    run' = Over(r, status) /\ mpv' = PlayerStopped(r, p) /\ UNCHANGED wake

EndTask(r, p, status) ==
    run' = Over(r, status) /\ mpv' = PlayerStopped(r, p) /\ wake' = TRUE

\* The two ways startTask takes a task on.
Postponed(r, t) == [r EXCEPT !.pending = t, !.status = "waiting"]
Begun(r, t) ==
    Fetching([r EXCEPT !.current = t, !.completed = 0, !.failures = 0,
                       !.resume = FALSE, !.status = "starting"])
TakenOn(r, t, fg) == IF fg THEN Postponed(r, t) ELSE Begun(r, t)

\* startTask(t) with the foreground flag fg; w is the zero timer so far. The
\* session of t may be gone.
StartTask(r, t, fg, w) ==
    \/ run' = TakenOn(r, t, fg) /\ wake' = w /\ UNCHANGED mpv
    \/ ~fg /\ EndTask(r, mpv, "error")

\* A fault of StartNext: only the current task counts, not the pending one.
StartNextBesidePending(q, r, w) ==
    IF r.current # NoTask \/ q = <<>>
    THEN queue' = q /\ run' = r /\ wake' = w /\ UNCHANGED mpv
    ELSE queue' = Tail(q) /\ StartTask(r, Head(q), foreground, w)

\* startNextScheduledTask on the queue q.
StartNext(q, r, w) ==
    IF ~Idle(r) \/ q = <<>>
    THEN queue' = q /\ run' = r /\ wake' = w /\ UNCHANGED mpv
    ELSE queue' = Tail(q) /\ StartTask(r, Head(q), foreground, w)

\* The same slot calls startNextScheduledTask once more: it finds work only if
\* the session of the head could not be loaded, which ends its run at once.
StartNextAgain(q) ==
    /\ q # <<>>
    /\ Idle(run)
    /\ ~foreground
    /\ StartNext(Tail(q), Over(run, "error"), TRUE)

\* stop(), with what clearRunState resets.
Halted(r) ==
    [ItemStopped(NewGeneration(r), 0) EXCEPT
        !.current = NoTask, !.pending = NoTask, !.resume = FALSE, !.status = "idle",
        !.candidates = 0, !.completed = 0, !.failures = 0]

Halt ==
    /\ run' = Halted(run)
    /\ mpv' = PlayerStopped(run, mpv)
    /\ queue' = <<>>
    /\ UNCHANGED wake

Elapsed(r, p) == r.completed + (IF r.item = "started" THEN p.position ELSE 0)

-----------------------------------------------------------------------------
(* Init: the first refresh is done, and nothing is due or running *)

FirstRun ==
    [current |-> NoTask, pending |-> NoTask, resume |-> FALSE, status |-> "idle",
     item |-> "none", ignoreEnd |-> FALSE, candidates |-> 0, failures |-> 0,
     completed |-> 0, fresh |-> [k \in Request |-> 0], stale |-> {}]

Init ==
    /\ saved \in SUBSET Task
    /\ automatic \in SUBSET saved
    /\ private \in SUBSET Task
    /\ privacy = FALSE
    /\ listed = Visible(saved, private, FALSE)
    /\ foreground = FALSE
    /\ queue = <<>>
    /\ wake = FALSE
    /\ run = FirstRun
    /\ mpv = [entry |-> "idle", position |-> 0, events |-> <<>>]

-----------------------------------------------------------------------------
(* The schedule *)

\* evaluateScheduledTasks with the tasks of D due, and resolveMissedTasks(true).
\* A run date that was stored has AppViewModel refresh the list in between.
Evaluate(D) ==
    \E o \in Orders(D \ (QueuedTasks \cup {run.current, run.pending})) :
        LET due == queue \o o
            now == Visible(saved, private, privacy)
            kept == Kept(due, now \cap automatic)
        IN
        /\ \/ listed' = listed /\ StartNext(due, run, wake)
           \/ /\ D # {}
              /\ listed' = now
              /\ StartNext(kept, run, wake) \/ StartNextAgain(kept)
        /\ UNCHANGED <<saved, automatic, private, privacy, foreground>>

\* QTimer::singleShot(0, startNextScheduledTask)
ZeroTimer ==
    /\ wake
    /\ StartNext(queue, run, FALSE)
    /\ UNCHANGED <<listVars, foreground>>

-----------------------------------------------------------------------------
(* AppViewModel *)

\* refreshScheduledPlaybackTasks, with the manager's setTasks.
Refresh(q, r, w) ==
    \/ /\ listed' = Visible(saved', private', privacy')
       /\ StartNext(Kept(q, listed' \cap automatic'), r, w)
    \/ /\ ReadsFail
       /\ listed' = listed
       /\ queue' = q /\ run' = r /\ wake' = w /\ UNCHANGED mpv

\* saveScheduledPlaybackTask
SaveTask(t, auto) ==
    /\ privacy \/ t \notin private
    /\ saved' = saved \cup {t}
    /\ automatic' = IF auto THEN automatic \cup {t} ELSE automatic \ {t}
    /\ UNCHANGED <<private, privacy, foreground>>
    /\ Refresh(queue, run, wake)

\* saveAndRunScheduledPlaybackTask. The refresh may already start the head of
\* the queue, and then runNow is ignored.
SaveAndRun(t, auto) ==
    /\ ~Busy
    /\ privacy \/ t \notin private
    /\ saved' = saved \cup {t}
    /\ automatic' = IF auto THEN automatic \cup {t} ELSE automatic \ {t}
    /\ UNCHANGED <<private, privacy, foreground>>
    /\ \/ /\ listed' = Visible(saved', private, privacy)
          /\ LET kept == Kept(queue, listed' \cap automatic') IN
             \/ kept = <<>> /\ queue' = kept /\ StartTask(run, t, foreground, wake)
             \/ /\ kept # <<>>
                /\ queue' = Tail(kept)
                /\ \/ /\ run' = TakenOn(run, Head(kept), foreground)
                      /\ UNCHANGED <<wake, mpv>>
                   \/ /\ ~foreground
                      /\ StartTask(Over(run, "error"), t, foreground, TRUE)
       \/ /\ ReadsFail
          /\ UNCHANGED <<listed, queue>>
          /\ StartTask(run, t, foreground, wake)

\* After stop() a refresh has nothing to start.
ListRefreshed ==
    \/ listed' = Visible(saved', private', privacy')
    \/ ReadsFail /\ listed' = listed

\* deleteScheduledPlaybackTask: whatever runs is stopped, even another task,
\* and even when the row then cannot be deleted.
DeleteTask(t) ==
    /\ t \in listed
    /\ UNCHANGED <<private, privacy, foreground>>
    /\ \/ /\ saved' = saved \ {t}
          /\ automatic' = automatic \ {t}
          /\ IF Busy THEN Halt /\ ListRefreshed ELSE Refresh(queue, run, wake)
       \/ /\ UNCHANGED <<saved, automatic, listed>>
          /\ IF Busy THEN Halt ELSE UNCHANGED <<queue, wake, run, mpv>>

\* openScheduledPlaybackTasks
OpenPage ==
    /\ UNCHANGED <<saved, automatic, private, privacy, foreground>>
    /\ Refresh(queue, run, wake)

\* runScheduledPlaybackTaskNow
RunNow(t) ==
    /\ ~Busy
    /\ t \in listed
    /\ Idle(run)
    /\ StartTask(run, t, foreground, wake)
    /\ UNCHANGED <<listVars, foreground, queue>>

\* stopScheduledPlayback, and aboutToQuit
UserStop ==
    /\ Halt
    /\ UNCHANGED <<listVars, foreground>>

\* A fault of TogglePrivacy: the run goes on in the other mode.
TogglePrivacyOnly ==
    /\ privacy' = ~privacy
    /\ UNCHANGED <<saved, automatic, private, foreground>>
    /\ Refresh(queue, run, wake)

\* enterPrivacyMode and exitPrivacyMode
TogglePrivacy ==
    /\ privacy' = ~privacy
    /\ UNCHANGED <<saved, automatic, private, foreground>>
    /\ Halt
    /\ ListRefreshed

\* setPrivacyCardPrivate
SetPrivate(t) ==
    /\ private' = IF t \in private THEN private \ {t} ELSE private \cup {t}
    /\ UNCHANGED <<saved, automatic, privacy, foreground>>
    /\ Halt
    /\ ListRefreshed

\* deleteServiceCard: the rows go with the service, the manager is not told.
RemoveService(t) ==
    /\ t \in saved
    /\ saved' = saved \ {t}
    /\ automatic' = automatic \ {t}
    /\ UNCHANGED <<private, privacy, listed, foreground, queue, wake, run, mpv>>

\* setForegroundPlaybackActive(true)
ForegroundOn ==
    /\ ~foreground
    /\ foreground' = TRUE
    /\ IF run.current = NoTask THEN UNCHANGED <<run, mpv>>
       ELSE /\ run' = Waiting(ItemStopped(run, mpv.position))
            /\ mpv' = PlayerStopped(run, mpv)
    /\ UNCHANGED <<listVars, queue, wake>>

\* setForegroundPlaybackActive(false), with resumeTaskAfterForeground
ForegroundOff ==
    /\ foreground
    /\ foreground' = FALSE
    /\ UNCHANGED <<listVars, queue>>
    /\ \/ /\ run.resume
          /\ run.current # NoTask
          /\ IF Elapsed(run, mpv) >= Target THEN EndTask([run EXCEPT !.resume = FALSE], mpv, "completed")
             ELSE /\ run' = Fetching([run EXCEPT !.resume = FALSE, !.status = "starting"])
                  /\ UNCHANGED <<wake, mpv>>
       \/ /\ ~(run.resume /\ run.current # NoTask)
          /\ IF run.pending # NoTask
             THEN StartTask([run EXCEPT !.pending = NoTask], run.pending, FALSE, wake)
             ELSE UNCHANGED <<wake, run, mpv>>

-----------------------------------------------------------------------------
(* The answers of Emby *)

Taken(k) == [run EXCEPT !.fresh[k] = @ - 1]

\* The callback of fetchRandomPlayableItems.
CandidatesArrive ==
    /\ run.fresh["candidates"] > 0
    /\ \/ EndTask(Taken("candidates"), mpv, "error")
       \/ \E n \in 1..MaxCandidates :
             /\ run' = NextCandidate([Taken("candidates") EXCEPT !.candidates = n])
             /\ UNCHANGED <<wake, mpv>>
    /\ UNCHANGED <<listVars, foreground, queue>>

\* One more failure of the run r: the task fails or tries another item.
Failing(r, p) ==
    LET f == [r EXCEPT !.failures = @ + 1] IN
    IF f.failures >= MaxFailures THEN EndTask(f, p, "error")
    ELSE run' = NextCandidate(f) /\ mpv' = p /\ UNCHANGED wake

\* A fault of BeginPlayback: the foreground is not looked at again.
BeginPlaybackAtOnce(r) ==
    /\ run' = [r EXCEPT !.item = "loading", !.ignoreEnd = FALSE, !.status = "starting"]
    /\ mpv' = IF r.current \in SelfSigned THEN mpv ELSE Loaded(mpv)
    /\ UNCHANGED wake

\* beginPlayback. playUrl refuses a request that asks for insecure TLS, and no
\* playbackEnded follows.
BeginPlayback(r) ==
    \/ /\ foreground
       /\ run' = Waiting(r)
       /\ UNCHANGED <<wake, mpv>>
    \/ /\ ~foreground
       /\ EndTask(r, mpv, "error")
    \/ /\ ~foreground
       /\ run' = [r EXCEPT !.item = "loading", !.ignoreEnd = FALSE, !.status = "starting"]
       /\ mpv' = IF r.current \in SelfSigned THEN mpv ELSE Loaded(mpv)
       /\ UNCHANGED wake

\* The callback of fetchPlaybackUrl.
UrlArrives ==
    /\ run.fresh["url"] > 0
    /\ IF PromptEnds THEN mpv.events = <<>> ELSE Len(mpv.events) < EventBound
    /\ Failing(Taken("url"), mpv) \/ BeginPlayback(Taken("url"))
    /\ UNCHANGED <<listVars, foreground, queue>>

\* An answer of an earlier generation.
StaleAnswer(k) ==
    /\ k \in run.stale
    /\ run' = [run EXCEPT !.stale = @ \ {k}]
    /\ UNCHANGED <<listVars, foreground, queue, wake, mpv>>

-----------------------------------------------------------------------------
(* libmpv, and PlayerController::processEvents *)

CoreStarts ==
    /\ mpv.entry = "loading"
    /\ mpv' = [mpv EXCEPT !.entry = "playing", !.events = Append(@, "restart")]

\* The position is polled with the events.
CoreAdvances ==
    /\ mpv.entry = "playing"
    /\ mpv.events = <<>>
    /\ \E p \in mpv.position + 1 .. ItemLength : mpv' = [mpv EXCEPT !.position = p]

CoreEnds ==
    \E e \in {"eof", "error"} :
        /\ \/ mpv.entry = "loading" /\ e = "error"
           \/ mpv.entry = "playing" /\ mpv.position >= MinPlayed
        /\ mpv' = [mpv EXCEPT !.entry = "idle", !.events = Append(@, e)]

Core ==
    /\ Len(mpv.events) < EventBound
    /\ CoreStarts \/ CoreAdvances \/ CoreEnds
    /\ UNCHANGED <<listVars, foreground, queue, wake, run>>

\* handlePlaybackRestarted
Restarted ==
    /\ Head(mpv.events) = "restart"
    /\ mpv' = [mpv EXCEPT !.events = Tail(@)]
    /\ run' = IF run.item # "loading" THEN run
              ELSE [run EXCEPT !.item = "started", !.failures = 0, !.status = "playing"]
    /\ UNCHANGED wake

\* A fault of ItemEnded: the time the item has played is not counted.
ItemEndedUncounted(p, failed) ==
    LET r == [run EXCEPT !.item = "none"] IN
    \/ r.completed >= Target /\ EndTask(r, p, "completed")
    \/ r.completed < Target /\ failed /\ Failing(r, p)
    \/ /\ r.completed < Target /\ ~failed
       /\ run' = NextCandidate([r EXCEPT !.failures = 0])
       /\ mpv' = p
       /\ UNCHANGED wake

\* The rest of handlePlaybackEnded, for an end that counts.
ItemEnded(p, failed) ==
    LET r == [run EXCEPT !.item = "none", !.completed = @ + mpv.position] IN
    \/ r.completed >= Target /\ EndTask(r, p, "completed")
    \/ r.completed < Target /\ failed /\ Failing(r, p)
    \/ /\ r.completed < Target /\ ~failed
       /\ run' = NextCandidate([r EXCEPT !.failures = 0])
       /\ mpv' = p
       /\ UNCHANGED wake

\* END_FILE, and handlePlaybackEnded
Ended ==
    LET p == [mpv EXCEPT !.events = Tail(@), !.position = 0] IN
    /\ Head(mpv.events) # "restart"
    /\ IF run.ignoreEnd
       THEN run' = [run EXCEPT !.ignoreEnd = FALSE] /\ mpv' = p /\ UNCHANGED wake
       ELSE IF run.item = "none" \/ run.current = NoTask
       THEN mpv' = p /\ UNCHANGED <<run, wake>>
       ELSE ItemEnded(p, Head(mpv.events) = "error")

DeliverEvent ==
    /\ mpv.events # <<>>
    /\ Restarted \/ Ended
    /\ UNCHANGED <<listVars, foreground, queue>>

\* updateProgress
ProgressTick ==
    /\ run.current # NoTask
    /\ Elapsed(run, mpv) >= Target
    /\ EndTask(run, mpv, "completed")
    /\ UNCHANGED <<listVars, foreground, queue>>

-----------------------------------------------------------------------------

User ==
    \/ \E t \in Task, auto \in BOOLEAN : SaveTask(t, auto) \/ SaveAndRun(t, auto)
    \/ \E t \in Task : DeleteTask(t) \/ RunNow(t) \/ SetPrivate(t) \/ RemoveService(t)
    \/ UserStop \/ OpenPage \/ TogglePrivacy
    \/ ForegroundOn \/ ForegroundOff

System ==
    \/ \E D \in SUBSET (listed \cap automatic) : Evaluate(D)
    \/ ZeroTimer \/ ProgressTick
    \/ CandidatesArrive \/ UrlArrives \/ (\E k \in Request : StaleAnswer(k))
    \/ Core \/ DeliverEvent

Next == User \/ System

Spec == Init /\ [][Next]_vars

\* Timers fire, requests are answered (at the latest by their timeout), and
\* libmpv plays on and is polled. The user owes nothing.
Fairness ==
    /\ WF_vars(ZeroTimer)
    /\ WF_vars(ProgressTick)
    /\ WF_vars(CandidatesArrive)
    /\ WF_vars(UrlArrives)
    /\ WF_vars(Core)
    /\ WF_vars(DeliverEvent)

FairSpec == Spec /\ Fairness

-----------------------------------------------------------------------------
(* Properties *)

\* The types of the variables; a request is counted, because nothing in the
\* code keeps a second one of a kind from being sent.
TypeOK ==
    /\ saved \subseteq Task
    /\ automatic \subseteq saved
    /\ private \subseteq Task
    /\ privacy \in BOOLEAN
    /\ listed \subseteq Task
    /\ foreground \in BOOLEAN
    /\ queue \in Seq(Task)
    /\ wake \in BOOLEAN
    /\ run \in [current : Task \cup {NoTask}, pending : Task \cup {NoTask},
                resume : BOOLEAN, status : Status, item : {"none", "loading", "started"},
                ignoreEnd : BOOLEAN, candidates : Nat, failures : Nat, completed : Nat,
                fresh : [Request -> Nat], stale : SUBSET Request]
    /\ mpv \in [entry : {"idle", "loading", "playing"}, position : Nat, events : Seq(Event)]

\* A task is current or postponed exactly while the status says so, and never
\* both: it is the status that AppViewModel asks before it runs or deletes.
BusyIsHonest ==
    /\ Busy <=> ~Idle(run)
    /\ run.current = NoTask \/ run.pending = NoTask

\* Rule 6, the foreground first: nothing is loaded or played in the background
\* while the user watches something.
ForegroundFirst == foreground => run.item = "none"

\* A task waits for nothing but the foreground: it never stays "waiting", or
\* postponed, once the foreground has ended.
WaitsForForegroundOnly ==
    run.status = "waiting" \/ run.pending # NoTask \/ run.resume => foreground

\* Due tasks are not forgotten: while some are queued, a task occupies the
\* runner or a zero timer is on its way to start the first.
QueueServed == queue # <<>> /\ Idle(run) => wake

\* A run hangs on exactly one thing: the candidates, a playback address, or the
\* end of an item; otherwise it would do nothing for ever, or do two things.
OneThingAwaited ==
    /\ run.fresh["candidates"] + run.fresh["url"] <= 1
    /\ run.item # "none" => run.fresh["candidates"] + run.fresh["url"] = 0
    /\ run.current # NoTask /\ ~foreground =>
          (run.item # "none" <=> run.fresh["candidates"] + run.fresh["url"] = 0)
    /\ run.current = NoTask => run.item = "none" /\ run.fresh["candidates"] + run.fresh["url"] = 0

\* Outside private mode no task of a private service runs, waits or is queued.
PrivacyKept ==
    ~privacy => {run.current, run.pending} \cup QueuedTasks \subseteq (Task \ private) \cup {NoTask}

\* Rules 5 and 6: a task that is queued or postponed leaves its place only to
\* run or to wait for the foreground, or because its session is gone (the
\* manager passes it by in its turn and posts a zero timer for the next), its
\* policy is gone, or everything is stopped.
NoDueTaskDropped ==
    [][LET still == {queue'[i] : i \in DOMAIN queue'} IN
       /\ \A i \in DOMAIN queue :
             \/ queue[i] \in still \cup {run'.current, run'.pending}
             \/ run'.status = "idle"
             \/ wake' /\ \A j \in 1..i : queue[j] \notin still
             \/ queue[i] \notin listed' \cap automatic'
       /\ run.pending # NoTask =>
             \/ run.pending \in {run'.current, run'.pending}
             \/ run'.status = "idle"
             \/ wake' /\ run'.status = "error"]_vars

\* A run does not last for ever, unless the user keeps watching something: it
\* reaches its duration, fails, or is stopped.
TaskEnds ==
    <>[](~foreground) => \A t \in Task : run.current = t ~> run.current # t

=============================================================================
