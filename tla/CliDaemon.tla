------------------------------ MODULE CliDaemon ------------------------------
(***************************************************************************)
(* The host of the command line's background tasks (cli/CliDaemon.cpp): a  *)
(* table of jobs kept in memory and in cli_tasks.sqlite3, one engine that  *)
(* executes one job at a time, the requests of clients, shutdown, crash    *)
(* and restart.                                                            *)
(*                                                                         *)
(* One thread. Engine::execute waits in nested event loops, so requests    *)
(* are handled and timers fire while a job is under way: an action is one  *)
(* callback, or the engine's progress from one event loop to the next.     *)
(* A client that does not know the PIN of a private job changes nothing;   *)
(* the requests here are those of clients that do.                         *)
(***************************************************************************)
EXTENDS Integers, FiniteSets

CONSTANTS
    Job,          \* the ids of submitted jobs; next() takes the smallest
    NoJob,        \* activeId.isEmpty()
    Kind,         \* Job -> "download" | "upload" | "smb" | "other": its command
    Private,      \* the jobs on a private service
    NeedsSecret   \* the jobs submitted with temporary credentials

Kinds == {"download", "upload", "smb", "other"}
Finished == {"completed", "failed", "canceled"}
State == {"absent", "queued", "running", "paused", "interrupted"} \cup Finished
Stage == {"none", "prepare", "transfer", "publish", "copy"}

ASSUME JobAssumption == Job \subseteq Nat
ASSUME NoJobAssumption == NoJob \notin Job
ASSUME KindAssumption ==
    Kind \in [Job -> Kinds] /\ Private \subseteq Job /\ NeedsSecret \subseteq Job

VARIABLES
    host,      \* "down" | "up" | "stopping": the process, and its flag stopping
    jobs,      \* jobs[id].state, "absent" without a row; all absent when down
    disk,      \* the state in the row of the table tasks
    secrets,   \* the ids with an entry CliTask/id in the credential store
    pins,      \* the keys of pins
    active,    \* activeId
    stage,     \* where the engine is: "none" without one
    held,      \* its transfer is paused
    canceled,  \* CliConsole::canceled
    wake,      \* a zero timer that will call next is posted
    faulty     \* history: the jobs for which a store has refused a write

vars == <<host, jobs, disk, secrets, pins, active, stage, held, canceled, wake, faulty>>
engineVars == <<active, stage, held, canceled>>

-----------------------------------------------------------------------------
(* The stores *)

\* save(id) with the state s, whose result most callers ignore: the row may
\* keep what it held.
Save(j, s) ==
    \/ disk' = [disk EXCEPT ![j] = s] /\ UNCHANGED faulty
    \/ faulty' = faulty \cup {j} /\ UNCHANGED disk

SetState(j, s) == jobs' = [jobs EXCEPT ![j] = s] /\ Save(j, s)

-----------------------------------------------------------------------------
Down ==
    /\ jobs' = [j \in Job |-> "absent"]
    /\ pins' = {}
    /\ active' = NoJob
    /\ stage' = "none"
    /\ held' = FALSE
    /\ canceled' = FALSE
    /\ wake' = FALSE
    /\ host' = "down"

Init ==
    /\ host = "down"
    /\ jobs = [j \in Job |-> "absent"]
    /\ disk = [j \in Job |-> "absent"]
    /\ secrets = {}
    /\ pins = {}
    /\ active = NoJob
    /\ stage = "none"
    /\ held = FALSE
    /\ canceled = FALSE
    /\ wake = FALSE
    /\ faulty = {}

\* runDaemon: what the last host had not finished is interrupted, and the
\* rows of the jobs of refused keep their state.
Start ==
    LET lost == {j \in Job : disk[j] \in {"running", "paused", "queued"}}
    IN  /\ host = "down"
        /\ host' = "up"
        /\ jobs' = [j \in Job |-> IF j \in lost THEN "interrupted" ELSE disk[j]]
        /\ \E refused \in SUBSET lost :
              /\ disk' = [j \in Job |-> IF j \in lost \ refused THEN "interrupted" ELSE disk[j]]
              /\ faulty' = faulty \cup refused
        /\ wake' = TRUE
        /\ UNCHANGED <<secrets, pins, engineVars>>

\* The process is killed.
Crash ==
    /\ host # "down"
    /\ Down
    /\ UNCHANGED <<disk, secrets, faulty>>

-----------------------------------------------------------------------------
(* next(): the choice of a job, the engine, the result *)

Queued == {j \in Job : jobs[j] = "queued"}

\* The posted call of next. Engine::execute forgets an earlier cancellation.
StartNext ==
    /\ wake
    /\ wake' = FALSE
    /\ \/ /\ active # NoJob \/ host = "stopping" \/ Queued = {}
          /\ UNCHANGED <<jobs, disk, faulty, engineVars>>
       \/ /\ active = NoJob /\ host = "up"
          /\ \E j \in Queued :
                /\ \A other \in Queued : j <= other
                /\ active' = j
                /\ SetState(j, "running")
          /\ stage' = "prepare"
          /\ held' = FALSE
          /\ canceled' = FALSE
    /\ UNCHANGED <<host, secrets, pins>>

EngineOnly == UNCHANGED <<host, jobs, disk, secrets, pins, active, canceled, wake, faulty>>

\* A TransferManager is made for the next file, or the SMB copy begins. The
\* loops over files look at the cancellation before each one.
BeginTransfer ==
    /\ stage = "prepare"
    /\ ~canceled
    /\ Kind[active] # "other"
    /\ stage' = IF Kind[active] = "smb" THEN "copy" ELSE "transfer"
    /\ held' = FALSE
    /\ EngineOnly

\* Its row is done, failed or canceled. An upload's manager goes with it; a
\* download's lives on while the file is published and hashed.
EndTransfer ==
    /\ stage = "transfer"
    /\ ~held
    /\ \/ stage' = "prepare"
       \/ Kind[active] = "download" /\ stage' = "publish"
    /\ UNCHANGED held
    /\ EngineOnly

EndPublish ==
    /\ stage = "publish"
    /\ stage' = "prepare"
    /\ UNCHANGED held
    /\ EngineOnly

\* The codes executeCommand can return, before Engine::execute looks at the
\* cancellation: what is left to do once a file is published can only fail.
Codes == IF stage = "publish" THEN {"failed"} ELSE {"success", "failed"}

\* The copy loop does not leave a pause unless it is resumed or canceled.
CanFinish == stage \in {"prepare", "publish"} \/ (stage = "copy" /\ (~held \/ canceled))

\* The tail of next, once execute has returned code: the secret of a success
\* is deleted, then the row is saved, and either may be refused unnoticed.
Conclude(code) ==
    LET state == CASE host = "stopping" -> "interrupted"
                   [] host # "stopping" /\ code = "success" -> "completed"
                   [] OTHER -> code
        deletes == code = "success" /\ active \in secrets
    IN  /\ \E refused \in {{}, {active}} :
              /\ secrets' = IF deletes THEN secrets \ ({active} \ refused) ELSE secrets
              /\ \/ disk' = [disk EXCEPT ![active] = state]
                    /\ faulty' = IF deletes THEN faulty \cup refused ELSE faulty
                 \/ UNCHANGED disk /\ faulty' = faulty \cup {active}
        /\ IF host = "stopping"
           THEN Down
           ELSE /\ jobs' = [jobs EXCEPT ![active] = state]
                /\ pins' = pins \ {active}
                /\ active' = NoJob
                /\ stage' = "none"
                /\ held' = FALSE
                /\ canceled' = FALSE
                /\ wake' = TRUE
                /\ UNCHANGED host

\* A fault of Finish: the result counts, cancellation or not.
FinishWithResult == CanFinish /\ \E code \in Codes : Conclude(code)

Finish ==
    /\ CanFinish
    /\ IF canceled THEN Conclude("canceled") ELSE \E code \in Codes : Conclude(code)

-----------------------------------------------------------------------------
(* Requests *)

\* What the host needs to accept a request.
Serving == host # "down"

\* Faults of Submit: the secret of a refused job stays, or the job stays.
SubmitLeaksSecret(j) ==
    /\ Serving /\ jobs[j] = "absent" /\ disk[j] = "absent" /\ j \notin faulty
    /\ secrets' = secrets \cup ({j} \cap NeedsSecret)
    /\ \/ /\ jobs' = [jobs EXCEPT ![j] = "queued"]
          /\ disk' = [disk EXCEPT ![j] = "queued"]
          /\ pins' = pins \cup ({j} \cap Private)
          /\ wake' = TRUE
       \/ UNCHANGED <<jobs, disk, pins, wake>>
    /\ UNCHANGED <<host, engineVars, faulty>>

SubmitKeepsJob(j) ==
    /\ Serving /\ jobs[j] = "absent" /\ disk[j] = "absent" /\ j \notin faulty
    /\ secrets' = secrets \cup ({j} \cap NeedsSecret)
    /\ SetState(j, "queued")
    /\ pins' = pins \cup ({j} \cap Private)
    /\ wake' = TRUE
    /\ UNCHANGED <<host, engineVars>>

\* A job that the database refuses is taken back, its secret with it, short of
\* a credential store that refuses the deletion as well. Ids are never reused;
\* here that of a removed job stands for a fresh one.
Submit(j) ==
    /\ Serving
    /\ jobs[j] = "absent" /\ disk[j] = "absent" /\ j \notin faulty
    /\ \/ /\ jobs' = [jobs EXCEPT ![j] = "queued"]
          /\ disk' = [disk EXCEPT ![j] = "queued"]
          /\ secrets' = secrets \cup ({j} \cap NeedsSecret)
          /\ pins' = pins \cup ({j} \cap Private)
          /\ wake' = TRUE
          /\ UNCHANGED faulty
       \/ /\ j \in NeedsSecret
          /\ secrets' = secrets \cup {j}
          /\ faulty' = faulty \cup {j}
          /\ UNCHANGED <<jobs, disk, pins, wake>>
    /\ UNCHANGED <<host, engineVars>>

\* task cancel of a job the engine does not have: a word in the table.
CancelWaiting(j) ==
    /\ Serving
    /\ j # active
    /\ jobs[j] \notin Finished \cup {"absent"}
    /\ SetState(j, "canceled")
    /\ UNCHANGED <<host, secrets, pins, engineVars, wake>>

\* task cancel of the active job: transferControl raises the flag and stops
\* the transfer, paused or not; the state waits for the result.
CancelActive(j) ==
    /\ Serving
    /\ j = active
    /\ canceled' = TRUE
    /\ held' = FALSE
    /\ SetState(j, jobs[j])
    /\ UNCHANGED <<host, secrets, pins, active, stage, wake>>

PauseWaiting(j) ==
    /\ Serving
    /\ j # active
    /\ jobs[j] = "queued"
    /\ SetState(j, "paused")
    /\ UNCHANGED <<host, secrets, pins, engineVars, wake>>

\* A conflict without a transfer; otherwise transferControl pauses the rows of
\* m_activeTransfer, done or canceled ones excepted, or the copy loop.
PauseActive(j) ==
    /\ Serving
    /\ j = active
    /\ stage # "prepare"
    /\ held' = (stage = "copy" \/ (stage = "transfer" /\ ~canceled))
    /\ SetState(j, "paused")
    /\ UNCHANGED <<host, secrets, pins, active, stage, canceled, wake>>

\* A fault of ResumeWaiting: no zero timer.
ResumeQuietly(j) ==
    /\ Serving
    /\ j # active
    /\ jobs[j] \notin {"absent", "completed", "running"}
    /\ SetState(j, "queued")
    /\ pins' = pins \cup ({j} \cap Private)
    /\ UNCHANGED <<host, secrets, engineVars, wake>>

\* task resume and task retry of a job the engine does not have.
ResumeWaiting(j) ==
    /\ Serving
    /\ j # active
    /\ jobs[j] \notin {"absent", "completed", "running"}
    /\ SetState(j, "queued")
    /\ pins' = pins \cup ({j} \cap Private)
    /\ wake' = TRUE
    /\ UNCHANGED <<host, secrets, engineVars>>

ResumeActive(j) ==
    /\ Serving
    /\ j = active
    /\ stage # "prepare"
    /\ held' = FALSE
    /\ SetState(j, "running")
    /\ UNCHANGED <<host, secrets, pins, active, stage, canceled, wake>>

\* task remove: the staging files, the secret, the row, in this order; each
\* may be refused and then the rest stays.
Remove(j) ==
    /\ Serving
    /\ j # active
    /\ jobs[j] \notin {"absent", "queued"}
    /\ \/ /\ disk' = [disk EXCEPT ![j] = "absent"]
          /\ jobs' = [jobs EXCEPT ![j] = "absent"]
          /\ secrets' = secrets \ {j}
          /\ pins' = pins \ {j}
          /\ UNCHANGED faulty
       \/ /\ secrets' = secrets \ {j}
          /\ faulty' = faulty \cup {j}
          /\ UNCHANGED <<jobs, disk, pins>>
    /\ UNCHANGED <<host, engineVars, wake>>

-----------------------------------------------------------------------------
(* Shutdown *)

\* A fault of DaemonStop: a transfer that is paused stays paused.
DaemonStopKeepsPause ==
    /\ Serving
    /\ host' = "stopping"
    /\ canceled' = (canceled \/ active # NoJob)
    /\ UNCHANGED <<jobs, disk, secrets, pins, active, stage, held, wake, faulty>>

\* daemon stop: an active job is canceled and Conclude ends the process.
DaemonStop ==
    /\ Serving
    /\ host' = "stopping"
    /\ canceled' = (canceled \/ active # NoJob)
    /\ held' = FALSE
    /\ UNCHANGED <<jobs, disk, secrets, pins, active, stage, wake, faulty>>

\* Without one a timer of 100 ms does.
QuitTimer ==
    /\ host = "stopping"
    /\ active = NoJob
    /\ Down
    /\ UNCHANGED <<disk, secrets, faulty>>

\* Ctrl-C in the terminal of daemon run. The transfer's own timer sees it too.
Interrupt ==
    /\ Serving
    /\ ~canceled
    /\ canceled' = TRUE
    /\ held' = FALSE
    /\ UNCHANGED <<host, jobs, disk, secrets, pins, active, stage, wake, faulty>>

\* interruptTimer, which leaves a running engine alone.
InterruptTimer ==
    /\ host = "up"
    /\ active = NoJob
    /\ canceled
    /\ Down
    /\ UNCHANGED <<disk, secrets, faulty>>

-----------------------------------------------------------------------------
EngineStep == BeginTransfer \/ EndTransfer \/ EndPublish \/ Finish

Request(j) ==
    \/ Submit(j)
    \/ CancelWaiting(j) \/ CancelActive(j)
    \/ PauseWaiting(j) \/ PauseActive(j)
    \/ ResumeWaiting(j) \/ ResumeActive(j)
    \/ Remove(j)

Next ==
    \/ Start \/ Crash
    \/ StartNext
    \/ EngineStep
    \/ \E j \in Job : Request(j)
    \/ DaemonStop \/ QuitTimer
    \/ Interrupt \/ InterruptTimer

Spec == Init /\ [][Next]_vars

(* The event loop fires its timers, and the engine gets on: a transfer that  *)
(* is not paused ends (TransferManager's timeouts and SlotReleased), as does *)
(* a copy, and the code after it runs. Nothing is assumed of the clients.    *)
Fairness ==
    /\ WF_vars(StartNext)
    /\ WF_vars(EndTransfer) /\ WF_vars(EndPublish) /\ WF_vars(Finish)
    /\ WF_vars(QuitTimer) /\ WF_vars(InterruptTimer)

FairSpec == Spec /\ Fairness

-----------------------------------------------------------------------------
(* Properties *)

\* Type correctness. Only a job submitted with temporary credentials has an
\* entry in the credential store, and only a private one has a PIN in memory.
TypeOK ==
    /\ host \in {"down", "up", "stopping"}
    /\ jobs \in [Job -> State]
    /\ disk \in [Job -> State]
    /\ secrets \subseteq NeedsSecret
    /\ pins \subseteq Private
    /\ active \in Job \cup {NoJob}
    /\ stage \in Stage
    /\ held \in BOOLEAN
    /\ canceled \in BOOLEAN
    /\ wake \in BOOLEAN
    /\ faulty \subseteq Job

\* The host executes one top-level job at a time (VIBEDOCS/CliBackgroundTasks.md:20)
\* and the table says which: only the active job is ever running, and while the
\* engine has it no request makes it finished, queued again or gone.
OneJobAtATime ==
    /\ active = NoJob <=> stage = "none"
    /\ active # NoJob => jobs[active] \in {"running", "paused"}
    /\ \A j \in Job : jobs[j] = "running" => j = active

\* The database follows the memory: a job is in both or in neither, whatever
\* writes are refused, so that no acknowledged job is lost by a crash and no
\* removed one comes back; and unless a write was refused, the states agree.
DiskFollowsMemory ==
    host # "down" => \A j \in Job :
        /\ jobs[j] = "absent" <=> disk[j] = "absent"
        /\ j \notin faulty => jobs[j] = disk[j]

\* Temporary credentials live as long as they may be needed: an accepted job
\* keeps its secret through failure, cancellation, shutdown, crash and restart
\* until it completes or is removed, and no secret outlives that.
SecretsFollowRows ==
    \A j \in NeedsSecret \ faulty :
        j \in secrets <=> disk[j] \notin {"absent", "completed"}

\* A queued job can run: the PIN of a private one is in memory, although
\* neither the database nor the credential store ever holds it.
QueuedHasPin == \A j \in Private : jobs[j] = "queued" => j \in pins

\* No lost wake-up: while a job could be started, a call of next is to come.
NoQueueStall == host = "up" /\ active = NoJob /\ Queued # {} => wake

\* A canceled job never counts as completed, however late the cancellation
\* comes, and keeps its secret for a retry.
CanceledIsNotCompleted ==
    [][active # NoJob /\ canceled =>
          /\ disk'[active] # "completed"
          /\ active \in secrets => active \in secrets']_vars

\* daemon stop stops the host, also one whose job is paused.
StopEnds == host = "stopping" ~> host = "down"
=============================================================================
