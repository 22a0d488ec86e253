----------------------------- MODULE HlsRestore -----------------------------
(***************************************************************************)
(* The restoration of encrypted HLS packages to videos:                    *)
(* EncryptedHlsRestorer, which takes the rows of the page one after        *)
(* another, and the list EncryptedHlsRestoreViewModel shows of them.       *)
(*                                                                         *)
(* A row needs a session of the playback proxy, which decrypts for FFmpeg, *)
(* then FFmpeg, whose output is renamed at the end. Timers, the proxy's    *)
(* callback, FFmpeg and the watchdog come back on the interface's thread   *)
(* in any order, and may find that a cancellation or another batch came    *)
(* first.                                                                  *)
(***************************************************************************)
EXTENDS Naturals

CONSTANTS
    Rows,        \* the rows of the list
    MaxBatches,  \* bound: the batches
    StartFailsAtOnce   \* start() itself reports FailedToStart, as on Windows

ASSUME RowsAssumption == Rows \in Nat \ {0} /\ StartFailsAtOnce \in BOOLEAN

Generations == 0..2 * MaxBatches      \* start and cancel count one each
Final == {"completed", "failed", "canceled"}

VARIABLES
    state,            \* of the rows, as the list shows them
    running, cancelRequested,
    generation,       \* m_generation
    index,            \* m_index, from 1
    itemActive, pendingError,
    posted,           \* the generations of the timers of scheduleNext
    preparing,        \* the generations the proxy prepares a session for
    session,          \* m_sessionId, the generation it was prepared for, 0 for none
    sessions,         \* those the proxy has open
    ffmpeg,           \* m_ffmpeg: "off", at work, "hung", or "killed"
    staging           \* m_staging exists

batch == <<running, cancelRequested, generation, index>>
item == <<itemActive, pendingError, session, sessions, ffmpeg, staging>>
restoreVars == <<state, batch, item, posted, preparing>>

Row == 1..Rows

RestoreInit ==
    /\ state = [r \in Row |-> "waiting"]
    /\ running = FALSE /\ cancelRequested = FALSE /\ generation = 0 /\ index = 0
    /\ itemActive = FALSE /\ pendingError = FALSE /\ posted = {} /\ preparing = {}
    /\ session = 0 /\ sessions = {} /\ ffmpeg = "off" /\ staging = FALSE

-----------------------------------------------------------------------------
(* How a row and a batch end *)

\* MUTANT: the session is forgotten, and stays open.
CleanupKeepsSession(open) ==
    /\ session' = 0 /\ sessions' = open
    /\ staging' = FALSE /\ pendingError' = FALSE

\* cleanupCurrent, when these sessions are open.
CleanupCurrent(open) ==
    /\ session' = 0 /\ sessions' = open \ {session}
    /\ staging' = FALSE /\ pendingError' = FALSE

\* finishBatch: the rows a canceled batch did not come to.
FinalStates(r, shown) == IF cancelRequested' /\ r > index' THEN "canceled" ELSE shown

\* finishBatch, with what the rows show before it.
FinishBatch(shown) ==
    /\ running' = FALSE
    /\ state' = [r \in Row |-> FinalStates(r, shown[r])]

\* settleCurrent and what follows it; cancelRequested' and generation' are
\* those of the handler.
SettleCurrent(how, open) ==
    /\ CleanupCurrent(open) /\ itemActive' = FALSE
    /\ LET shown == [state EXCEPT ![index] = how] IN
       IF cancelRequested' THEN FinishBatch(shown) /\ UNCHANGED posted
       ELSE /\ state' = shown /\ posted' = posted \cup {generation'}
            /\ UNCHANGED running

-----------------------------------------------------------------------------
(* The user *)

\* EncryptedHlsRestoreViewModel::start and EncryptedHlsRestorer::start
StartBatch ==
    /\ ~running /\ generation < 2 * MaxBatches - 1
    /\ running' = TRUE /\ cancelRequested' = FALSE /\ generation' = generation + 1
    /\ index' = 0 /\ posted' = posted \cup {generation'}
    /\ state' = [r \in Row |-> "waiting"]
    /\ UNCHANGED <<item, preparing>>

\* cancel()
Cancel ==
    /\ running /\ ~cancelRequested
    /\ cancelRequested' = TRUE /\ generation' = generation + 1 /\ UNCHANGED index
    /\ IF ffmpeg # "off"
       THEN ffmpeg' = "killed" /\ UNCHANGED <<state, running, itemActive, pendingError,
                                              session, sessions, staging, posted>>
       ELSE /\ IF itemActive THEN SettleCurrent("canceled", sessions)
               ELSE /\ FinishBatch(state)
                    /\ UNCHANGED <<itemActive, pendingError, session, sessions, staging, posted>>
            /\ UNCHANGED ffmpeg
    /\ UNCHANGED preparing

-----------------------------------------------------------------------------
(* The callbacks *)

\* The callback was made for what the restorer is doing now.
Current(g) == running /\ g = generation

\* startNext: ++m_index >= m_request.sources.size()
NoRowLeft == index >= Rows

\* The timer of scheduleNext: startNext. A row whose file cannot be read fails.
Next_(g) ==
    /\ g \in posted
    /\ UNCHANGED <<cancelRequested, generation, ffmpeg>>
    /\ IF ~Current(g)
       THEN posted' = posted \ {g} /\ UNCHANGED <<state, running, index, itemActive, pendingError,
                                                  session, sessions, staging, preparing>>
       ELSE IF NoRowLeft
       THEN /\ posted' = posted \ {g} /\ index' = index + 1 /\ FinishBatch(state)
            /\ UNCHANGED <<itemActive, pendingError, session, sessions, staging, preparing>>
       ELSE /\ index' = index + 1
            /\ \/ /\ state' = [state EXCEPT ![index + 1] = "preparing"]
                  /\ itemActive' = TRUE /\ preparing' = preparing \cup {g}
                  /\ posted' = posted \ {g}
                  /\ UNCHANGED <<running, pendingError, session, sessions, staging>>
               \/ /\ state' = [state EXCEPT ![index + 1] = "failed"]
                  /\ itemActive' = FALSE
                  /\ UNCHANGED <<running, pendingError, session, sessions, staging, preparing, posted>>

\* The proxy has prepared the stream, or could not: launch. There may be no
\* directory or muxer for it. When start() reports FailedToStart itself, launch
\* goes on after the row was settled and shows it as being restored.
Prepared(g) ==
    /\ g \in preparing /\ preparing' = preparing \ {g}
    /\ UNCHANGED <<cancelRequested, generation, index>>
    /\ IF ~Current(g)
       THEN UNCHANGED <<state, running, item, posted>>      \* revoked at once
       ELSE \/ /\ session' = g /\ sessions' = sessions \cup {g}
               /\ staging' = TRUE /\ ffmpeg' = "working"
               /\ state' = [state EXCEPT ![index] = "restoring"]
               /\ UNCHANGED <<running, itemActive, pendingError, posted>>
            \/ SettleCurrent("failed", sessions) /\ UNCHANGED ffmpeg
            \/ /\ StartFailsAtOnce
               /\ SettleCurrent("restoring", sessions) /\ UNCHANGED ffmpeg

\* FFmpeg reports nothing any more.
Hang ==
    /\ ffmpeg = "working" /\ ffmpeg' = "hung"
    /\ UNCHANGED <<state, batch, itemActive, pendingError, session, sessions, staging, posted, preparing>>

\* stopWithError: of the proxy's streamFailed, or of the watchdog.
StopWithError ==
    /\ running /\ ~cancelRequested /\ ~pendingError
    /\ pendingError' = TRUE /\ ffmpeg' = "killed"
    /\ UNCHANGED <<state, batch, itemActive, session, sessions, staging, posted, preparing>>

StreamFailed == session # 0 /\ ffmpeg # "off" /\ StopWithError

Watchdog == ffmpeg = "hung" /\ StopWithError

\* processFinished, and the handler of FailedToStart: what becomes of the row.
\* A killed FFmpeg may have exited normally before.
Result ==
    IF cancelRequested THEN {"canceled"}
    ELSE IF pendingError THEN {"failed"} ELSE {"completed", "failed"}

FfmpegExits ==
    /\ ffmpeg \in {"working", "killed"} /\ running
    /\ ffmpeg' = "off" /\ UNCHANGED <<cancelRequested, generation, index, preparing>>
    /\ \E how \in Result : SettleCurrent(how, sessions)

-----------------------------------------------------------------------------
RestoreNext ==
    \/ StartBatch \/ Cancel \/ Hang \/ StreamFailed \/ Watchdog \/ FfmpegExits
    \/ \E g \in Generations : Next_(g) \/ Prepared(g)

RestoreSpec == RestoreInit /\ [][RestoreNext]_restoreVars

\* Timers fire, the proxy answers, FFmpeg ends unless it hangs, and the
\* watchdog ends that.
RestoreFairness ==
    /\ WF_restoreVars(FfmpegExits) /\ WF_restoreVars(Watchdog)
    /\ \A g \in Generations : WF_restoreVars(Next_(g)) /\ WF_restoreVars(Prepared(g))

RestoreFairSpec == RestoreSpec /\ RestoreFairness

-----------------------------------------------------------------------------
RestoreTypeOK ==
    /\ state \in [Row -> {"waiting", "preparing", "restoring"} \cup Final]
    /\ running \in BOOLEAN /\ cancelRequested \in BOOLEAN
    /\ generation \in Nat /\ index \in 0..Rows + 1
    /\ itemActive \in BOOLEAN /\ pendingError \in BOOLEAN /\ staging \in BOOLEAN
    /\ posted \subseteq 0..generation /\ preparing \subseteq 0..generation
    /\ session \in 0..generation /\ sessions \subseteq 0..generation
    /\ ffmpeg \in {"off", "working", "hung", "killed"}

\* When a batch is over every row of it has its result, also the rows it never
\* came to and the one a cancellation found in the middle of something.
EveryRowSettled == ~running /\ generation > 0 => \A r \in Row : state[r] \in Final

\* A row that is over holds nothing: no session that would go on decrypting, no
\* FFmpeg, no temporary directory. What is open belongs to the row in work.
NothingHeld ==
    /\ sessions \subseteq {session}
    /\ ~itemActive => session = 0 /\ ffmpeg = "off" /\ ~staging /\ ~pendingError
    /\ itemActive => running

\* What a batch of restored packages guarantees in every order of its start, its
\* cancellation, the proxy's failures, FFmpeg's end and the timers: every row gets
\* its result, and a row that has one keeps no session, process or directory open
\* (EncryptedHlsRestorer::settleCurrent, startNext).
RestoreInv == RestoreTypeOK /\ EveryRowSettled /\ NothingHeld

\* Only whole videos are saved: no row is completed after a cancellation was
\* accepted, or after its stream failed, though FFmpeg exits normally when it
\* skips a segment it could not get.
OnlyWholeVideos ==
    [][\A r \in Row : state'[r] = "completed" /\ state[r] # "completed"
                      => ~cancelRequested /\ ~pendingError]_restoreVars

\* A batch ends, also when FFmpeg hangs or a cancellation comes at a bad moment.
BatchEnds == running ~> ~running
=============================================================================
