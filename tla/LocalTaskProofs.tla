-------------------------- MODULE LocalTaskProofs --------------------------
(***************************************************************************)
(* Proofs about the work a process does for itself: the restore of         *)
(* encrypted HLS packages (HlsRestore), for any number of rows and         *)
(* batches, their export (M3u8sExport), for any videos and any number of   *)
(* parallel jobs, and the tasks of the command line (CliDaemon), for every *)
(* set of jobs and every kind of job.                                      *)
(*                                                                         *)
(* Where the start of a process reports its own failure                    *)
(* (StartFailsAtOnce), a row that is over keeps the text "restoring"; what *)
(* is said of the results is about the other platforms.                    *)
(***************************************************************************)
EXTENDS MCPackages, CliDaemon, FiniteSetTheorems, TLAPS

-----------------------------------------------------------------------------
(* The restore *)

(***************************************************************************)
(* The inductive invariant.  The type invariant is taken apart into what   *)
(* is a function, a number, a flag.  The rest says that at any time the    *)
(* running batch waits for one thing: the timer of the next row, the       *)
(* proxy, or FFmpeg.                                                       *)
(***************************************************************************)
StateOK == state \in [Row -> {"waiting", "preparing", "restoring"} \cup Final]

NumbersOK ==
    /\ generation \in Nat /\ index \in 0..Rows + 1
    /\ posted \subseteq 0..generation /\ preparing \subseteq 0..generation
    /\ session \in 0..generation /\ sessions \subseteq 0..generation

FlagsOK ==
    /\ running \in BOOLEAN /\ cancelRequested \in BOOLEAN
    /\ itemActive \in BOOLEAN /\ pendingError \in BOOLEAN /\ staging \in BOOLEAN
    /\ ffmpeg \in {"off", "working", "hung", "killed"}

\* What a row shows that is over.
Settled == IF StartFailsAtOnce THEN Final \cup {"restoring"} ELSE Final

\* The rows the batch has left behind have their result.
BehindIsSettled == running => \A r \in Row : r <= index /\ ~(itemActive /\ r = index) => state[r] \in Settled

AllSettled == ~running /\ generation > 0 => \A r \in Row : state[r] \in Settled

InRange == (running => index <= Rows /\ generation > 0) /\ (itemActive => index > 0)

\* A session is open exactly for FFmpeg.
SessionServes == sessions \subseteq {session} \ {0} /\ (ffmpeg = "off" => session = 0)

TimerWaits == running /\ generation \in posted => ~itemActive /\ ~cancelRequested /\ generation \notin preparing

ProxyWaits == running /\ generation \in preparing => itemActive /\ ~cancelRequested /\ ffmpeg = "off"

CancelWaits == running /\ cancelRequested => ffmpeg # "off"

Waits == InRange /\ SessionServes /\ TimerWaits /\ ProxyWaits /\ CancelWaits

RestorerInv == StateOK /\ NumbersOK /\ FlagsOK /\ AllSettled /\ BehindIsSettled /\ NothingHeld /\ Waits

USE RowsAssumption

LEMMA RowIsNumber == \A r \in Row : r \in Nat /\ r > 0 /\ r <= Rows
  BY DEF Row

LEMMA SettledIsState == Settled \subseteq {"waiting", "preparing", "restoring"} \cup Final
  BY DEF Settled

LEMMA FinalIsSettled == "canceled" \in Settled /\ "failed" \in Settled /\ "completed" \in Settled
                        /\ (StartFailsAtOnce => "restoring" \in Settled)
  BY DEF Settled, Final

\* The row in work is settled: then the timer of the next one is posted, or a canceled batch ends.
LEMMA SettleKeepsInv ==
    ASSUME RestorerInv, itemActive, NEW how \in Settled, SettleCurrent(how, sessions),
           preparing' \subseteq preparing, index' = index, cancelRequested' \in BOOLEAN,
           generation' \in Nat, generation' >= generation, ffmpeg' = "off",
           ~cancelRequested' => generation' = generation /\ generation \notin preparing'
    PROVE  RestorerInv'
<1>1. index \in Row /\ running /\ index <= Rows /\ generation > 0
  BY DEF RestorerInv, NothingHeld, Waits, InRange, NumbersOK, Row
<1>2. sessions' = {} /\ session' = 0 /\ staging' = FALSE /\ pendingError' = FALSE /\ itemActive' = FALSE
  BY DEF SettleCurrent, CleanupCurrent, RestorerInv, Waits, SessionServes, NumbersOK
<1>3. \A r \in Row : r <= index => [state EXCEPT ![index] = how][r] \in Settled
  BY <1>1 DEF RestorerInv, BehindIsSettled, StateOK
<1>4. CASE cancelRequested'
  <2>1. running' = FALSE /\ posted' = posted
        /\ state' = [r \in Row |-> FinalStates(r, [state EXCEPT ![index] = how][r])]
    BY <1>4 DEF SettleCurrent, FinishBatch
  <2>2. \A r \in Row : state'[r] \in Settled
    BY <1>1, <1>3, <1>4, <2>1, RowIsNumber, FinalIsSettled DEF FinalStates
  <2>3. StateOK'
    BY <2>1, <2>2, SettledIsState DEF StateOK
  <2>4. NumbersOK'
    BY <1>2, <2>1 DEF RestorerInv, NumbersOK
  <2>5. FlagsOK'
    BY <1>2, <2>1 DEF FlagsOK
  <2>. QED
    BY <1>2, <2>1, <2>2, <2>3, <2>4, <2>5
    DEF RestorerInv, AllSettled, BehindIsSettled, NothingHeld, Waits, InRange, SessionServes, TimerWaits, ProxyWaits,
        CancelWaits
<1>5. CASE ~cancelRequested'
  <2>1. running' = TRUE /\ posted' = posted \cup {generation} /\ state' = [state EXCEPT ![index] = how]
        /\ generation' = generation
    BY <1>1, <1>5 DEF SettleCurrent, RestorerInv, FlagsOK
  <2>2. StateOK'
    BY <1>1, <2>1, SettledIsState DEF RestorerInv, StateOK
  <2>3. NumbersOK'
    BY <1>2, <2>1 DEF RestorerInv, NumbersOK
  <2>4. FlagsOK'
    BY <1>2, <2>1 DEF FlagsOK
  <2>. QED
    BY <1>1, <1>2, <1>3, <1>5, <2>1, <2>2, <2>3, <2>4
    DEF RestorerInv, AllSettled, BehindIsSettled, NothingHeld, Waits, InRange, SessionServes, TimerWaits, ProxyWaits,
        CancelWaits
<1>. QED  BY <1>4, <1>5

LEMMA RestorerInit == ASSUME RestoreInit PROVE RestorerInv
<1>1. StateOK
  BY DEF RestoreInit, StateOK
<1>2. NumbersOK
  BY DEF RestoreInit, NumbersOK
<1>3. FlagsOK
  BY DEF RestoreInit, FlagsOK
<1>4. ~running /\ generation = 0 /\ ~itemActive /\ posted = {} /\ preparing = {} /\ sessions = {} /\ session = 0
      /\ ffmpeg = "off" /\ ~staging /\ ~pendingError
  BY DEF RestoreInit
<1>. QED
  BY <1>1, <1>2, <1>3, <1>4 DEF RestorerInv, AllSettled, BehindIsSettled, NothingHeld, Waits, InRange, SessionServes,
     TimerWaits, ProxyWaits, CancelWaits

LEMMA StartKeepsInv == ASSUME RestorerInv, StartBatch PROVE RestorerInv'
<1>1. StateOK'
  BY DEF StartBatch, StateOK
<1>2. NumbersOK'
  BY DEF StartBatch, item, RestorerInv, NumbersOK
<1>3. ~itemActive /\ generation' \notin preparing /\ generation' \in Nat /\ generation' > 0
  BY DEF StartBatch, RestorerInv, NothingHeld, NumbersOK
<1>4. FlagsOK'
  BY DEF StartBatch, item, RestorerInv, FlagsOK
<1>5. BehindIsSettled'
  BY RowIsNumber DEF StartBatch, BehindIsSettled
<1>. QED
  BY <1>1, <1>2, <1>3, <1>4, <1>5 DEF StartBatch, item, RestorerInv, AllSettled, NothingHeld, Waits, InRange, SessionServes,
     TimerWaits, ProxyWaits, CancelWaits

LEMMA CancelKeepsInv == ASSUME RestorerInv, Cancel PROVE RestorerInv'
<1>1. generation' = generation + 1 /\ index' = index /\ cancelRequested' = TRUE /\ preparing' = preparing
      /\ generation' \notin posted /\ generation' \notin preparing
  BY DEF Cancel, RestorerInv, NumbersOK
<1>2. CASE ffmpeg # "off"
  <2>1. /\ ffmpeg' = "killed"
        /\ UNCHANGED <<state, running, itemActive, pendingError, session, sessions, staging, posted>>
    BY <1>2 DEF Cancel
  <2>2. NumbersOK'
    BY <1>1, <2>1 DEF RestorerInv, NumbersOK
  <2>. QED
    BY <1>1, <1>2, <2>1, <2>2 DEF RestorerInv, StateOK, FlagsOK, NumbersOK, AllSettled, BehindIsSettled, NothingHeld,
       Waits, InRange, SessionServes, TimerWaits, ProxyWaits, CancelWaits
<1>3. CASE ffmpeg = "off" /\ itemActive
  <2>1. SettleCurrent("canceled", sessions) /\ ffmpeg' = "off"
    BY <1>3 DEF Cancel
  <2>. QED  BY <1>1, <1>3, <2>1, SettleKeepsInv, FinalIsSettled DEF RestorerInv, NumbersOK
<1>4. CASE ffmpeg = "off" /\ ~itemActive
  <2>1. /\ running' = FALSE /\ state' = [r \in Row |-> FinalStates(r, state[r])]
        /\ UNCHANGED <<itemActive, pendingError, session, sessions, staging, posted, ffmpeg>>
    BY <1>4 DEF Cancel, FinishBatch
  <2>2. \A r \in Row : state'[r] \in Settled
    BY <1>1, <1>4, <2>1, RowIsNumber, FinalIsSettled DEF FinalStates, RestorerInv, NumbersOK, BehindIsSettled, Cancel
  <2>3. StateOK'
    BY <2>1, <2>2, SettledIsState DEF StateOK
  <2>4. NumbersOK'
    BY <1>1, <2>1 DEF RestorerInv, NumbersOK
  <2>. QED
    BY <1>1, <1>4, <2>1, <2>2, <2>3, <2>4 DEF RestorerInv, FlagsOK, AllSettled, BehindIsSettled, NothingHeld, Waits,
       InRange, SessionServes, TimerWaits, ProxyWaits, CancelWaits
<1>. QED  BY <1>2, <1>3, <1>4

LEMMA NextRowKeepsInv == ASSUME RestorerInv, NEW g \in Generations, Next_(g) PROVE RestorerInv'
<1>1. UNCHANGED <<cancelRequested, generation, ffmpeg>> /\ g \in posted
  BY DEF Next_
<1>2. CASE ~Current(g)
  <2>1. posted' = posted \ {g} /\ UNCHANGED <<state, running, index, itemActive, pendingError, session, sessions,
                                              staging, preparing>>
    BY <1>2 DEF Next_
  <2>2. NumbersOK'
    BY <1>1, <2>1 DEF RestorerInv, NumbersOK
  <2>. QED
    BY <1>1, <2>1, <2>2 DEF RestorerInv, StateOK, FlagsOK, AllSettled, BehindIsSettled, NothingHeld, Waits, InRange,
       SessionServes, TimerWaits, ProxyWaits, CancelWaits
<1>3. CASE Current(g) /\ NoRowLeft
  <2>1. running /\ g = generation /\ ~itemActive /\ ~cancelRequested /\ index = Rows
    BY <1>1, <1>3 DEF Current, NoRowLeft, RestorerInv, Waits, TimerWaits, InRange, NumbersOK
  <2>2. /\ running' = FALSE /\ index' = index + 1 /\ posted' = posted \ {g} /\ state' = state
        /\ UNCHANGED <<itemActive, pendingError, session, sessions, staging, preparing>>
    BY <1>1, <1>3, <2>1 DEF Next_, FinishBatch, FinalStates, RestorerInv, StateOK
  <2>3. \A r \in Row : state[r] \in Settled
    BY <2>1, RowIsNumber DEF RestorerInv, BehindIsSettled
  <2>4. NumbersOK'
    BY <1>1, <2>1, <2>2 DEF RestorerInv, NumbersOK
  <2>. QED
    BY <1>1, <2>1, <2>2, <2>3, <2>4 DEF RestorerInv, StateOK, FlagsOK, AllSettled, BehindIsSettled, NothingHeld, Waits,
       InRange, SessionServes, TimerWaits, ProxyWaits, CancelWaits
<1>4. CASE Current(g) /\ ~NoRowLeft
  <2>1. running /\ g = generation /\ ~itemActive /\ ~cancelRequested /\ generation \notin preparing
        /\ ffmpeg = "off"
    BY <1>1, <1>4 DEF Current, RestorerInv, Waits, TimerWaits, NothingHeld
  <2>2. index + 1 \in Row /\ index' = index + 1 /\ running' = running
    BY <1>4 DEF Next_, NoRowLeft, Row, RestorerInv, NumbersOK
  <2>3. \A r \in Row : r <= index => state[r] \in Settled
    BY <2>1 DEF RestorerInv, BehindIsSettled
  <2>4. CASE /\ state' = [state EXCEPT ![index + 1] = "preparing"]
             /\ itemActive' = TRUE /\ preparing' = preparing \cup {g}
             /\ posted' = posted \ {g}
             /\ UNCHANGED <<running, pendingError, session, sessions, staging>>
    <3>1. NumbersOK'
      BY <1>1, <2>1, <2>2, <2>4 DEF RestorerInv, NumbersOK, Row
    <3>2. StateOK'
      BY <2>1, <2>2, <2>4 DEF RestorerInv, StateOK
    <3>3. BehindIsSettled'
      BY <2>1, <2>2, <2>3, <2>4, RowIsNumber DEF RestorerInv, StateOK, BehindIsSettled, NumbersOK
    <3>. QED
      BY <1>1, <2>1, <2>2, <2>4, <3>1, <3>2, <3>3 DEF RestorerInv, FlagsOK, AllSettled, NothingHeld, Waits, InRange,
         SessionServes, TimerWaits, ProxyWaits, CancelWaits, Row
  <2>5. CASE /\ state' = [state EXCEPT ![index + 1] = "failed"]
             /\ itemActive' = FALSE
             /\ UNCHANGED <<running, pendingError, session, sessions, staging, preparing, posted>>
    <3>1. NumbersOK'
      BY <1>1, <2>1, <2>2, <2>5 DEF RestorerInv, NumbersOK, Row
    <3>2. StateOK'
      BY <2>1, <2>2, <2>5 DEF RestorerInv, StateOK, Final
    <3>3. BehindIsSettled'
      BY <2>1, <2>2, <2>3, <2>5, RowIsNumber, FinalIsSettled DEF RestorerInv, StateOK, BehindIsSettled, NumbersOK
    <3>4. FlagsOK' /\ AllSettled' /\ NothingHeld'
      BY <1>1, <2>1, <2>5 DEF RestorerInv, FlagsOK, AllSettled, NothingHeld
    <3>5. Waits'
      BY <1>1, <2>1, <2>2, <2>5 DEF RestorerInv, Waits, InRange, SessionServes, TimerWaits, ProxyWaits, CancelWaits, Row
    <3>. QED  BY <3>1, <3>2, <3>3, <3>4, <3>5 DEF RestorerInv
  <2>. QED  BY <1>4, <2>4, <2>5 DEF Next_
<1>. QED  BY <1>2, <1>3, <1>4

LEMMA PreparedKeepsInv == ASSUME RestorerInv, NEW g \in Generations, Prepared(g) PROVE RestorerInv'
<1>1. preparing' = preparing \ {g} /\ g \in preparing /\ UNCHANGED <<cancelRequested, generation, index>>
  BY DEF Prepared
<1>2. CASE ~Current(g)
  <2>1. UNCHANGED <<state, running, item, posted>>
    BY <1>2 DEF Prepared
  <2>2. NumbersOK'
    BY <1>1, <2>1 DEF RestorerInv, NumbersOK, item
  <2>. QED
    BY <1>1, <2>1, <2>2 DEF item, RestorerInv, StateOK, FlagsOK, AllSettled, BehindIsSettled, NothingHeld, Waits,
       InRange, SessionServes, TimerWaits, ProxyWaits, CancelWaits
<1>3. CASE Current(g)
  <2>1. running /\ g = generation /\ itemActive /\ ~cancelRequested /\ ffmpeg = "off" /\ session = 0 /\ sessions = {}
        /\ index \in Row /\ generation \notin posted /\ generation > 0
    BY <1>1, <1>3 DEF Current, RestorerInv, Waits, ProxyWaits, TimerWaits, SessionServes, InRange, Row, NumbersOK
  <2>2. CASE /\ session' = g /\ sessions' = sessions \cup {g}
             /\ staging' = TRUE /\ ffmpeg' = "working"
             /\ state' = [state EXCEPT ![index] = "restoring"]
             /\ UNCHANGED <<running, itemActive, pendingError, posted>>
    <3>1. NumbersOK'
      BY <1>1, <2>1, <2>2 DEF RestorerInv, NumbersOK
    <3>2. StateOK'
      BY <2>1, <2>2 DEF RestorerInv, StateOK
    <3>3. BehindIsSettled'
      BY <1>1, <2>1, <2>2 DEF RestorerInv, StateOK, BehindIsSettled
    <3>. QED
      BY <1>1, <2>1, <2>2, <3>1, <3>2, <3>3 DEF RestorerInv, FlagsOK, AllSettled, NothingHeld, Waits, InRange,
         SessionServes, TimerWaits, ProxyWaits, CancelWaits
  <2>3. CASE SettleCurrent("failed", sessions) /\ UNCHANGED ffmpeg
    BY <1>1, <2>1, <2>3, SettleKeepsInv, FinalIsSettled DEF RestorerInv, NumbersOK, FlagsOK
  <2>4. CASE StartFailsAtOnce /\ SettleCurrent("restoring", sessions) /\ UNCHANGED ffmpeg
    BY <1>1, <2>1, <2>4, SettleKeepsInv, FinalIsSettled DEF RestorerInv, NumbersOK, FlagsOK
  <2>. QED  BY <1>3, <2>2, <2>3, <2>4 DEF Prepared
<1>. QED  BY <1>2, <1>3

LEMMA FfmpegExitsKeepsInv == ASSUME RestorerInv, FfmpegExits PROVE RestorerInv'
<1>1. PICK how \in Result : SettleCurrent(how, sessions)
  BY DEF FfmpegExits
<1>2. how \in Settled
  BY FinalIsSettled DEF Result
<1>3. itemActive /\ running /\ ffmpeg # "off" /\ ffmpeg' = "off" /\ UNCHANGED <<cancelRequested, generation, index,
                                                                               preparing>>
  BY DEF FfmpegExits, RestorerInv, NothingHeld
<1>4. generation \notin preparing
  BY <1>3 DEF RestorerInv, Waits, ProxyWaits
<1>. QED
  BY <1>1, <1>2, <1>3, <1>4, SettleKeepsInv DEF RestorerInv, NumbersOK, FlagsOK

\* Hang, StreamFailed and Watchdog leave the row in work.
LEMMA FfmpegTroubleKeepsInv == ASSUME RestorerInv, Hang \/ StreamFailed \/ Watchdog PROVE RestorerInv'
<1>1. /\ UNCHANGED <<state, running, cancelRequested, generation, index, itemActive, session, sessions, staging,
                     posted, preparing>>
      /\ ffmpeg # "off" /\ ffmpeg' \in {"hung", "killed"} /\ pendingError' \in BOOLEAN
      /\ ~itemActive => pendingError' = pendingError
  BY DEF Hang, StreamFailed, Watchdog, StopWithError, batch, RestorerInv, FlagsOK, NothingHeld
<1>2. NumbersOK'
  BY <1>1 DEF RestorerInv, NumbersOK
<1>. QED
  BY <1>1, <1>2 DEF RestorerInv, StateOK, FlagsOK, AllSettled, BehindIsSettled, NothingHeld, Waits, InRange,
     SessionServes, TimerWaits, ProxyWaits, CancelWaits

LEMMA StutterKeepsInv == ASSUME RestorerInv, UNCHANGED restoreVars PROVE RestorerInv'
  BY DEF restoreVars, batch, item, RestorerInv, StateOK, NumbersOK, FlagsOK, AllSettled, BehindIsSettled, NothingHeld, Waits,
     InRange, SessionServes, TimerWaits, ProxyWaits, CancelWaits

LEMMA RestorerNext == ASSUME RestorerInv, [RestoreNext]_restoreVars PROVE RestorerInv'
  BY StartKeepsInv, CancelKeepsInv, NextRowKeepsInv, PreparedKeepsInv, FfmpegExitsKeepsInv, FfmpegTroubleKeepsInv,
     StutterKeepsInv DEF RestoreNext

\* What is open belongs to the row in work, on every platform: a row that is over keeps no session that
\* would go on decrypting, no process and no directory (EncryptedHlsRestorer::cleanupCurrent).
THEOREM NothingIsLeftOpen == RestoreSpec => [](RestoreTypeOK /\ NothingHeld)
<1>1. RestoreInit => RestorerInv
  BY RestorerInit
<1>2. RestorerInv /\ [RestoreNext]_restoreVars => RestorerInv'
  BY RestorerNext
<1>3. RestorerInv => RestoreTypeOK /\ NothingHeld
  BY DEF RestorerInv, StateOK, NumbersOK, FlagsOK, RestoreTypeOK
<1>. QED  BY <1>1, <1>2, <1>3, PTL DEF RestoreSpec

\* What the run "packages" checks of a batch of restored packages holds for any list: every row gets
\* its result, also in a batch that was canceled in the middle of something, and a row that has one keeps
\* no session, process or directory (EncryptedHlsRestorer::settleCurrent, cancel).
THEOREM RestoreIsSound == ASSUME ~StartFailsAtOnce PROVE RestoreSpec => []RestoreInv
<1>1. RestoreInit => RestorerInv
  BY RestorerInit
<1>2. RestorerInv /\ [RestoreNext]_restoreVars => RestorerInv'
  BY RestorerNext
<1>3. RestorerInv => RestoreInv
  BY DEF RestorerInv, StateOK, NumbersOK, FlagsOK, AllSettled, Settled, EveryRowSettled, RestoreInv, RestoreTypeOK
<1>. QED  BY <1>1, <1>2, <1>3, PTL DEF RestoreSpec

\* A row is completed only when FFmpeg ends while neither a cancellation was accepted nor the stream has
\* failed: what is saved is whole, although FFmpeg exits normally when it skips a segment
\* (EncryptedHlsRestorer::processFinished).
THEOREM OnlyWholeVideosAreSaved == RestoreSpec => OnlyWholeVideos
<1>1. ASSUME RestorerInv, [RestoreNext]_restoreVars, NEW r \in Row, state'[r] = "completed", state[r] # "completed"
      PROVE  ~cancelRequested /\ ~pendingError
  <2>1. ASSUME NEW how, SettleCurrent(how, sessions), how # "completed" PROVE FALSE
    BY <1>1, <2>1 DEF SettleCurrent, FinishBatch, FinalStates, RestorerInv, StateOK
  <2>2. CASE FfmpegExits
    BY <1>1, <2>1, <2>2 DEF FfmpegExits, Result
  <2>3. CASE StartBatch \/ Hang \/ StreamFailed \/ Watchdog \/ UNCHANGED restoreVars
    BY <1>1, <2>3 DEF StartBatch, Hang, StreamFailed, Watchdog, StopWithError, restoreVars
  <2>4. CASE Cancel
    BY <1>1, <2>1, <2>4 DEF Cancel, FinishBatch, FinalStates
  <2>5. ASSUME NEW g, Next_(g) PROVE FALSE
    BY <1>1, <2>5 DEF Next_, FinishBatch, FinalStates, RestorerInv, StateOK
  <2>6. ASSUME NEW g, Prepared(g) PROVE FALSE
    BY <1>1, <2>1, <2>6 DEF Prepared, RestorerInv, StateOK
  <2>. QED  BY <1>1, <2>2, <2>3, <2>4, <2>5, <2>6 DEF RestoreNext
<1>2. RestoreInit => RestorerInv
  BY RestorerInit
<1>3. RestorerInv /\ [RestoreNext]_restoreVars => RestorerInv'
  BY RestorerNext
<1>4. RestorerInv /\ [RestoreNext]_restoreVars
        => [\A r \in Row : state'[r] = "completed" /\ state[r] # "completed"
                              => ~cancelRequested /\ ~pendingError]_restoreVars
  BY <1>1
<1>. QED  BY <1>2, <1>3, <1>4, PTL DEF RestoreSpec, OnlyWholeVideos

-----------------------------------------------------------------------------
(* The export *)

(***************************************************************************)
(* The inductive invariant of the export has two parts.  The jobs: a       *)
(* cancellation that was accepted has reached every packager at work, and  *)
(* while the sources are looked for nothing is packaged and none of them   *)
(* has a package.  The uploads: those that are counted are the ones that   *)
(* have not ended, each of a video whose package is complete.              *)
(***************************************************************************)
SourcesApart ==
    /\ packing => runGeneration > 0
    /\ scan # "none" => ~packing /\ selected = {} /\ videos \subseteq Export!In("new")

CancelReachesJobs ==
    /\ stopping # {} => cancelBatch
    /\ cancelBatch /\ packing => Export!Active \subseteq stopping

JobsOK ==
    /\ phase \in [Videos -> Export!Phases] /\ stopping \subseteq Export!Active
    /\ packing \in BOOLEAN /\ cancelBatch \in BOOLEAN
    /\ runGeneration \in Nat /\ dispatches \subseteq 1..runGeneration
    /\ webdav \in BOOLEAN /\ card \in BOOLEAN
    /\ scan \in {"none", "scanning", "canceled"}
    /\ selected \subseteq Export!In("new") /\ videos \subseteq Videos
    /\ batchCompleted \in BOOLEAN /\ cancelExport \in BOOLEAN

JobsInv == JobsOK /\ Export!NoJobOutlivesBatch /\ SourcesApart /\ CancelReachesJobs

Live == {"queued", "running", "aborting"}

UploadsCounted ==
    /\ known = {t \in Export!Tasks : task[t] \in Live}
    /\ pendingUploads = Cardinality(known)
    /\ known # {} => uploading
    /\ \A t \in known : phase[t[1]] = "completed"

UploadsOK ==
    /\ known \subseteq Export!Tasks /\ pendingUploads \in Nat /\ uploadFailures \in Nat
    /\ uploading \in BOOLEAN /\ status \in {"none", "working"} \cup Export!Ends
    /\ task \in [Export!Tasks -> {"none", "ended"} \cup Live]
    /\ keys \subseteq Videos /\ staged \subseteq Videos /\ output \subseteq Videos
    /\ fallback \subseteq Videos /\ remote \subseteq Videos

PackagesKept == (\A t \in known : t[1] \in staged) /\ Export!KeyBeforePackage

UploadsInv == UploadsOK /\ UploadsCounted /\ PackagesKept

ExporterInv == JobsInv /\ UploadsInv

\* What a step of the export may not do after a cancellation.
NothingAdded ==
    cancelBatch /\ packing /\ packing' => staged' \subseteq staged /\ output' = output /\ known' \subseteq known

\* What every step of the export does.
Holds == JobsInv' /\ UploadsInv' /\ NothingAdded

\* The instance has its own names for what it takes from FiniteSets.
LEMMA ExportCounts == \A S : (Export!IsFiniteSet(S) <=> IsFiniteSet(S)) /\ Export!Cardinality(S) = Cardinality(S)
<1>1. \A S : Export!IsFiniteSet(S) <=> IsFiniteSet(S)
  BY DEF Export!IsFiniteSet, IsFiniteSet
<1>2. \A S : Export!Cardinality(S) = Cardinality(S)
  BY DEF Export!Cardinality, Cardinality
<1>. QED  BY <1>1, <1>2

LEMMA PartsFinite == IsFiniteSet(Videos) /\ IsFiniteSet(Parts)
<1>1. IsFiniteSet({"file"}) /\ IsFiniteSet({"file"} \cup {"folder"})
  BY FS_Singleton, FS_AddElement
<1>. QED  BY <1>1, ExportAssumption, ExportCounts DEF Export!VideosAssumption, Export!PartsAssumption

LEMMA TasksFinite == IsFiniteSet(Export!Tasks) /\ \A t \in Export!Tasks : t[1] \in Videos /\ t[2] \in Parts
  BY PartsFinite, FS_Product DEF Export!Tasks

\* The jobs are left alone.
LEMMA JobsRest ==
    ASSUME JobsInv,
           UNCHANGED <<phase, stopping, packing, cancelBatch, runGeneration, dispatches, scan, selected, videos>>,
           webdav' \in BOOLEAN, card' \in BOOLEAN, batchCompleted' \in BOOLEAN, cancelExport' \in BOOLEAN
    PROVE  JobsInv'
BY DEF JobsInv, JobsOK, SourcesApart, CancelReachesJobs, Export!NoJobOutlivesBatch, Export!Active, Export!In,
   Export!Waiting

\* A packager goes on to its next stage, or ends.
LEMMA JobMoves ==
    ASSUME JobsInv, NEW v \in Export!Active, NEW p \in Export!ActivePhases \cup {"completed", "failed", "canceled"},
           phase' = [phase EXCEPT ![v] = p],
           p \in Export!ActivePhases => v \notin stopping /\ stopping' = stopping,
           p \notin Export!ActivePhases => stopping' = stopping \ {v},
           dispatches' \subseteq dispatches \cup {runGeneration},
           cancelBatch' = (cancelBatch \/ p = "canceled"), p = "canceled" => v \in stopping,
           UNCHANGED <<packing, runGeneration, webdav, card, scan, selected, videos, batchCompleted, cancelExport>>
    PROVE  JobsInv' /\ \A w \in Videos : phase[w] = "completed" => phase'[w] = "completed"
<1>1. v \in Videos /\ phase[v] \in Export!ActivePhases /\ packing /\ runGeneration > 0 /\ scan = "none"
  BY DEF Export!Active, JobsInv, SourcesApart, Export!NoJobOutlivesBatch
<1>2. Export!Active' = IF p \in Export!ActivePhases THEN Export!Active ELSE Export!Active \ {v}
  BY <1>1 DEF Export!Active, JobsInv, JobsOK
<1>3. Export!In("new")' = Export!In("new")
  BY <1>1 DEF Export!In, JobsInv, JobsOK, Export!ActivePhases
<1>4. cancelBatch' = cancelBatch
  BY DEF JobsInv, JobsOK, CancelReachesJobs
<1>5. JobsOK'
  <2>1. phase' \in [Videos -> Export!Phases]
    BY DEF JobsInv, JobsOK, Export!Phases
  <2>2. stopping' \subseteq Export!Active'
    BY <1>2 DEF JobsInv, JobsOK
  <2>3. dispatches' \subseteq 1..runGeneration'
    BY <1>1 DEF JobsInv, JobsOK
  <2>. QED  BY <2>1, <2>2, <2>3, <1>3, <1>4 DEF JobsInv, JobsOK
<1>6. Export!NoJobOutlivesBatch'
  <2>1. Export!Active' \subseteq Export!Active /\ IsFiniteSet(Export!Active)
    BY <1>2, ExportAssumption, ExportCounts, FS_Subset DEF Export!Active, Export!VideosAssumption
  <2>2. Cardinality(Export!Active') <= Cardinality(Export!Active) /\ Cardinality(Export!Active) \in Nat
        /\ Cardinality(Export!Active') \in Nat
    BY <2>1, FS_Subset, FS_CardinalityType
  <2>. QED  BY <1>1, <2>2, ExportAssumption, ExportCounts DEF JobsInv, Export!NoJobOutlivesBatch, Export!JobsAssumption
<1>7. SourcesApart' /\ CancelReachesJobs'
  BY <1>1, <1>2, <1>4 DEF JobsInv, SourcesApart, CancelReachesJobs
<1>8. \A w \in Videos : phase[w] = "completed" => phase'[w] = "completed"
  BY <1>1 DEF JobsInv, JobsOK, Export!ActivePhases
<1>. QED  BY <1>5, <1>6, <1>7, <1>8 DEF JobsInv

\* The uploads are left alone while packages and keys may be added, unless the batch is over.
LEMMA UploadsRest ==
    ASSUME UploadsInv, UNCHANGED <<known, pendingUploads, task>>, uploadFailures' \in Nat,
           uploading' \in BOOLEAN, known # {} => uploading', status' \in {"none", "working"} \cup Export!Ends,
           \A w \in Videos : phase[w] = "completed" => phase'[w] = "completed",
           keys \subseteq keys', keys' \subseteq Videos,
           output' \cup staged' \subseteq keys', known # {} => staged \subseteq staged', UNCHANGED <<fallback, remote>>
    PROVE  UploadsInv'
<1>1. UploadsOK'
  BY DEF UploadsInv, UploadsOK
<1>2. UploadsCounted'
  BY TasksFinite DEF UploadsInv, UploadsCounted, UploadsOK
<1>3. PackagesKept'
  BY DEF UploadsInv, PackagesKept, Export!KeyBeforePackage
<1>. QED  BY <1>1, <1>2, <1>3 DEF UploadsInv

\* finishM3u8sExportIfReady when what is left of the uploads is all that is known.
LEMMA FinishKeeps ==
    ASSUME NEW pending \in Nat, NEW failures, NEW completed, NEW last, uploading \in BOOLEAN,
           last \in {"none", "working"} \cup Export!Ends, Export!FinishIfReady(pending, failures, completed, last)
    PROVE  /\ uploading' \in BOOLEAN /\ (pending # 0 => uploading' = uploading)
           /\ staged' \subseteq staged /\ (pending # 0 => staged' = staged)
           /\ status' \in {"none", "working"} \cup Export!Ends
BY DEF Export!FinishIfReady, Export!Ready, Export!Ends

LEMMA BatchOver ==
    ASSUME NEW pending \in Nat, NEW failures, NEW result \in Export!Ends, uploading \in BOOLEAN,
           batchCompleted \in BOOLEAN, Export!BatchEnds(result, pending, failures)
    PROVE  /\ packing' = FALSE /\ batchCompleted' \in BOOLEAN
           /\ uploading' \in BOOLEAN /\ (pending # 0 => uploading' = uploading)
           /\ staged' \subseteq staged /\ (pending # 0 => staged' = staged)
           /\ status' \in {"none", "working"} \cup Export!Ends
<1>1. CASE webdav
  <2>1. Export!FinishIfReady(pending, failures, TRUE, result) /\ packing' = FALSE /\ batchCompleted' = TRUE
    BY <1>1 DEF Export!BatchEnds
  <2>. QED  BY <2>1 DEF Export!FinishIfReady, Export!Ready, Export!Ends
<1>2. CASE ~webdav
  BY <1>2 DEF Export!BatchEnds
<1>. QED  BY <1>1, <1>2

LEMMA KnownIsPending == ASSUME UploadsInv PROVE IsFiniteSet(known) /\ (known # {} <=> pendingUploads # 0)
<1>1. IsFiniteSet(known)
  BY TasksFinite, FS_Subset DEF UploadsInv, UploadsOK
<1>. QED  BY <1>1, FS_EmptySet DEF UploadsInv, UploadsCounted

\* Neither jobs nor uploads: what is left is the end of an export, perhaps.
LEMMA UploadsEnd ==
    ASSUME UploadsInv, UNCHANGED <<known, pendingUploads, uploadFailures, task, keys, output, fallback, remote>>,
           \A w \in Videos : phase[w] = "completed" => phase'[w] = "completed",
           uploading' \in BOOLEAN /\ (pendingUploads # 0 => uploading' = uploading),
           staged' \subseteq staged /\ (pendingUploads # 0 => staged' = staged),
           status' \in {"none", "working"} \cup Export!Ends
    PROVE  UploadsInv'
<1>1. known # {} => uploading' /\ staged \subseteq staged'
  BY KnownIsPending DEF UploadsInv, UploadsCounted
<1>2. output' \cup staged' \subseteq keys' /\ keys' \subseteq Videos /\ uploadFailures' \in Nat
  BY DEF UploadsInv, PackagesKept, Export!KeyBeforePackage, UploadsOK
<1>. QED  BY <1>1, <1>2, UploadsRest

-----------------------------------------------------------------------------
(* The steps of the export, one lemma for each of its operations *)

LEMMA SelectsHolds ==
    ASSUME JobsInv, UploadsInv, NEW some, some \subseteq Export!In("new"), Export!Selects(some)
    PROVE  Holds
<1>1. JobsInv'
  BY DEF Export!Selects, Export!Packaging, JobsInv, JobsOK, SourcesApart, CancelReachesJobs, Export!job,
     Export!queue, Export!export, Export!NoJobOutlivesBatch, Export!Active, Export!In, Export!Waiting
<1>2. UploadsInv' /\ NothingAdded
  BY DEF Export!Selects, UploadsInv, UploadsOK, UploadsCounted, PackagesKept, Export!KeyBeforePackage, NothingAdded,
     Export!uploads, Export!export, Export!disk, Export!job
<1>. QED  BY <1>1, <1>2 DEF Holds

LEMMA CreateHolds == ASSUME JobsInv, UploadsInv, Export!Create PROVE Holds
<1>1. JobsInv'
  BY DEF Export!Create, Export!Packaging, JobsInv, JobsOK, SourcesApart, CancelReachesJobs, Export!job, Export!queue,
     Export!NoJobOutlivesBatch, Export!Active, Export!In, Export!Waiting
<1>2. known = {} /\ known' = {} /\ pendingUploads' = 0 /\ Cardinality({}) = 0
  BY FS_EmptySet DEF Export!Create, Export!Packaging, UploadsInv, UploadsCounted
<1>3. UploadsInv' /\ NothingAdded
  BY <1>2 DEF Export!Create, UploadsInv, UploadsOK, UploadsCounted, PackagesKept, Export!KeyBeforePackage,
     NothingAdded, Export!disk
<1>. QED  BY <1>1, <1>3 DEF Holds

LEMMA PlanFailsHolds == ASSUME JobsInv, UploadsInv, Export!PlanFails PROVE Holds
<1>1. JobsInv'
  BY DEF Export!PlanFails, JobsInv, JobsOK, SourcesApart, CancelReachesJobs, Export!job, Export!queue,
     Export!source, Export!NoJobOutlivesBatch, Export!Active, Export!In, Export!Waiting
<1>2. UploadsInv' /\ NothingAdded
  BY DEF Export!PlanFails, UploadsInv, UploadsOK, UploadsCounted, PackagesKept, Export!KeyBeforePackage,
     NothingAdded, Export!disk, Export!uploads, Export!job, Export!Ends
<1>. QED  BY <1>1, <1>2 DEF Holds

LEMMA CardChangesHolds == ASSUME JobsInv, UploadsInv, Export!CardChanges PROVE Holds
<1>1. JobsInv'
  BY JobsRest DEF Export!CardChanges, JobsInv, JobsOK, Export!job, Export!queue, Export!source, Export!export
<1>2. UploadsInv' /\ NothingAdded
  BY DEF Export!CardChanges, UploadsInv, UploadsOK, UploadsCounted, PackagesKept, Export!KeyBeforePackage,
     NothingAdded, Export!disk, Export!uploads, Export!job, Export!export
<1>. QED  BY <1>1, <1>2 DEF Holds

LEMMA UploadStartsHolds ==
    ASSUME JobsInv, UploadsInv, NEW t \in Export!Tasks, Export!UploadStarts(t)
    PROVE  Holds
<1>1. JobsInv'
  BY JobsRest DEF Export!UploadStarts, JobsInv, JobsOK, Export!job, Export!queue, Export!source, Export!export
<1>2. known' = {u \in Export!Tasks : task'[u] \in Live}
  BY DEF Export!UploadStarts, UploadsInv, UploadsOK, UploadsCounted, Live
<1>3. UploadsInv' /\ NothingAdded
  BY <1>2 DEF Export!UploadStarts, UploadsInv, UploadsOK, UploadsCounted, PackagesKept, Export!KeyBeforePackage,
     NothingAdded, Export!disk, Export!job, Export!export, Live
<1>. QED  BY <1>1, <1>3 DEF Holds

\* Nothing is left to do for a known task, since one that has ended is not known.
LEMMA UploadEndsHolds ==
    ASSUME JobsInv, UploadsInv, NEW t \in Export!Tasks, Export!UploadEnds(t)
    PROVE  Holds
<1>1. PICK ok \in BOOLEAN, copied \in Export!copyM3u8sPath(t) :
        /\ remote' = IF ok /\ t[2] = "file" THEN remote \cup {t[1]} ELSE remote
        /\ fallback' = IF copied THEN fallback \cup {t[1]} ELSE fallback
        /\ uploadFailures' = IF ok THEN uploadFailures ELSE uploadFailures + 1
        /\ known' = known \ {t} /\ pendingUploads' = pendingUploads - 1
        /\ UNCHANGED cancelExport
        /\ Export!FinishIfReady(pendingUploads', uploadFailures', batchCompleted, status)
  BY DEF Export!UploadEnds
<1>2. t \in known /\ task' = [task EXCEPT ![t] = "ended"]
      /\ UNCHANGED <<Export!job, Export!queue, webdav, card, scan, Export!source, batchCompleted, keys, output>>
  BY DEF Export!UploadEnds
<1>3. IsFiniteSet(known')
      /\ pendingUploads' \in Nat /\ pendingUploads' = Cardinality(known') /\ (known' # {} <=> pendingUploads' # 0)
  <2>1. IsFiniteSet(known) /\ pendingUploads = Cardinality(known)
    BY KnownIsPending DEF UploadsInv, UploadsCounted
  <2>2. IsFiniteSet(known') /\ Cardinality(known') = Cardinality(known) - 1
    BY <1>1, <1>2, <2>1, FS_RemoveElement
  <2>3. Cardinality(known') \in Nat /\ (Cardinality(known') = 0 <=> known' = {})
    BY <2>2, FS_CardinalityType, FS_EmptySet
  <2>. QED  BY <1>1, <2>1, <2>2, <2>3
<1>4. /\ uploading' \in BOOLEAN /\ (pendingUploads' # 0 => uploading' = uploading)
      /\ staged' \subseteq staged /\ (pendingUploads' # 0 => staged' = staged)
      /\ status' \in {"none", "working"} \cup Export!Ends
  BY <1>1, <1>3, FinishKeeps DEF UploadsInv, UploadsOK
<1>5. JobsInv'
  BY <1>1, <1>2, JobsRest DEF JobsInv, JobsOK, Export!job, Export!queue, Export!source
<1>6. UploadsOK'
  BY <1>1, <1>2, <1>3, <1>4, TasksFinite DEF UploadsInv, UploadsOK, Live
<1>7. UploadsCounted'
  <2>1. known' = {u \in Export!Tasks : task'[u] \in Live}
    BY <1>1, <1>2 DEF UploadsInv, UploadsOK, UploadsCounted, Live
  <2>. QED  BY <1>1, <1>2, <1>3, <1>4, <2>1 DEF UploadsInv, UploadsCounted, Export!job
<1>8. PackagesKept'
  <2>1. t[1] \in staged /\ t[1] \in keys
    BY <1>2 DEF UploadsInv, PackagesKept, Export!KeyBeforePackage
  <2>. QED  BY <1>1, <1>2, <1>3, <1>4, <2>1 DEF UploadsInv, PackagesKept, Export!KeyBeforePackage
<1>9. NothingAdded
  BY <1>1, <1>2, <1>4 DEF NothingAdded
<1>. QED  BY <1>5, <1>6, <1>7, <1>8, <1>9 DEF Holds, UploadsInv

\* A dispatch starts or refuses some of the videos it is given, which nothing works on yet.
LEMMA LoopHolds ==
    ASSUME JobsOK, Cardinality(Export!Active) <= Jobs, NEW waiting, waiting \subseteq videos,
           waiting \cap Export!Active = {}, Export!DispatchLoop(waiting),
           \A v \in waiting : phase[v] \in {"new", "waiting"}, Export!In("waiting") \cap videos \subseteq waiting,
           runGeneration' \in Nat, runGeneration' > 0, scan' = "none"
    PROVE  /\ phase' \in [Videos -> Export!Phases] /\ Export!Active \subseteq Export!Active'
           /\ Cardinality(Export!Active') <= Jobs
           /\ packing' \in BOOLEAN /\ batchCompleted' \in BOOLEAN
           /\ (~packing' => Export!Active' = {} /\ Export!In("waiting")' \cap videos = {})
           /\ dispatches' \subseteq dispatches \cup {runGeneration'}
           /\ \A v \in Videos \ waiting : phase'[v] = phase[v]
           /\ (uploading \in BOOLEAN /\ pendingUploads \in Nat /\ status \in {"none", "working"} \cup Export!Ends
               => /\ uploading' \in BOOLEAN /\ (pendingUploads # 0 => uploading' = uploading)
                  /\ staged' \subseteq staged /\ (pendingUploads # 0 => staged' = staged)
                  /\ status' \in {"none", "working"} \cup Export!Ends)
<1>1. PICK d \in Export!Dispatched(waiting, Export!Active), first \in Export!StartPhases, again \in BOOLEAN :
        /\ again => d[2] # {}
        /\ phase' = [v \in Videos |->
               IF v \in d[1] THEN first
               ELSE IF v \in d[2] THEN "failed"
               ELSE IF v \in waiting THEN "waiting" ELSE phase[v]]
        /\ dispatches' = IF again THEN dispatches \cup {runGeneration'} ELSE dispatches \ {runGeneration'}
        /\ IF Export!LastOne(waiting \ (d[1] \cup d[2]), Export!Active \cup d[1])
           THEN Export!BatchEnds(IF \E v \in videos : phase'[v] = "failed" THEN "failed" ELSE "packaged",
                          pendingUploads, uploadFailures)
           ELSE packing' = TRUE /\ UNCHANGED <<uploading, staged, batchCompleted, status>>
  BY DEF Export!DispatchLoop
<1>2. d[1] \subseteq waiting /\ d[2] \subseteq waiting /\ d[1] \cap d[2] = {}
      /\ Cardinality(Export!Active \cup d[1]) <= Jobs
  BY ExportCounts DEF Export!Dispatched
<1>3. phase' \in [Videos -> Export!Phases]
  BY <1>1 DEF JobsOK, Export!Phases, Export!ActivePhases, Export!StartPhases
<1>4. Export!Active' = Export!Active \cup d[1]
  BY <1>1, <1>2 DEF JobsOK, Export!ActivePhases, Export!StartPhases, Export!Active
<1>5. Export!In("waiting")' \cap videos = waiting \ (d[1] \cup d[2])
  BY <1>1, <1>2 DEF JobsOK, Export!StartPhases, Export!In
<1>6. CASE Export!LastOne(waiting \ (d[1] \cup d[2]), Export!Active \cup d[1])
  <2> DEFINE result == IF \E v \in videos : phase'[v] = "failed" THEN "failed" ELSE "packaged"
  <2>1. Export!BatchEnds(result, pendingUploads, uploadFailures) /\ result \in Export!Ends
    BY <1>1, <1>6 DEF Export!Ends
  <2>2. packing' = FALSE /\ batchCompleted' \in BOOLEAN
    BY <2>1 DEF Export!BatchEnds, JobsOK
  <2>3. Export!Active' = {} /\ Export!In("waiting")' \cap videos = {}
    BY <1>4, <1>5, <1>6 DEF Export!LastOne
  <2>. HIDE DEF result
  <2>4. ASSUME uploading \in BOOLEAN, pendingUploads \in Nat
        PROVE  /\ uploading' \in BOOLEAN /\ (pendingUploads # 0 => uploading' = uploading)
               /\ staged' \subseteq staged /\ (pendingUploads # 0 => staged' = staged)
               /\ status' \in {"none", "working"} \cup Export!Ends
    BY <2>1, <2>4, BatchOver DEF JobsOK
  <2>. QED  BY <1>1, <1>2, <1>3, <1>4, <2>2, <2>3, <2>4
<1>7. CASE ~Export!LastOne(waiting \ (d[1] \cup d[2]), Export!Active \cup d[1])
  BY <1>1, <1>2, <1>3, <1>4, <1>7 DEF JobsOK
<1>. QED  BY <1>6, <1>7

LEMMA PlanDoneHolds == ASSUME JobsInv, UploadsInv, Export!PlanDone PROVE Holds
<1>1. /\ scan = "scanning" /\ scan' = "none" /\ ~packing
      /\ runGeneration' = runGeneration + 1 /\ cancelBatch' = FALSE /\ stopping' = {}
      /\ UNCHANGED <<cancelExport, webdav, card, selected, videos, known, pendingUploads, uploadFailures, task,
                     keys, output, fallback, remote>>
  BY DEF Export!PlanDone, Export!source
<1>2. selected = {} /\ videos \subseteq Export!In("new") /\ Export!Active = {} /\ Cardinality(Export!Active) <= Jobs
  BY <1>1, ExportCounts DEF JobsInv, SourcesApart, Export!NoJobOutlivesBatch
<1>3. \A v \in videos : phase[v] = "new"
  BY <1>2 DEF Export!In
<1>4. /\ phase' \in [Videos -> Export!Phases] /\ Export!Active \subseteq Export!Active'
      /\ Cardinality(Export!Active') <= Jobs
      /\ packing' \in BOOLEAN /\ batchCompleted' \in BOOLEAN
      /\ (~packing' => Export!Active' = {} /\ Export!In("waiting")' \cap videos = {})
      /\ dispatches' \subseteq dispatches \cup {runGeneration'}
      /\ \A v \in Videos \ videos : phase'[v] = phase[v]
      /\ (uploading \in BOOLEAN /\ pendingUploads \in Nat /\ status \in {"none", "working"} \cup Export!Ends
          => /\ uploading' \in BOOLEAN /\ (pendingUploads # 0 => uploading' = uploading)
             /\ staged' \subseteq staged /\ (pendingUploads # 0 => staged' = staged)
             /\ status' \in {"none", "working"} \cup Export!Ends)
  <2>1. Export!DispatchLoop(videos)
    BY DEF Export!PlanDone
  <2>2. runGeneration' \in Nat /\ runGeneration' > 0
    BY <1>1 DEF JobsInv, JobsOK
  <2>3. JobsOK
    BY DEF JobsInv
  <2>. QED  BY <1>1, <1>2, <1>3, <2>1, <2>2, <2>3, LoopHolds
<1>5. JobsInv'
  <2>1. runGeneration' \in Nat /\ dispatches' \subseteq 1..runGeneration'
    BY <1>1, <1>4 DEF JobsInv, JobsOK
  <2>2. selected' \subseteq Export!In("new")' /\ stopping' \subseteq Export!Active'
    BY <1>1, <1>2
  <2>3. JobsOK'
    BY <1>1, <1>4, <2>1, <2>2 DEF JobsInv, JobsOK
  <2>4. Export!NoJobOutlivesBatch'
    BY <1>1, <1>4, ExportCounts DEF Export!NoJobOutlivesBatch, Export!Waiting
  <2>5. SourcesApart' /\ CancelReachesJobs'
    BY <1>1 DEF JobsInv, JobsOK, SourcesApart, CancelReachesJobs
  <2>. QED  BY <2>3, <2>4, <2>5 DEF JobsInv
<1>6. \A w \in Videos : phase[w] = "completed" => phase'[w] = "completed"
  BY <1>3, <1>4
<1>7. UploadsInv'
  BY <1>1, <1>4, <1>6, UploadsEnd DEF UploadsInv, UploadsOK
<1>. QED  BY <1>1, <1>5, <1>7 DEF Holds, NothingAdded

LEMMA DispatchHolds == ASSUME JobsInv, UploadsInv, NEW g, Export!Dispatch(g) PROVE Holds
<1>1. /\ g \in dispatches
      /\ UNCHANGED <<runGeneration, stopping, cancelBatch, cancelExport, webdav, card, scan, selected, videos, known,
                     pendingUploads, uploadFailures, task, keys, output, fallback, remote>>
  BY DEF Export!Dispatch, Export!source
<1>2. CASE g # runGeneration \/ ~packing \/ (cancelBatch /\ Export!Active # {})
  <2>1. dispatches' = dispatches \ {g} /\ UNCHANGED <<phase, packing, uploading, staged, batchCompleted, status>>
    BY <1>2 DEF Export!Dispatch
  <2>2. JobsInv'
    BY <1>1, <2>1 DEF JobsInv, JobsOK, SourcesApart, CancelReachesJobs, Export!NoJobOutlivesBatch, Export!Active,
       Export!In, Export!Waiting
  <2>3. UploadsInv'
    BY <1>1, <2>1, UploadsEnd DEF UploadsInv, UploadsOK
  <2>. QED  BY <1>1, <2>1, <2>2, <2>3 DEF Holds, NothingAdded
<1>3. CASE g = runGeneration /\ packing /\ cancelBatch /\ Export!Active = {}
  <2>1. dispatches' = dispatches \ {g} /\ Export!BatchEnds("canceled", pendingUploads, uploadFailures)
        /\ phase' = phase
    BY <1>3 DEF Export!Dispatch
  <2>2. /\ packing' = FALSE /\ batchCompleted' \in BOOLEAN
        /\ uploading' \in BOOLEAN /\ (pendingUploads # 0 => uploading' = uploading)
        /\ staged' \subseteq staged /\ (pendingUploads # 0 => staged' = staged)
        /\ status' \in {"none", "working"} \cup Export!Ends
    BY <2>1, BatchOver DEF JobsInv, JobsOK, UploadsInv, UploadsOK, Export!Ends
  <2>3. JobsInv'
    BY <1>1, <1>3, <2>1, <2>2 DEF JobsInv, JobsOK, SourcesApart, CancelReachesJobs, Export!NoJobOutlivesBatch,
       Export!Active, Export!In, Export!Waiting
  <2>4. UploadsInv'
    BY <1>1, <2>1, <2>2, UploadsEnd
  <2>. QED  BY <1>1, <2>2, <2>3, <2>4 DEF Holds, NothingAdded
<1>4. CASE g = runGeneration /\ packing /\ ~cancelBatch
  <2>1. Export!DispatchLoop(Export!Waiting)
    BY <1>4 DEF Export!Dispatch
  <2>2. scan' = "none" /\ runGeneration' \in Nat /\ runGeneration' > 0 /\ JobsOK
    BY <1>1, <1>4 DEF JobsInv, JobsOK, SourcesApart
  <2>3. /\ Export!Waiting \subseteq videos /\ Export!Waiting \cap Export!Active = {}
        /\ \A v \in Export!Waiting : phase[v] = "waiting"
        /\ Export!In("waiting") \cap videos \subseteq Export!Waiting
        /\ Cardinality(Export!Active) <= Jobs
    BY ExportCounts
       DEF Export!Waiting, Export!In, Export!Active, Export!ActivePhases, JobsInv, Export!NoJobOutlivesBatch
  <2>4. /\ phase' \in [Videos -> Export!Phases] /\ Export!Active \subseteq Export!Active'
        /\ Cardinality(Export!Active') <= Jobs
        /\ packing' \in BOOLEAN /\ batchCompleted' \in BOOLEAN
        /\ (~packing' => Export!Active' = {} /\ Export!In("waiting")' \cap videos = {})
        /\ dispatches' \subseteq dispatches \cup {runGeneration'}
        /\ \A v \in Videos \ Export!Waiting : phase'[v] = phase[v]
        /\ (uploading \in BOOLEAN /\ pendingUploads \in Nat /\ status \in {"none", "working"} \cup Export!Ends
            => /\ uploading' \in BOOLEAN /\ (pendingUploads # 0 => uploading' = uploading)
               /\ staged' \subseteq staged /\ (pendingUploads # 0 => staged' = staged)
               /\ status' \in {"none", "working"} \cup Export!Ends)
    BY <2>1, <2>2, <2>3, LoopHolds
  <2>5. JobsInv'
    <3>1. selected' \subseteq Export!In("new")'
      BY <1>1, <2>3, <2>4 DEF JobsInv, JobsOK, Export!In
    <3>2. JobsOK'
      BY <1>1, <1>4, <2>2, <2>4, <3>1 DEF JobsInv, JobsOK, SourcesApart
    <3>3. Export!NoJobOutlivesBatch'
      BY <1>1, <2>4, ExportCounts DEF Export!NoJobOutlivesBatch, Export!Waiting
    <3>4. SourcesApart' /\ CancelReachesJobs'
      BY <1>1, <1>4, <2>2 DEF JobsInv, JobsOK, SourcesApart, CancelReachesJobs
    <3>. QED  BY <3>2, <3>3, <3>4 DEF JobsInv
  <2>6. \A w \in Videos : phase[w] = "completed" => phase'[w] = "completed"
    BY <2>3, <2>4
  <2>7. UploadsInv'
    BY <1>1, <2>4, <2>6, UploadsEnd DEF UploadsInv, UploadsOK
  <2>. QED  BY <1>4, <2>5, <2>7 DEF Holds, NothingAdded
<1>. QED  BY <1>2, <1>3, <1>4 DEF JobsInv, JobsOK

\* A stage that leaves no package.
LEMMA StageHolds ==
    ASSUME JobsInv, UploadsInv, NEW v \in Export!Active, NEW ok \in BOOLEAN, NEW next,
           ok => next \in Export!ActivePhases, Export!StageEnds(v, ok, next)
    PROVE  Holds
<1>1. UNCHANGED <<packing, runGeneration, webdav, card, scan, selected, videos, known, pendingUploads, uploadFailures,
                  uploading, task, batchCompleted, cancelExport, status, keys, staged, output, fallback, remote>>
  BY DEF Export!StageEnds, Export!Unpublished, Export!source, Export!uploads, Export!export, Export!disk
<1>2. JobsInv' /\ \A w \in Videos : phase[w] = "completed" => phase'[w] = "completed"
  <2>1. CASE /\ Export!GoesOn(v) /\ ok /\ phase' = [phase EXCEPT ![v] = next]
             /\ UNCHANGED <<stopping, dispatches, cancelBatch>>
    <3>1. next # "canceled" /\ v \notin stopping
      BY <2>1 DEF Export!ActivePhases, Export!GoesOn
    <3>. QED  BY <1>1, <2>1, <3>1, JobMoves DEF JobsInv, JobsOK
  <2>2. CASE Export!JobEnds(v, "failed")
    BY <1>1, <2>2, JobMoves DEF Export!JobEnds, JobsInv, JobsOK, Export!ActivePhases
  <2>3. CASE v \in stopping /\ Export!JobEnds(v, "canceled")
    BY <1>1, <2>3, JobMoves DEF Export!JobEnds, JobsInv, JobsOK, Export!ActivePhases
  <2>. QED  BY <2>1, <2>2, <2>3 DEF Export!StageEnds
<1>3. UploadsInv'
  BY <1>1, <1>2, UploadsEnd DEF UploadsInv, UploadsOK
<1>. QED  BY <1>1, <1>2, <1>3 DEF Holds, NothingAdded

\* A package is published by a packager that was not told to stop, so no cancellation was accepted; its
\* uploads were not known before.
LEMMA PublishHolds ==
    ASSUME JobsInv, UploadsInv, NEW v \in Export!Active, Export!Publish(v)
    PROVE  Holds
<1> DEFINE New == {t \in Export!Tasks : t[1] = v}
<1>1. v \in Videos /\ phase[v] \in Export!ActivePhases /\ v \notin stopping /\ ~(cancelBatch /\ packing)
  BY DEF Export!Active, Export!Publish, Export!GoesOn, JobsInv, CancelReachesJobs
<1>2. /\ phase' = [phase EXCEPT ![v] = "completed"] /\ stopping' = stopping \ {v}
      /\ dispatches' = dispatches \cup {runGeneration}
      /\ keys' = keys \cup {v} /\ Export!PackageStored(v, TRUE) /\ Export!Enqueue(v)
      /\ UNCHANGED <<packing, cancelBatch, runGeneration, webdav, card, scan, selected, videos, uploadFailures,
                     batchCompleted, cancelExport, status, fallback, remote>>
  BY DEF Export!Publish, Export!source, Export!export
<1>3. JobsInv' /\ \A w \in Videos : phase[w] = "completed" => phase'[w] = "completed"
  BY <1>2, JobMoves DEF Export!ActivePhases, JobsInv, JobsOK
<1>4. keys' \subseteq Videos /\ output' \cup staged' \subseteq keys' /\ staged \subseteq staged'
  BY <1>1, <1>2 DEF Export!PackageStored, UploadsInv, UploadsOK, PackagesKept, Export!KeyBeforePackage
<1>5. CASE webdav /\ card
  <2>1. /\ task' = [t \in Export!Tasks |-> IF t[1] = v THEN "queued" ELSE task[t]]
        /\ known' = known \cup New
        /\ pendingUploads' = pendingUploads + Cardinality(Parts)
        /\ uploading' = TRUE /\ v \in staged'
    BY <1>2, <1>5, ExportCounts DEF Export!Enqueue, Export!EnqueuedPending, Export!PackageStored
  <2>2. phase'[v] = "completed"
    BY <1>1, <1>2 DEF JobsInv, JobsOK
  <2>3. New = {v} \X Parts /\ IsFiniteSet(New) /\ Cardinality(New) = Cardinality(Parts)
        /\ Cardinality(Parts) \in Nat
    <3>1. New = {v} \X Parts
      BY <1>1 DEF Export!Tasks
    <3>2. IsFiniteSet(Parts) /\ IsFiniteSet({v}) /\ Cardinality({v}) = 1
      BY PartsFinite, FS_Singleton
    <3>3. IsFiniteSet({v} \X Parts) /\ Cardinality({v} \X Parts) = 1 * Cardinality(Parts)
      BY <3>2, FS_Product
    <3>4. Cardinality(Parts) \in Nat
      BY <3>2, FS_CardinalityType
    <3>5. 1 * Cardinality(Parts) = Cardinality(Parts)
      BY <3>4
    <3>6. New = {v} \X Parts /\ Cardinality({v} \X Parts) = Cardinality(Parts)
      BY <3>1, <3>3, <3>5
    <3>. QED  BY <3>3, <3>4, <3>6
  <2>4. New \cap known = {}
    BY <1>1 DEF UploadsInv, UploadsCounted, Export!ActivePhases
  <2>5. pendingUploads' = Cardinality(known') /\ pendingUploads' \in Nat
    <3>1. IsFiniteSet(known) /\ pendingUploads = Cardinality(known) /\ pendingUploads \in Nat
      BY KnownIsPending DEF UploadsInv, UploadsCounted, UploadsOK
    <3>2. Cardinality(known \cup New) = Cardinality(known) + Cardinality(New) - Cardinality(known \cap New)
      BY <2>3, <3>1, FS_Union
    <3>. HIDE DEF New
    <3>3. Cardinality(known \cap New) = 0
      BY <2>4, FS_EmptySet
    <3>4. Cardinality(known \cup New) = pendingUploads + Cardinality(Parts)
      <4>1. Cardinality(known \cup New) = pendingUploads + Cardinality(Parts) - 0
        BY <2>3, <3>1, <3>2, <3>3, Zenon
      <4>. QED  BY <2>3, <3>1, <4>1
    <3>. QED  BY <2>1, <2>3, <3>1, <3>4
  <2>6. known' = {t \in Export!Tasks : task'[t] \in Live}
    BY <2>1 DEF UploadsInv, UploadsCounted, UploadsOK, Live
  <2>7. UploadsOK'
    BY <1>2, <1>4, <2>1, <2>5 DEF UploadsInv, UploadsOK, Live
  <2>8. UploadsCounted'
    BY <1>3, <2>1, <2>2, <2>5, <2>6, TasksFinite DEF UploadsInv, UploadsCounted, UploadsOK
  <2>9. PackagesKept'
    BY <1>2, <1>4, <2>1 DEF UploadsInv, PackagesKept, Export!KeyBeforePackage
  <2>. QED  BY <1>1, <1>3, <2>7, <2>8, <2>9 DEF Holds, UploadsInv, NothingAdded
<1>6. CASE ~(webdav /\ card)
  <2>1. UNCHANGED <<task, known, pendingUploads, uploading>>
    BY <1>2, <1>6 DEF Export!Enqueue
  <2>2. keys \subseteq keys' /\ uploadFailures' \in Nat /\ uploading' \in BOOLEAN /\ (known # {} => uploading')
        /\ status' \in {"none", "working"} \cup Export!Ends
    BY <1>2, <2>1 DEF UploadsInv, UploadsOK, UploadsCounted
  <2>3. UploadsInv'
    BY <1>2, <1>3, <1>4, <2>1, <2>2, UploadsRest
  <2>. QED  BY <1>1, <1>3, <2>3 DEF Holds, NothingAdded
<1>. QED  BY <1>5, <1>6

LEMMA JobStepHolds == ASSUME JobsInv, UploadsInv, Export!JobStep PROVE Holds
<1>1. PICK v \in Videos : \/ Export!ProbeDone(v) \/ Export!FfmpegDone(v) \/ Export!FfmpegCannotStart(v)
                          \/ Export!EncryptionDone(v) \/ Export!TarDone(v)
  BY DEF Export!JobStep
<1>2. v \in Export!Active
  BY <1>1 DEF Export!ProbeDone, Export!FfmpegDone, Export!FfmpegCannotStart, Export!EncryptionDone, Export!TarDone,
     Export!Active, Export!ActivePhases
<1>3. CASE Export!ProbeDone(v)
  <2>1. PICK codec \in Export!probeVideoCodec, next \in Export!LaunchPhases :
          Export!StageEnds(v, codec = "codec" /\ next # "failed", next)
    BY <1>3 DEF Export!ProbeDone
  <2>2. codec = "codec" /\ next # "failed" => next \in Export!ActivePhases
    BY DEF Export!LaunchPhases, Export!ActivePhases
  <2>3. ASSUME NEW ok \in BOOLEAN, ok <=> codec = "codec" /\ next # "failed", Export!StageEnds(v, ok, next)
        PROVE Holds
    BY <1>2, <2>2, <2>3, StageHolds
  <2>. QED  BY <2>1, <2>3
<1>4. CASE Export!FfmpegDone(v)
  <2>1. "encrypting" \in Export!ActivePhases
    BY DEF Export!ActivePhases
  <2>. QED  BY <1>2, <1>4, <2>1, StageHolds DEF Export!FfmpegDone
<1>5. CASE Export!FfmpegCannotStart(v)
  <2>1. Export!JobEnds(v, "failed")
        /\ UNCHANGED <<packing, runGeneration, webdav, card, scan, selected, videos, known, pendingUploads,
                       uploadFailures, uploading, task, batchCompleted, cancelExport, status, keys, staged, output,
                       fallback, remote>>
    BY <1>5 DEF Export!FfmpegCannotStart, Export!Unpublished, Export!source, Export!uploads, Export!export,
       Export!disk
  <2>2. JobsInv' /\ \A w \in Videos : phase[w] = "completed" => phase'[w] = "completed"
    BY <1>2, <2>1, JobMoves DEF Export!JobEnds, JobsInv, JobsOK, Export!ActivePhases
  <2>3. UploadsInv'
    BY <2>1, <2>2, UploadsEnd DEF UploadsInv, UploadsOK
  <2>. QED  BY <2>1, <2>2, <2>3 DEF Holds, NothingAdded
<1>6. ASSUME NEW ok \in BOOLEAN, Export!StageEnds(v, ok, "archiving") PROVE Holds
  <2>1. "archiving" \in Export!ActivePhases
    BY DEF Export!ActivePhases
  <2>. QED  BY <1>2, <1>6, <2>1, StageHolds
<1>7. CASE Export!EncryptionDone(v)
  <2>1. PICK valid \in Export!validateGeneratedVideoTrack, prepared \in Export!encryptHlsDirectory :
          LET ok == valid = "valid" /\ prepared = "prepared" IN
          Export!StageEnds(v, ok, "archiving") \/ (ok /\ Export!Publish(v)) \/ Export!StageEnds(v, FALSE, "archiving")
    BY <1>7 DEF Export!EncryptionDone
  <2>. QED  BY <1>2, <1>6, <2>1, PublishHolds
<1>8. CASE Export!TarDone(v)
  <2>1. Export!Publish(v) \/ Export!StageEnds(v, FALSE, "completed")
    BY <1>8 DEF Export!TarDone
  <2>2. FALSE \in BOOLEAN /\ (FALSE => "completed" \in Export!ActivePhases)
    OBVIOUS
  <2>. QED  BY <1>2, <2>1, <2>2, PublishHolds, StageHolds
<1>. QED  BY <1>1, <1>3, <1>4, <1>5, <1>7, <1>8

\* A waiting upload ends at once, one that runs is told to.
LEMMA CancelUploads ==
    ASSUME UploadsInv, NEW visited \in Export!LoopVisits, NEW atOnce, atOnce = {t \in visited : task[t] = "queued"},
           NEW left, left = pendingUploads - Cardinality(atOnce),
           NEW failed, failed = uploadFailures + Cardinality(atOnce),
           task' = [t \in Export!Tasks |-> IF t \in atOnce THEN "ended"
                      ELSE IF t \in visited THEN "aborting" ELSE task[t]],
           known' = known \ atOnce, pendingUploads' = left, uploadFailures' = failed,
           NEW copied \in SUBSET {t[1] : t \in {u \in atOnce : TRUE \in Export!copyM3u8sPath(u)}},
           fallback' = fallback \cup copied,
           uploading' \in BOOLEAN /\ (left # 0 => uploading' = uploading),
           staged' \subseteq staged /\ (left # 0 => staged' = staged),
           status' \in {"none", "working"} \cup Export!Ends, UNCHANGED <<phase, keys, output, remote>>
    PROVE  UploadsInv' /\ left \in Nat
<1>1. visited \subseteq known /\ atOnce \subseteq known /\ known \subseteq Export!Tasks
  BY DEF Export!LoopVisits, UploadsInv, UploadsOK
<1>2. left = Cardinality(known') /\ left \in Nat /\ failed \in Nat /\ (left = 0 <=> known' = {})
  <2>1. IsFiniteSet(known) /\ IsFiniteSet(atOnce) /\ pendingUploads = Cardinality(known) /\ known \cap atOnce = atOnce
    BY <1>1, KnownIsPending, FS_Subset DEF UploadsInv, UploadsCounted
  <2>2. IsFiniteSet(known') /\ Cardinality(known') = Cardinality(known) - Cardinality(atOnce)
    <3>1. IsFiniteSet(known \ atOnce)
          /\ Cardinality(known \ atOnce) = Cardinality(known) - Cardinality(known \cap atOnce)
      BY <2>1, FS_Difference
    <3>. QED  BY <2>1, <3>1
  <2>3. Cardinality(known') \in Nat /\ Cardinality(atOnce) \in Nat /\ (Cardinality(known') = 0 <=> known' = {})
    BY <2>1, <2>2, FS_CardinalityType, FS_EmptySet
  <2>. QED  BY <2>1, <2>2, <2>3 DEF UploadsInv, UploadsOK
<1>3. known' = {t \in Export!Tasks : task'[t] \in Live}
  BY <1>1 DEF UploadsInv, UploadsCounted, UploadsOK, Live
<1>4. copied \subseteq staged
  BY <1>1 DEF Export!copyM3u8sPath, UploadsInv, PackagesKept
<1>5. UploadsOK'
  BY <1>1, <1>2, <1>4 DEF UploadsInv, UploadsOK, Live
<1>6. UploadsCounted'
  BY <1>2, <1>3 DEF UploadsInv, UploadsCounted
<1>7. PackagesKept'
  BY <1>1, <1>2, <1>4 DEF UploadsInv, PackagesKept, Export!KeyBeforePackage
<1>. QED  BY <1>2, <1>5, <1>6, <1>7 DEF UploadsInv

LEMMA ExportCancelHolds == ASSUME JobsInv, UploadsInv, Export!Cancel PROVE Holds
<1>1. UNCHANGED <<webdav, card, selected, videos>> /\ cancelExport' = TRUE
  BY DEF Export!Cancel, Export!source
<1>2. CASE scan # "none"
  <2>1. scan' = "canceled"
        /\ UNCHANGED <<phase, stopping, packing, cancelBatch, runGeneration, dispatches, known, pendingUploads,
                       uploadFailures, uploading, task, batchCompleted, status, keys, staged, output, fallback, remote>>
    BY <1>2 DEF Export!Cancel, Export!job, Export!queue, Export!uploads, Export!disk
  <2>2. JobsInv'
    BY <1>1, <1>2, <2>1 DEF JobsInv, JobsOK, SourcesApart, CancelReachesJobs, Export!NoJobOutlivesBatch,
       Export!Active, Export!In, Export!Waiting
  <2>3. UploadsInv'
    BY <2>1, UploadsEnd DEF UploadsInv, UploadsOK
  <2>. QED  BY <2>1, <2>2, <2>3 DEF Holds, NothingAdded
<1>3. CASE scan = "none"
  <2>1. PICK visited \in Export!LoopVisits :
          LET atOnce == {t \in visited : task[t] = "queued"}
              left == pendingUploads - Export!Cardinality(atOnce)
              failed == uploadFailures + Export!Cardinality(atOnce) IN
          /\ cancelBatch' = (cancelBatch \/ packing)
          /\ stopping' = IF packing THEN Export!Active ELSE stopping
          /\ task' = [t \in Export!Tasks |-> IF t \in atOnce THEN "ended"
                         ELSE IF t \in visited THEN "aborting" ELSE task[t]]
          /\ known' = known \ atOnce /\ pendingUploads' = left /\ uploadFailures' = failed
          /\ \E copied \in SUBSET {t[1] : t \in {u \in atOnce : TRUE \in Export!copyM3u8sPath(u)}} :
                fallback' = fallback \cup copied
          /\ IF packing /\ Export!Active = {}
             THEN Export!BatchEnds("canceled", left, failed)
             ELSE /\ UNCHANGED <<packing, batchCompleted>>
                  /\ Export!FinishIfReady(left, failed, batchCompleted, status)
          /\ UNCHANGED <<phase, runGeneration, dispatches, scan, keys, output, remote>>
    BY <1>3 DEF Export!Cancel
  <2> DEFINE atOnce == {t \in visited : task[t] = "queued"}
             left == pendingUploads - Cardinality(atOnce)
             failed == uploadFailures + Cardinality(atOnce)
  <2>2. /\ cancelBatch' = (cancelBatch \/ packing) /\ stopping' = IF packing THEN Export!Active ELSE stopping
        /\ task' = [t \in Export!Tasks |-> IF t \in atOnce THEN "ended"
                       ELSE IF t \in visited THEN "aborting" ELSE task[t]]
        /\ known' = known \ atOnce /\ pendingUploads' = left /\ uploadFailures' = failed
        /\ UNCHANGED <<phase, runGeneration, dispatches, scan, keys, output, remote>>
    BY <2>1, ExportCounts
  <2>3. PICK copied \in SUBSET {t[1] : t \in {u \in atOnce : TRUE \in Export!copyM3u8sPath(u)}} :
          fallback' = fallback \cup copied
    BY <2>1
  <2>4. IF packing /\ Export!Active = {}
        THEN Export!BatchEnds("canceled", left, failed)
        ELSE /\ UNCHANGED <<packing, batchCompleted>>
             /\ Export!FinishIfReady(left, failed, batchCompleted, status)
    BY <2>1, ExportCounts
  <2>5. atOnce = {t \in visited : task[t] = "queued"} /\ left = pendingUploads - Cardinality(atOnce)
        /\ failed = uploadFailures + Cardinality(atOnce) /\ atOnce \subseteq known
    BY DEF Export!LoopVisits
  <2>. HIDE DEF atOnce, left, failed
  <2>6. left \in Nat
    <3>1. IsFiniteSet(known) /\ pendingUploads = Cardinality(known)
      BY KnownIsPending DEF UploadsInv, UploadsCounted
    <3>2. IsFiniteSet(atOnce) /\ Cardinality(atOnce) <= Cardinality(known)
          /\ Cardinality(atOnce) \in Nat /\ Cardinality(known) \in Nat
      BY <2>5, <3>1, FS_Subset, FS_CardinalityType
    <3>. QED  BY <2>5, <3>1, <3>2
  <2>7. /\ (packing /\ Export!Active = {} => packing' = FALSE)
        /\ (~(packing /\ Export!Active = {}) => packing' = packing) /\ batchCompleted' \in BOOLEAN
        /\ uploading' \in BOOLEAN /\ (left # 0 => uploading' = uploading)
        /\ staged' \subseteq staged /\ (left # 0 => staged' = staged)
        /\ status' \in {"none", "working"} \cup Export!Ends
    <3>1. CASE packing /\ Export!Active = {}
      <4>1. Export!BatchEnds("canceled", left, failed) /\ "canceled" \in Export!Ends
        BY <2>4, <3>1 DEF Export!Ends
      <4>. QED  BY <2>6, <3>1, <4>1, BatchOver DEF JobsInv, JobsOK, UploadsInv, UploadsOK
    <3>2. CASE ~(packing /\ Export!Active = {})
      <4>1. Export!FinishIfReady(left, failed, batchCompleted, status) /\ UNCHANGED <<packing, batchCompleted>>
        BY <2>4, <3>2
      <4>. QED  BY <2>6, <3>2, <4>1, FinishKeeps DEF JobsInv, JobsOK, UploadsInv, UploadsOK
    <3>. QED  BY <3>1, <3>2
  <2>8. UploadsInv'
    BY <2>2, <2>3, <2>5, <2>7, CancelUploads
  <2>9. JobsInv'
    <3>1. Export!Active' = Export!Active /\ Export!Waiting' = Export!Waiting
          /\ Export!In("new")' = Export!In("new")
      BY <1>1, <2>2 DEF Export!Active, Export!Waiting, Export!In
    <3>2. JobsOK'
      BY <1>1, <2>2, <2>7, <3>1 DEF JobsInv, JobsOK
    <3>3. Export!NoJobOutlivesBatch'
      BY <2>2, <2>7, <3>1, ExportCounts DEF JobsInv, JobsOK, Export!NoJobOutlivesBatch
    <3>4. SourcesApart' /\ CancelReachesJobs'
      BY <1>1, <1>3, <2>2, <2>7, <3>1 DEF JobsInv, JobsOK, SourcesApart, CancelReachesJobs
    <3>. QED  BY <3>2, <3>3, <3>4 DEF JobsInv
  <2>. QED  BY <2>2, <2>7, <2>8, <2>9 DEF Holds, NothingAdded
<1>. QED  BY <1>2, <1>3

\* A crash leaves a package only with its key: the key is stored first.
LEMMA CrashHolds == ASSUME JobsInv, UploadsInv, Export!Crash PROVE Holds
<1>1. PICK n \in 0..2, v \in Videos :
        /\ keys' = IF Export!Stored(n, "key") THEN keys \cup {v} ELSE keys
        /\ Export!PackageStored(v, Export!Stored(n, "package"))
  BY DEF Export!Crash
<1>2. /\ phase' = [w \in Videos |-> IF phase[w] \in Export!ActivePhases \cup {"waiting"} THEN "failed" ELSE phase[w]]
      /\ stopping' = {} /\ packing' = FALSE /\ cancelBatch' = FALSE /\ dispatches' = {}
      /\ scan' = "none" /\ selected' = {} /\ videos' = {}
      /\ known' = {} /\ pendingUploads' = 0 /\ uploadFailures' = 0 /\ uploading' = FALSE
      /\ task' = [t \in Export!Tasks |-> "none"]
      /\ batchCompleted' = FALSE /\ cancelExport' = FALSE /\ status' = "none"
      /\ UNCHANGED <<runGeneration, webdav, card, fallback, remote>>
  BY DEF Export!Crash
<1>3. JobsInv'
  <2>1. Export!Active' = {} /\ Export!Waiting' = {} /\ Cardinality({}) = 0
    BY <1>2, FS_EmptySet DEF Export!Active, Export!ActivePhases, Export!Waiting
  <2>2. JobsOK'
    BY <1>2 DEF JobsInv, JobsOK, Export!Phases
  <2>3. Export!NoJobOutlivesBatch'
    BY <2>1, ExportAssumption, ExportCounts DEF Export!NoJobOutlivesBatch, Export!JobsAssumption
  <2>. QED  BY <1>2, <2>1, <2>2, <2>3 DEF JobsInv, SourcesApart, CancelReachesJobs
<1>4. keys' \subseteq Videos /\ keys \subseteq keys' /\ output' \cup staged' \subseteq keys'
  <2>1. Export!Stored(n, "package") => Export!Stored(n, "key")
    BY DEF Export!Stored, Export!PublishOrder
  <2>2. keys' \subseteq Videos /\ keys \subseteq keys' /\ (Export!Stored(n, "package") => v \in keys')
    BY <1>1, <2>1 DEF UploadsInv, UploadsOK
  <2>3. output \cup staged \subseteq keys
    BY DEF UploadsInv, PackagesKept, Export!KeyBeforePackage
  <2>. QED  BY <1>1, <2>2, <2>3 DEF Export!PackageStored
<1>5. UploadsInv'
  <2>1. Cardinality({}) = 0
    BY FS_EmptySet
  <2>2. UploadsOK'
    BY <1>2, <1>4 DEF UploadsInv, UploadsOK
  <2>3. UploadsCounted'
    BY <1>2, <2>1 DEF UploadsCounted, Live
  <2>4. PackagesKept'
    BY <1>2, <1>4 DEF UploadsInv, PackagesKept, Export!KeyBeforePackage
  <2>. QED  BY <2>2, <2>3, <2>4 DEF UploadsInv
<1>. QED  BY <1>2, <1>3, <1>5 DEF Holds, NothingAdded

LEMMA ExporterInit == ASSUME Export!Init PROVE JobsInv /\ UploadsInv
<1>1. Export!Active = {} /\ Export!Waiting = {} /\ Cardinality({}) = 0
  BY FS_EmptySet DEF Export!Init, Export!Active, Export!ActivePhases, Export!Waiting
<1>2. JobsInv
  <2>1. JobsOK
    BY DEF Export!Init, JobsOK, Export!Phases
  <2>2. Export!NoJobOutlivesBatch
    BY <1>1, ExportAssumption, ExportCounts DEF Export!NoJobOutlivesBatch, Export!JobsAssumption
  <2>. QED  BY <2>1, <2>2 DEF Export!Init, JobsInv, SourcesApart, CancelReachesJobs
<1>3. UploadsInv
  BY <1>1 DEF Export!Init, UploadsInv, UploadsOK, UploadsCounted, PackagesKept, Export!KeyBeforePackage, Live
<1>. QED  BY <1>2, <1>3

LEMMA ExporterStep == ASSUME JobsInv, UploadsInv, Export!Next PROVE Holds
<1>1. CASE Export!AddFolder
  BY <1>1, SelectsHolds DEF Export!AddFolder, JobsInv, JobsOK
<1>2. CASE Export!RemoveSource
  BY <1>2, SelectsHolds DEF Export!RemoveSource, JobsInv, JobsOK
<1>3. ASSUME NEW v \in Videos, Export!AddVideo(v) PROVE Holds
  BY <1>3, SelectsHolds DEF Export!AddVideo, Export!In, JobsInv, JobsOK
<1>. QED  BY <1>1, <1>2, <1>3, CreateHolds, PlanFailsHolds, PlanDoneHolds, ExportCancelHolds, CardChangesHolds,
             CrashHolds, DispatchHolds, JobStepHolds, UploadStartsHolds, UploadEndsHolds DEF Export!Next

LEMMA ExporterNext == ASSUME ExporterInv, [PartsNext]_allVars PROVE ExporterInv' /\ [NothingAdded]_(Export!vars)
<1>1. CASE Export!Next
  BY <1>1, ExporterStep DEF ExporterInv, Holds
<1>2. CASE UNCHANGED exportVars
  <2>1. UNCHANGED Export!vars
    BY <1>2 DEF exportVars, Export!vars, Export!job, Export!queue, Export!source, Export!uploads, Export!export,
       Export!disk
  <2>2. JobsInv'
    BY <1>2, JobsRest DEF exportVars, ExporterInv, JobsInv, JobsOK
  <2>3. UploadsInv'
    BY <1>2, UploadsEnd DEF exportVars, ExporterInv, UploadsInv, UploadsOK
  <2>. QED  BY <2>1, <2>2, <2>3 DEF ExporterInv
<1>. QED  BY <1>1, <1>2 DEF PartsNext, allVars

\* What the run "packages" checks of an export, for any videos and any number of jobs and exports: an upload
\* finds its package in the staging directory, no package is without its key, whenever the process ends,
\* and a batch ends with its jobs (EncryptedHlsBatchPackager, finishM3u8sExportIfReady).
THEOREM ExportIsSound == PartsSpec => []ExportInv
<1>1. PartsInit => ExporterInv
  BY ExporterInit DEF PartsInit, ExporterInv
<1>2. ExporterInv /\ [PartsNext]_allVars => ExporterInv'
  BY ExporterNext
<1>3. ASSUME ExporterInv PROVE ExportInv
  <2>1. Export!TypeOK
    BY <1>3 DEF ExporterInv, JobsInv, JobsOK, UploadsInv, UploadsOK, Export!TypeOK, Live
  <2>2. Export!StagingWhileNeeded
    BY <1>3 DEF ExporterInv, UploadsInv, UploadsCounted, PackagesKept, Export!StagingWhileNeeded, Live
  <2>3. Export!KeyBeforePackage /\ Export!NoJobOutlivesBatch
    BY <1>3 DEF ExporterInv, JobsInv, UploadsInv, PackagesKept
  <2>. QED  BY <2>1, <2>2, <2>3 DEF ExportInv, Export!ExportInv
<1>. QED  BY <1>1, <1>2, <1>3, PTL DEF PartsSpec

\* A cancellation is not taken back, neither of an export nor of a restore: after it no package and no upload
\* appears (EncryptedHlsBatchPackager::startAvailable), and no row is completed
\* (EncryptedHlsRestorer::processFinished).
THEOREM CancellationIsKept == PartsSpec => CancellationHolds
<1>1. PartsInit => ExporterInv
  BY ExporterInit DEF PartsInit, ExporterInv
<1>2. ExporterInv /\ [PartsNext]_allVars => ExporterInv'
  BY ExporterNext
<1>3. ExporterInv /\ [PartsNext]_allVars
        => [cancelBatch /\ packing /\ packing' => staged' \subseteq staged /\ output' = output
                      /\ known' \subseteq known]_(Export!vars)
  BY ExporterNext DEF NothingAdded
<1>4. PartsSpec => Export!CancelHolds
  BY <1>1, <1>2, <1>3, PTL DEF PartsSpec, Export!CancelHolds
<1>5. PartsSpec => RestoreSpec
  <2>1. PartsInit => RestoreInit
    BY DEF PartsInit
  <2>2. [PartsNext]_allVars => [RestoreNext]_restoreVars
    BY DEF PartsNext, allVars
  <2>. QED  BY <2>1, <2>2, PTL DEF PartsSpec, RestoreSpec
<1>. QED  BY <1>4, <1>5, OnlyWholeVideosAreSaved, PTL DEF CancellationHolds

-----------------------------------------------------------------------------
(* The host of background tasks *)

\* A host that is down has nothing in memory.
DownIsEmpty ==
    host = "down" => /\ active = NoJob
                     /\ pins = {}
                     /\ \A j \in Job : jobs[j] = "absent"

\* daemon stop has told the engine, so a job that is under way while the host
\* stops can only end canceled: its secret is not deleted.
StopIsTold == host = "stopping" /\ active # NoJob => canceled

\* What the database calls completed is completed, also after refused writes.
CompletedIsKnown ==
    host # "down" => \A j \in Job : disk[j] = "completed" => jobs[j] = "completed"

\* The inductive invariant.
HostInv ==
    /\ TypeOK
    /\ DownIsEmpty
    /\ StopIsTold
    /\ OneJobAtATime
    /\ DiskFollowsMemory
    /\ SecretsFollowRows
    /\ QueuedHasPin
    /\ NoQueueStall
    /\ CompletedIsKnown

USE NoJobAssumption, KindAssumption DEF State, Stage, Finished

-----------------------------------------------------------------------------
\* The invariant holds of a host that has never run.
LEMMA HostInit == Init => HostInv
BY DEF Init, HostInv, TypeOK, DownIsEmpty, StopIsTold, OneJobAtATime, DiskFollowsMemory,
       SecretsFollowRows, QueuedHasPin, NoQueueStall, CompletedIsKnown, Queued

\* Every step of the host, of its engine, and of its clients preserves it.
LEMMA HostNext == HostInv /\ [Next]_vars => HostInv'
<1> SUFFICES ASSUME HostInv, [Next]_vars
             PROVE  HostInv'
  OBVIOUS
<1> USE DEF HostInv, TypeOK, DownIsEmpty, StopIsTold, OneJobAtATime, DiskFollowsMemory,
            SecretsFollowRows, QueuedHasPin, NoQueueStall, CompletedIsKnown, Queued
<1>1. CASE Start
  BY <1>1 DEF Start, engineVars
<1>2. CASE Crash
  BY <1>2 DEF Crash, Down
<1>3. CASE StartNext
  <2>1. CASE UNCHANGED <<jobs, disk, faulty, engineVars>>
    BY <1>3, <2>1 DEF StartNext, engineVars
  <2>2. CASE active = NoJob /\ host = "up" /\ ~UNCHANGED <<jobs, disk, faulty, engineVars>>
    <3>1. PICK j \in Queued : active' = j /\ SetState(j, "running")
      BY <1>3, <2>2 DEF StartNext
    <3>2. /\ stage' = "prepare" /\ held' = FALSE /\ canceled' = FALSE /\ wake' = FALSE
          /\ UNCHANGED <<host, secrets, pins>>
      BY <1>3, <2>2 DEF StartNext
    <3>3. TypeOK'
      <4>1. jobs' \in [Job -> State]
        BY <3>1 DEF SetState
      <4>2. disk' \in [Job -> State] /\ faulty' \subseteq Job
        BY <3>1 DEF SetState, Save
      <4> QED
        BY <3>1, <3>2, <4>1, <4>2
    <3>4. (DownIsEmpty /\ StopIsTold /\ OneJobAtATime)'
      BY <2>2, <3>1, <3>2 DEF SetState
    <3>5. (DiskFollowsMemory /\ SecretsFollowRows /\ CompletedIsKnown)'
      BY <2>2, <3>1, <3>2 DEF SetState, Save
    <3>6. (QueuedHasPin /\ NoQueueStall)'
      BY <2>2, <3>1, <3>2 DEF SetState
    <3> QED
      BY <3>3, <3>4, <3>5, <3>6
  <2> QED
    BY <1>3, <2>1, <2>2 DEF StartNext
<1>4. CASE BeginTransfer \/ EndTransfer \/ EndPublish
  BY <1>4 DEF BeginTransfer, EndTransfer, EndPublish, EngineOnly
<1>5. CASE Finish
  <2>1. active \in Job /\ stage # "none"
    BY <1>5 DEF Finish, CanFinish
  <2>2. PICK code \in {"success", "failed", "canceled"} :
          Conclude(code) /\ (canceled => code = "canceled")
    BY <1>5 DEF Finish, Codes
  <2>3. CASE host = "stopping"
    <3>1. Down /\ UNCHANGED secrets
      BY <2>1, <2>2, <2>3 DEF Conclude
    <3>2. PICK kept \in BOOLEAN :
            /\ disk' = IF kept THEN disk ELSE [disk EXCEPT ![active] = "interrupted"]
            /\ faulty' = IF kept THEN faulty \cup {active} ELSE faulty
      BY <2>1, <2>2, <2>3 DEF Conclude
    <3>3. (TypeOK /\ DownIsEmpty /\ StopIsTold /\ OneJobAtATime)'
      BY <2>1, <3>1, <3>2 DEF Down
    <3>4. SecretsFollowRows'
      BY <2>1, <2>3, <3>1, <3>2
    <3> QED
      BY <3>1, <3>3, <3>4 DEF Down
  <2>4. CASE host # "stopping"
    <3>1. PICK how \in Finished : jobs' = [jobs EXCEPT ![active] = how]
      BY <2>1, <2>2, <2>4 DEF Conclude
    <3>2. TypeOK'
      <4>1. jobs' \in [Job -> State]
        BY <2>1, <3>1
      <4>2. disk' \in [Job -> State] /\ faulty' \subseteq Job /\ secrets' \subseteq NeedsSecret
        BY <2>1, <2>2, <2>4 DEF Conclude
      <4>3. /\ host' = host /\ pins' \subseteq pins /\ active' = NoJob /\ stage' = "none"
            /\ held' = FALSE /\ canceled' = FALSE /\ wake' = TRUE
        BY <2>2, <2>4 DEF Conclude
      <4> QED
        BY <4>1, <4>2, <4>3
    <3>3. /\ DownIsEmpty' /\ StopIsTold' /\ OneJobAtATime'
          /\ QueuedHasPin' /\ NoQueueStall'
      BY <2>1, <2>2, <2>4, <3>1 DEF Conclude
    <3>4. DiskFollowsMemory'
      BY <2>1, <2>2, <2>4 DEF Conclude
    <3>5. SecretsFollowRows' /\ CompletedIsKnown'
      BY <2>1, <2>2, <2>4 DEF Conclude
    <3> QED
      BY <3>2, <3>3, <3>4, <3>5
  <2> QED
    BY <2>3, <2>4
<1>6. ASSUME NEW j \in Job, Request(j)
      PROVE  HostInv'
  <2>1. CASE Submit(j)
    <3>1. CASE UNCHANGED jobs
      BY <2>1, <3>1 DEF Submit, Serving, engineVars
    <3>2. CASE jobs' = [jobs EXCEPT ![j] = "queued"]
      BY <2>1, <3>2 DEF Submit, Serving, engineVars
    <3> QED
      BY <2>1, <3>1, <3>2 DEF Submit
  <2>2. CASE CancelWaiting(j)
    BY <2>2 DEF CancelWaiting, Serving, SetState, Save, engineVars
  <2>3. CASE CancelActive(j)
    <3>1. jobs' = jobs /\ active \in Job /\ Save(active, jobs[active])
      BY <2>3 DEF CancelActive, SetState
    <3>2. TypeOK'
      BY <2>3, <3>1 DEF CancelActive, Save
    <3>3. (DownIsEmpty /\ StopIsTold /\ OneJobAtATime /\ QueuedHasPin /\ NoQueueStall)'
      BY <2>3, <3>1 DEF CancelActive
    <3>4. (DiskFollowsMemory /\ SecretsFollowRows /\ CompletedIsKnown)'
      BY <2>3, <3>1 DEF CancelActive, Serving, Save
    <3> QED
      BY <3>2, <3>3, <3>4
  <2>4. CASE PauseWaiting(j)
    BY <2>4 DEF PauseWaiting, Serving, SetState, Save, engineVars
  <2>5. CASE PauseActive(j)
    BY <2>5 DEF PauseActive, Serving, SetState, Save
  <2>6. CASE ResumeWaiting(j)
    BY <2>6 DEF ResumeWaiting, Serving, SetState, Save, engineVars
  <2>7. CASE ResumeActive(j)
    <3>1. /\ jobs' = [jobs EXCEPT ![j] = "running"] /\ Save(j, "running")
          /\ j = active /\ j \in Job /\ host # "down"
      BY <2>7 DEF ResumeActive, Serving, SetState
    <3>2. TypeOK'
      <4>1. jobs' \in [Job -> State]
        BY <3>1
      <4>2. disk' \in [Job -> State] /\ faulty' \subseteq Job
        BY <3>1 DEF Save
      <4> QED
        BY <2>7, <4>1, <4>2 DEF ResumeActive
    <3>3. (DownIsEmpty /\ StopIsTold /\ OneJobAtATime /\ QueuedHasPin /\ NoQueueStall)'
      BY <2>7, <3>1 DEF ResumeActive
    <3>4. (DiskFollowsMemory /\ CompletedIsKnown)'
      BY <2>7, <3>1 DEF ResumeActive, Save
    <3>5. SecretsFollowRows'
      BY <2>7, <3>1 DEF ResumeActive, Save
    <3> QED
      BY <3>2, <3>3, <3>4, <3>5
  <2>8. CASE Remove(j)
    BY <2>8 DEF Remove, Serving, engineVars
  <2> QED
    BY <1>6, <2>1, <2>2, <2>3, <2>4, <2>5, <2>6, <2>7, <2>8 DEF Request
<1>7. CASE DaemonStop
  BY <1>7 DEF DaemonStop, Serving
<1>8. CASE QuitTimer
  BY <1>8 DEF QuitTimer, Down
<1>9. CASE Interrupt
  BY <1>9 DEF Interrupt, Serving
<1>10. CASE InterruptTimer
  BY <1>10 DEF InterruptTimer, Down
<1>11. CASE UNCHANGED vars
  BY <1>11 DEF vars
<1> QED
  BY <1>1, <1>2, <1>3, <1>4, <1>5, <1>6, <1>7, <1>8, <1>9, <1>10, <1>11 DEF Next, EngineStep

LEMMA HostAlways == Spec => []HostInv
BY HostInit, HostNext, PTL DEF Spec

-----------------------------------------------------------------------------
(* The results. They rest only on the assumptions about the constants.     *)

\* Type correctness.
THEOREM HostTypeCorrect == Spec => []TypeOK
<1>1. HostInv => TypeOK
  BY DEF HostInv
<1> QED
  BY <1>1, HostAlways, PTL

\* At most one job is ever running, the active one, and no request takes the
\* row of the active job away from the engine.
THEOREM OneJobRuns == Spec => []OneJobAtATime
<1>1. HostInv => OneJobAtATime
  BY DEF HostInv
<1> QED
  BY <1>1, HostAlways, PTL

\* An acknowledged job is never lost and a removed one never comes back,
\* whatever writes the database refuses and whenever the host is killed.
THEOREM RowsSurvive == Spec => []DiskFollowsMemory
<1>1. HostInv => DiskFollowsMemory
  BY DEF HostInv
<1> QED
  BY <1>1, HostAlways, PTL

\* Temporary credentials live exactly as long as an unfinished row.
THEOREM SecretsKept == Spec => []SecretsFollowRows
<1>1. HostInv => SecretsFollowRows
  BY DEF HostInv
<1> QED
  BY <1>1, HostAlways, PTL

\* A queued private job never lacks the PIN that its run needs.
THEOREM PinAtHand == Spec => []QueuedHasPin
<1>1. HostInv => QueuedHasPin
  BY DEF HostInv
<1> QED
  BY <1>1, HostAlways, PTL

\* The queue never waits without a pending call of next.
THEOREM QueueNeverStalls == Spec => []NoQueueStall
<1>1. HostInv => NoQueueStall
  BY DEF HostInv
<1> QED
  BY <1>1, HostAlways, PTL

\* However late a cancellation comes, no step completes the canceled job or
\* deletes its secret. The override in Engine::execute is what it needs.
THEOREM CancellationWins == Spec => CanceledIsNotCompleted
<1> DEFINE Kept == active # NoJob /\ canceled =>
                      /\ disk'[active] # "completed"
                      /\ active \in secrets => active \in secrets'
<1>1. HostInv /\ [Next]_vars => [Kept]_vars
  <2> SUFFICES ASSUME HostInv, Next, active # NoJob, canceled
               PROVE  Kept
    OBVIOUS
  <2>1. active \in Job /\ disk[active] # "completed"
    BY DEF HostInv, TypeOK, OneJobAtATime, DownIsEmpty, CompletedIsKnown
  <2>2. CASE Start
    BY <2>2 DEF Start, HostInv, DownIsEmpty
  <2>3. CASE Crash \/ QuitTimer \/ InterruptTimer
    BY <2>1, <2>3 DEF Crash, QuitTimer, InterruptTimer
  <2>4. CASE StartNext
    BY <2>1, <2>4 DEF StartNext
  <2>5. CASE BeginTransfer \/ EndTransfer \/ EndPublish
    BY <2>1, <2>5 DEF BeginTransfer, EndTransfer, EndPublish, EngineOnly
  <2>6. CASE Finish
    <3>1. Conclude("canceled")
      BY <2>6 DEF Finish
    <3> QED
      BY <2>1, <3>1 DEF Conclude, HostInv, TypeOK
  <2>7. ASSUME NEW j \in Job, Request(j)
        PROVE  Kept
    <3>1. CASE Submit(j)
      BY <2>1, <3>1 DEF Submit, HostInv, TypeOK
    <3>2. CASE Remove(j)
      BY <2>1, <3>2 DEF Remove, HostInv, TypeOK
    <3>3. CASE ~Submit(j) /\ ~Remove(j)
      <4>1. secrets' = secrets
        BY <2>7, <3>3 DEF Request, CancelWaiting, CancelActive, PauseWaiting, PauseActive,
                          ResumeWaiting, ResumeActive
      <4>2. PICK s \in State \ {"completed"} : Save(j, s)
        BY <2>7, <3>3 DEF Request, CancelWaiting, CancelActive, PauseWaiting, PauseActive,
                          ResumeWaiting, ResumeActive, SetState, HostInv, TypeOK, OneJobAtATime
      <4> QED
        BY <2>1, <4>1, <4>2 DEF Save, HostInv, TypeOK
    <3> QED
      BY <3>1, <3>2, <3>3
  <2>8. CASE DaemonStop \/ Interrupt
    BY <2>1, <2>8 DEF DaemonStop, Interrupt
  <2> QED
    BY <2>2, <2>3, <2>4, <2>5, <2>6, <2>7, <2>8 DEF Next, EngineStep
<1> QED
  BY <1>1, HostAlways, PTL DEF Spec, CanceledIsNotCompleted
=============================================================================
