------------------------- MODULE TransferManagerProofs -------------------------
(***************************************************************************)
(* Proofs about the transfer queue, for every set of tasks and folders and *)
(* every limit.                                                            *)
(***************************************************************************)
EXTENDS TransferManager, SubsequenceLemmas

-----------------------------------------------------------------------------
(* Type correctness *)

LEMMA UpdateType ==
    ASSUME NEW V, NEW fn \in [Task -> V], NEW S, NEW v \in V
    PROVE  Update(fn, S, v) \in [Task -> V]
BY DEF Update

LEMMA DropFilesType ==
    ASSUME NEW fl \in [Task -> File], NEW S
    PROVE  DropFiles(fl, S) \in [Task -> File]
BY DEF DropFiles, Update, File

LEMMA OpenedType ==
    ASSUME NEW t \in Task, NEW x \in File
    PROVE  Opened(t, x) \in File
BY DEF Opened, File

\* What startNext does to the five variables it writes.
LEMMA StartNextType ==
    ASSUME NEW q \in Seq(Task), NEW act \in [Task -> Slot], NEW st \in [Task -> Status],
           NEW fl \in [Task -> File], NEW post \in BOOLEAN,
           StartNext(q, act, st, fl, post)
    PROVE  /\ queue' \in Seq(Task)
           /\ active' \in [Task -> Slot]
           /\ status' \in [Task -> Status]
           /\ file' \in [Task -> File]
           /\ pendingStart' \in BOOLEAN
<1> DEFINE opened(k, bad) == Prefix(q, k) \ bad
           dropped(bad) == DropFiles(fl, bad)
           Step(k, bad) ==
             /\ queue' = SubSeq(q, k + 1, Len(q))
             /\ active' = Update(act, opened(k, bad), "reply")
             /\ status' = Update(Update(st, opened(k, bad), "running"), bad, "failed")
             /\ file' = [t \in Task |-> IF t \in opened(k, bad) THEN Opened(t, dropped(bad)[t])
                                                                ELSE dropped(bad)[t]]
             /\ pendingStart' = (post \/ bad # {})
<1>1. PICK k \in 0..Len(q) : \E bad \in SUBSET (Prefix(q, k) \ Mkdirs) : Step(k, bad)
  BY DEF StartNext
<1>2. PICK bad \in SUBSET (Prefix(q, k) \ Mkdirs) : Step(k, bad)
  BY <1>1
<1>3. queue' \in Seq(Task)
  <2>1. Len(q) \in Nat /\ \A i \in 1..Len(q) : q[i] \in Task
    BY LenProperties
  <2>2. \A i \in (k + 1)..Len(q) : q[i] \in Task
    BY <2>1
  <2> QED
    BY <1>2, <2>1, <2>2, SubSeqProperties
<1>4. active' \in [Task -> Slot]
  BY <1>2 DEF Update, Slot
<1>5. status' \in [Task -> Status]
  <2>1. Update(st, opened(k, bad), "running") \in [Task -> Status]
    BY UpdateType DEF Status
  <2>2. status' = Update(Update(st, opened(k, bad), "running"), bad, "failed")
    BY <1>2
  <2> HIDE DEF opened
  <2> QED
    BY <2>1, <2>2 DEF Update, Status, Finished
<1>6. file' \in [Task -> File]
  <2>1. dropped(bad) \in [Task -> File]
    BY DropFilesType
  <2>2. \A t \in Task : Opened(t, dropped(bad)[t]) \in File
    BY <2>1, OpenedType
  <2>3. file' = [t \in Task |-> IF t \in opened(k, bad) THEN Opened(t, dropped(bad)[t])
                                                     ELSE dropped(bad)[t]]
    BY <1>2
  <2> HIDE DEF dropped, opened
  <2> QED
    BY <2>1, <2>2, <2>3
<1>7. pendingStart' \in BOOLEAN
  BY <1>2
<1> QED
  BY <1>3, <1>4, <1>5, <1>6, <1>7

\* The queues the operations hand to startNext.
LEMMA WithoutType ==
    ASSUME NEW q \in Seq(Task), NEW S
    PROVE  Without(q, S) \in Seq(Task)
BY SubsequenceProperties DEF Without

LEMMA RequeueType ==
    ASSUME TypeOK, NEW ts \in Seq(Task), Requeue(ts)
    PROVE  /\ queue' \in Seq(Task)
           /\ active' \in [Task -> Slot]
           /\ status' \in [Task -> Status]
           /\ file' \in [Task -> File]
           /\ pendingStart' \in BOOLEAN
           /\ retryCount' \in [Task -> 0..MaxAutomaticRetryCount]
<1> DEFINE S == Prefix(ts, Len(ts))
<1>1. queue \o ts \in Seq(Task)
  BY ConcatProperties DEF TypeOK
<1>2. Update(status, S, "queued") \in [Task -> Status]
  BY UpdateType DEF TypeOK, Status
<1>3. DropFiles(file, S) \in [Task -> File]
  BY DropFilesType DEF TypeOK
<1>4. StartNext(queue \o ts, active, Update(status, S, "queued"), DropFiles(file, S), pendingStart)
  BY DEF Requeue
<1>5. retryCount' \in [Task -> 0..MaxAutomaticRetryCount]
  BY LimitAssumption DEF Requeue, Update, TypeOK
<1>6. active \in [Task -> Slot] /\ pendingStart \in BOOLEAN
  BY DEF TypeOK
<1> HIDE DEF S
<1> QED
  BY <1>1, <1>2, <1>3, <1>4, <1>5, <1>6, StartNextType

LEMMA ReleaseType ==
    ASSUME TypeOK, NEW S, NEW outcome \in Status, Release(S, outcome)
    PROVE  /\ queue' \in Seq(Task)
           /\ active' \in [Task -> Slot]
           /\ status' \in [Task -> Status]
           /\ pendingStart' \in BOOLEAN
           /\ retryCount' \in [Task -> 0..MaxAutomaticRetryCount]
BY LimitAssumption DEF Release, TypeOK, Update, Slot

LEMMA RequeueMembersType ==
    ASSUME TypeOK, NEW g \in Group, NEW S, RequeueMembers(g, S)
    PROVE  /\ queue' \in Seq(Task)
           /\ active' \in [Task -> Slot]
           /\ status' \in [Task -> Status]
           /\ file' \in [Task -> File]
           /\ pendingStart' \in BOOLEAN
           /\ retryCount' \in [Task -> 0..MaxAutomaticRetryCount]
<1>1. CASE NothingRequeued
  BY <1>1 DEF NothingRequeued, TypeOK
<1>2. CASE \E K : Requeue(Subsequence(GroupOrder[g], K))
  <2>1. PICK K : Requeue(Subsequence(GroupOrder[g], K))
    BY <1>2
  <2>2. Subsequence(GroupOrder[g], K) \in Seq(Task)
    BY GroupAssumption, SubsequenceProperties
  <2> QED
    BY <2>1, <2>2, RequeueType
<1> QED
  BY <1>1, <1>2 DEF RequeueMembers

LEMMA TypeInductive ==
    ASSUME TypeOK, [Next]_vars
    PROVE  TypeOK'
<1> USE DEF groupVars
<1>1. CASE UNCHANGED vars
  BY <1>1 DEF TypeOK, vars
<1>2. ASSUME NEW t \in Task, EnqueueTask(t)
      PROVE  TypeOK'
  <2>1. Append(queue, t) \in Seq(Task)
    BY AppendProperties DEF TypeOK
  <2>2. Update(status, {t}, "queued") \in [Task -> Status]
    BY UpdateType DEF TypeOK, Status
  <2>3. DropFiles(file, {t}) \in [Task -> File]
    BY DropFilesType DEF TypeOK
  <2>4. StartNext(Append(queue, t), active, Update(status, {t}, "queued"),
                  DropFiles(file, {t}), pendingStart)
    BY <1>2 DEF EnqueueTask
  <2>5. active \in [Task -> Slot] /\ pendingStart \in BOOLEAN
    BY DEF TypeOK
  <2>6. /\ queue' \in Seq(Task) /\ active' \in [Task -> Slot] /\ status' \in [Task -> Status]
        /\ file' \in [Task -> File] /\ pendingStart' \in BOOLEAN
    BY <2>1, <2>2, <2>3, <2>4, <2>5, StartNextType
  <2> QED
    BY <1>2, <2>6 DEF EnqueueTask, TypeOK
<1>3. ASSUME NEW g \in Group, EnqueueGroup(g)
      PROVE  TypeOK'
  <2>1. queue \o GroupOrder[g] \in Seq(Task)
    BY GroupAssumption, ConcatProperties DEF TypeOK
  <2>2. Update(status, Members(g), "queued") \in [Task -> Status]
    BY UpdateType DEF TypeOK, Status
  <2>3. DropFiles(file, Members(g)) \in [Task -> File]
    BY DropFilesType DEF TypeOK
  <2>4. StartNext(queue \o GroupOrder[g], active, Update(status, Members(g), "queued"),
                  DropFiles(file, Members(g)), pendingStart)
    BY <1>3 DEF EnqueueGroup
  <2>5. active \in [Task -> Slot] /\ pendingStart \in BOOLEAN
    BY DEF TypeOK
  <2>6. /\ queue' \in Seq(Task) /\ active' \in [Task -> Slot] /\ status' \in [Task -> Status]
        /\ file' \in [Task -> File] /\ pendingStart' \in BOOLEAN
    BY <2>1, <2>2, <2>3, <2>4, <2>5, StartNextType
  <2> QED
    BY <1>3, <2>6 DEF EnqueueGroup, TypeOK, Members
<1>4. ASSUME NEW t \in Task, Receive(t)
      PROVE  TypeOK'
  BY <1>4 DEF Receive, TypeOK, File
<1>5. ASSUME NEW t \in Task, FinishOk(t)
      PROVE  TypeOK'
  <2>1. Release({t}, "done") /\ UNCHANGED groupVars
        /\ file' = Update(file, {t} \cap Downloads, "complete")
        /\ definitions' = ForgetDoneGroup(definitions, status')
    BY <1>5 DEF FinishOk
  <2>2. file' \in [Task -> File]
    BY <2>1 DEF TypeOK, Update, File
  <2>3. definitions' \subseteq Task
    BY <2>1 DEF TypeOK, ForgetDoneGroup
  <2> QED
    BY <2>1, <2>2, <2>3, ReleaseType DEF TypeOK, Status, Finished
<1>6. ASSUME NEW t \in Task, FinishFailed(t)
      PROVE  TypeOK'
  <2>1. file' \in [Task -> File]
    BY <1>6, DropFilesType DEF FinishFailed, TypeOK
  <2> QED
    BY <1>6, <2>1, ReleaseType DEF FinishFailed, TypeOK, Status, Finished
<1>7. ASSUME NEW t \in Task, ScheduleRetry(t)
      PROVE  TypeOK'
  <2>1. file' \in [Task -> File]
    BY <1>7, DropFilesType DEF ScheduleRetry, Backoff, TypeOK
  <2>2. retryCount' \in [Task -> 0..MaxAutomaticRetryCount]
    BY <1>7, LimitAssumption DEF ScheduleRetry, Backoff, TypeOK
  <2> QED
    BY <1>7, <2>1, <2>2 DEF ScheduleRetry, Backoff, TypeOK, Status, Slot
<1>8. ASSUME NEW t \in Task, RetryTimerFires(t)
      PROVE  TypeOK'
  <2>1. CASE Release({t}, "failed") /\ file' = DropFiles(file, {t})
    <3>1. file' \in [Task -> File]
      BY <2>1, DropFilesType DEF TypeOK
    <3> QED
      BY <1>8, <2>1, <3>1, ReleaseType DEF RetryTimerFires, TypeOK, Status, Finished
  <2>2. CASE /\ active' = [active EXCEPT ![t] = "reply"]
             /\ status' = [status EXCEPT ![t] = "running"]
             /\ file' = [file EXCEPT ![t] = Opened(t, @)]
             /\ UNCHANGED <<queue, retryCount, pendingStart>>
    <3>1. Opened(t, file[t]) \in File
      BY OpenedType DEF TypeOK
    <3>2. file' \in [Task -> File]
      BY <2>2, <3>1 DEF TypeOK
    <3> QED
      BY <1>8, <2>2, <3>2 DEF RetryTimerFires, TypeOK, Status, Slot
  <2> QED
    BY <1>8, <2>1, <2>2 DEF RetryTimerFires
<1>9. ASSUME DeferredStart
      PROVE  TypeOK'
  <2>1. StartNext(queue, active, status, file, FALSE)
    BY <1>9 DEF DeferredStart
  <2>2. /\ queue' \in Seq(Task) /\ active' \in [Task -> Slot] /\ status' \in [Task -> Status]
        /\ file' \in [Task -> File] /\ pendingStart' \in BOOLEAN
    BY <2>1, StartNextType DEF TypeOK
  <2> QED
    BY <1>9, <2>2 DEF DeferredStart, TypeOK
<1>10. ASSUME NEW t \in Task, CancelTask(t)
       PROVE  TypeOK'
  <2>1. CASE Release({t}, "canceled") /\ file' = DropFiles(file, {t})
    <3>1. file' \in [Task -> File]
      BY <2>1, DropFilesType DEF TypeOK
    <3> QED
      BY <1>10, <2>1, <3>1, ReleaseType DEF CancelTask, TypeOK, Status, Finished
  <2>2. CASE /\ StartNext(Without(queue, {t}), active, Update(status, {t}, "canceled"),
                          DropFiles(file, {t}), pendingStart)
             /\ UNCHANGED retryCount
    <3>1. Without(queue, {t}) \in Seq(Task)
      BY WithoutType DEF TypeOK
    <3>2. Update(status, {t}, "canceled") \in [Task -> Status]
      BY UpdateType DEF TypeOK, Status, Finished
    <3>3. DropFiles(file, {t}) \in [Task -> File]
      BY DropFilesType DEF TypeOK
    <3>4. active \in [Task -> Slot] /\ pendingStart \in BOOLEAN
      BY DEF TypeOK
    <3>5. /\ queue' \in Seq(Task) /\ active' \in [Task -> Slot] /\ status' \in [Task -> Status]
          /\ file' \in [Task -> File] /\ pendingStart' \in BOOLEAN
      BY <2>2, <3>1, <3>2, <3>3, <3>4, StartNextType
    <3> QED
      BY <1>10, <2>2, <3>5 DEF CancelTask, TypeOK
  <2> QED
    BY <1>10, <2>1, <2>2 DEF CancelTask
<1>11. ASSUME NEW t \in Task, PauseTask(t)
       PROVE  TypeOK'
  <2>1. CASE Release({t}, "paused") /\ file' = DropFiles(file, {t})
    <3>1. file' \in [Task -> File]
      BY <2>1, DropFilesType DEF TypeOK
    <3> QED
      BY <1>11, <2>1, <3>1, ReleaseType DEF PauseTask, TypeOK, Status
  <2>2. CASE /\ StartNext(Without(queue, {t}), active, Update(status, {t}, "paused"),
                          file, pendingStart)
             /\ UNCHANGED retryCount
    <3>1. Without(queue, {t}) \in Seq(Task)
      BY WithoutType DEF TypeOK
    <3>2. Update(status, {t}, "paused") \in [Task -> Status]
      BY UpdateType DEF TypeOK, Status
    <3>3. file \in [Task -> File] /\ active \in [Task -> Slot] /\ pendingStart \in BOOLEAN
      BY DEF TypeOK
    <3>4. /\ queue' \in Seq(Task) /\ active' \in [Task -> Slot] /\ status' \in [Task -> Status]
          /\ file' \in [Task -> File] /\ pendingStart' \in BOOLEAN
      BY <2>2, <3>1, <3>2, <3>3, StartNextType
    <3> QED
      BY <1>11, <2>2, <3>4 DEF PauseTask, TypeOK
  <2> QED
    BY <1>11, <2>1, <2>2 DEF PauseTask
<1>12. ASSUME NEW t \in Task, ResumeTask(t)
       PROVE  TypeOK'
  <2>1. <<t>> \in Seq(Task)
    OBVIOUS
  <2> QED
    BY <1>12, <2>1, RequeueType DEF ResumeTask, TypeOK
<1>13. ASSUME NEW t \in Task, RetryTask(t)
       PROVE  TypeOK'
  <2>1. <<t>> \in Seq(Task)
    OBVIOUS
  <2>2. pauseRequested' \subseteq Group /\ cancelRequested' \subseteq Group
    BY <1>13 DEF RetryTask, PrepareGroupRetry, TypeOK
  <2>3. CASE Requeue(<<t>>)
    BY <1>13, <2>1, <2>2, <2>3, RequeueType DEF RetryTask, TypeOK
  <2>4. CASE NothingRequeued
    BY <1>13, <2>2, <2>4 DEF RetryTask, NothingRequeued, TypeOK
  <2> QED
    BY <1>13, <2>3, <2>4 DEF RetryTask
<1>14. ASSUME NEW g \in Group, CancelGroup(g)
       PROVE  TypeOK'
  <2> DEFINE M == Members(g)
  <2>1. PICK fl, post : /\ fl \in [Task -> File] /\ post \in BOOLEAN
                        /\ StartNext(Without(queue, M), Update(active, M, "none"),
                                     Update(status, M, "canceled"), fl, post)
    <3>1. ASSUME NEW S
          PROVE  (IF g \in IsUpload THEN file ELSE Update(file, S, "absent")) \in [Task -> File]
      BY UpdateType DEF TypeOK, File
    <3> QED
      BY <1>14, <3>1 DEF CancelGroup, TypeOK
  <2>2. Without(queue, M) \in Seq(Task)
    BY WithoutType DEF TypeOK
  <2>3. Update(active, M, "none") \in [Task -> Slot]
    BY UpdateType DEF TypeOK, Slot
  <2>4. Update(status, M, "canceled") \in [Task -> Status]
    BY UpdateType DEF TypeOK, Status, Finished
  <2>5. /\ queue' \in Seq(Task) /\ active' \in [Task -> Slot] /\ status' \in [Task -> Status]
        /\ file' \in [Task -> File] /\ pendingStart' \in BOOLEAN
    BY <2>1, <2>2, <2>3, <2>4, StartNextType
  <2>6. retryCount' \in [Task -> 0..MaxAutomaticRetryCount]
    BY <1>14, LimitAssumption DEF CancelGroup, TypeOK, Update
  <2> QED
    BY <1>14, <2>5, <2>6 DEF CancelGroup, TypeOK
<1>15. ASSUME NEW g \in Group, PauseGroup(g)
       PROVE  TypeOK'
  <2> DEFINE M == Members(g)
  <2>1. PICK S, K, post : /\ post \in BOOLEAN
                          /\ StartNext(Without(queue, M), Update(active, M, "none"),
                                       Update(status, S, "paused"), DropFiles(file, K), post)
    BY <1>15 DEF PauseGroup, TypeOK
  <2>2. Without(queue, M) \in Seq(Task)
    BY WithoutType DEF TypeOK
  <2>3. Update(active, M, "none") \in [Task -> Slot]
    BY UpdateType DEF TypeOK, Slot
  <2>4. Update(status, S, "paused") \in [Task -> Status] /\ DropFiles(file, K) \in [Task -> File]
    BY UpdateType, DropFilesType DEF TypeOK, Status
  <2>5. /\ queue' \in Seq(Task) /\ active' \in [Task -> Slot] /\ status' \in [Task -> Status]
        /\ file' \in [Task -> File] /\ pendingStart' \in BOOLEAN
    BY <2>1, <2>2, <2>3, <2>4, StartNextType
  <2>6. retryCount' \in [Task -> 0..MaxAutomaticRetryCount]
    BY <1>15, LimitAssumption DEF PauseGroup, TypeOK, Update
  <2> QED
    BY <1>15, <2>5, <2>6 DEF PauseGroup, TypeOK
<1>16. ASSUME NEW g \in Group, ResumeGroup(g)
       PROVE  TypeOK'
  BY <1>16, RequeueMembersType DEF ResumeGroup, TypeOK
<1>17. ASSUME NEW g \in Group, RetryGroup(g)
       PROVE  TypeOK'
  <2>1. pauseRequested' \subseteq Group /\ cancelRequested' \subseteq Group
    BY <1>17 DEF RetryGroup, PrepareGroupRetry, TypeOK
  <2> QED
    BY <1>17, <2>1, RequeueMembersType DEF RetryGroup, TypeOK
<1>18. ASSUME ClearFinished
       PROVE  TypeOK'
  <2>1. status' \in [Task -> Status]
    BY <1>18, UpdateType DEF ClearFinished, TypeOK, Status
  <2> QED
    BY <1>18, <2>1 DEF ClearFinished, TypeOK
<1>19. ASSUME NEW g \in Group, SelectGroup(g)
       PROVE  TypeOK'
  BY <1>19 DEF SelectGroup, TypeOK
<1>20. ASSUME ClearGroupSelection
       PROVE  TypeOK'
  BY <1>20 DEF ClearGroupSelection, TypeOK
<1> QED
  BY <1>1, <1>2, <1>3, <1>4, <1>5, <1>6, <1>7, <1>8, <1>9, <1>10, <1>11, <1>12, <1>13,
     <1>14, <1>15, <1>16, <1>17, <1>18, <1>19, <1>20
  DEF Next, TaskOperation, GroupOperation, ReplyFinishes

\* Every variable keeps its type; in particular no task is retried
\* automatically more than MaxAutomaticRetryCount times
\* (TransferManager.cpp:1708).
THEOREM TypeCorrect == Spec => []TypeOK
<1>1. Init => TypeOK
  <2> SUFFICES ASSUME Init PROVE TypeOK
    OBVIOUS
  <2>1. queue \in Seq(Task)
    BY EmptySeq DEF Init
  <2>2. retryCount \in [Task -> 0..MaxAutomaticRetryCount]
    BY LimitAssumption DEF Init
  <2>3. status \in [Task -> Status] /\ active \in [Task -> Slot] /\ file \in [Task -> File]
    BY DEF Init, Status, Slot, File
  <2> QED
    BY <2>1, <2>2, <2>3 DEF Init, TypeOK
<1>2. TypeOK /\ [Next]_vars => TypeOK'
  BY TypeInductive
<1> QED
  BY <1>1, <1>2, PTL DEF Spec

-----------------------------------------------------------------------------
(* Slots. startNext checks the rule before each task it starts, counting    *)
(* what it has started itself; its last check is enough for all of them,   *)
(* so no induction over the loop is needed. A retry timer starts a task    *)
(* without any check, which is sound because the task never left m_active. *)

Exclusive(A) ==
    \/ (\A t \in A : Direction[t] = "download") /\ Cardinality(A) <= MaxConcurrentDownloads
    \/ Cardinality(A) = 1

LEMMA ExclusiveSubset ==
    ASSUME NEW A \in SUBSET Task, NEW B \in SUBSET A, Exclusive(A)
    PROVE  Exclusive(B)
<1>1. IsFiniteSet(A) /\ IsFiniteSet(B) /\ Cardinality(B) <= Cardinality(A)
  BY TaskAssumption, FS_Subset
<1>2. Cardinality(A) \in Nat /\ Cardinality(B) \in Nat
  BY <1>1, FS_CardinalityType
<1>3. Cardinality(B) = 0 => B = {}
  BY <1>1, FS_EmptySet
<1> QED
  BY <1>1, <1>2, <1>3, LimitAssumption DEF Exclusive

LEMMA StartNextSlots ==
    ASSUME NEW q \in Seq(Task), NEW act \in [Task -> Slot], NEW st, NEW fl, NEW post,
           StartNext(q, act, st, fl, post),
           Exclusive(Slots(act))
    PROVE  Exclusive(Slots(active'))
<1> DEFINE A == Slots(act)
<1>1. PICK k \in 0..Len(q) : \E bad \in SUBSET (Prefix(q, k) \ Mkdirs) :
        Admits(q, A, k, bad) /\ active' = Update(act, Prefix(q, k) \ bad, "reply")
  BY DEF StartNext
<1>2. PICK bad \in SUBSET (Prefix(q, k) \ Mkdirs) :
        Admits(q, A, k, bad) /\ active' = Update(act, Prefix(q, k) \ bad, "reply")
  BY <1>1
<1>3. A \subseteq Task /\ Slots(active') \subseteq A \cup (Prefix(q, k) \ bad)
      /\ Slots(active') \subseteq Task
  BY <1>2 DEF Slots, Update
<1>4. CASE k = 0
  <2>1. Slots(active') \subseteq A
    BY <1>3, <1>4 DEF Prefix
  <2> QED
    BY <1>3, <2>1, ExclusiveSubset
<1>5. CASE k > 0
  <2> DEFINE B == A \cup (Prefix(q, k - 1) \ bad)
  <2>1. k \in 1..Len(q) /\ Len(q) \in Nat /\ \A i \in 1..Len(q) : q[i] \in Task
    BY <1>5, LenProperties
  <2>2. CanStart(q[k], B)
    <3>1. \A i \in 1..k : CanStart(q[i], A \cup (Prefix(q, i - 1) \ bad))
      BY <1>2 DEF Admits
    <3>2. k \in 1..k
      BY <2>1
    <3> QED
      BY <3>1, <3>2
  <2>3. Prefix(q, k) = Prefix(q, k - 1) \cup {q[k]}
    <3>1. 1..k = 1..(k - 1) \cup {k}
      BY <2>1
    <3> QED
      BY <3>1 DEF Prefix
  <2>4. B \subseteq Task /\ Slots(active') \subseteq B \cup {q[k]} /\ q[k] \in Task
    BY <1>3, <2>1, <2>3 DEF Prefix
  <2>5. IsFiniteSet(B) /\ Cardinality(B) \in Nat
    BY <2>4, TaskAssumption, FS_Subset, FS_CardinalityType
  <2>6. /\ IsFiniteSet(B \cup {q[k]})
        /\ Cardinality(B \cup {q[k]}) <= Cardinality(B) + 1
    <3> HIDE DEF B
    <3>1. IsFiniteSet(B \cup {q[k]})
          /\ Cardinality(B \cup {q[k]}) =
                IF q[k] \in B THEN Cardinality(B) ELSE Cardinality(B) + 1
      BY <2>5, FS_AddElement
    <3> QED
      BY <2>5, <3>1
  <2>7. Exclusive(B \cup {q[k]})
    <3> HIDE DEF B
    <3>1. CASE Direction[q[k]] = "download"
      <4>1. (\A a \in B : Direction[a] = "download") /\ Cardinality(B) < MaxConcurrentDownloads
        BY <2>2, <3>1 DEF CanStart
      <4>2. Cardinality(B \cup {q[k]}) \in Nat
        BY <2>6, FS_CardinalityType
      <4> QED
        BY <2>5, <2>6, <3>1, <4>1, <4>2, LimitAssumption DEF Exclusive
    <3>2. CASE Direction[q[k]] # "download"
      <4>1. B \cup {q[k]} = {q[k]}
        BY <2>2, <3>2 DEF CanStart
      <4> QED
        BY <4>1, FS_Singleton DEF Exclusive
    <3> QED
      BY <3>1, <3>2
  <2> QED
    BY <2>4, <2>7, ExclusiveSubset
<1> QED
  BY <1>4, <1>5

\* The slots a slot function leaves before it calls startNext.
LEMMA UpdateSlots ==
    ASSUME NEW act \in [Task -> Slot], NEW S, NEW v
    PROVE  /\ Slots(Update(act, S, "none")) = Slots(act) \ S
           /\ Slots(act) \subseteq Task
BY DEF Slots, Update

LEMMA ExclusiveInductive ==
    ASSUME TypeOK, ExclusiveSlots, [Next]_vars
    PROVE  ExclusiveSlots'
<1>1. ExclusiveSlots = Exclusive(Slots(active)) /\ ExclusiveSlots' = Exclusive(Slots(active'))
  BY DEF ExclusiveSlots, Exclusive, Slots
<1>2. /\ queue \in Seq(Task) /\ active \in [Task -> Slot]
      /\ Exclusive(Slots(active)) /\ Slots(active) \in SUBSET Task
  BY <1>1 DEF TypeOK, Slots
<1>3. ASSUME Slots(active') \subseteq Slots(active)
      PROVE  ExclusiveSlots'
  BY <1>1, <1>2, <1>3, ExclusiveSubset
<1>4. ASSUME NEW q \in Seq(Task), NEW S, NEW st, NEW fl, NEW post,
             StartNext(q, Update(active, S, "none"), st, fl, post)
      PROVE  ExclusiveSlots'
  <2>1. Update(active, S, "none") \in [Task -> Slot]
    BY <1>2, UpdateType DEF Slot
  <2>2. Exclusive(Slots(Update(active, S, "none")))
    BY <1>2, UpdateSlots, ExclusiveSubset
  <2> QED
    BY <1>1, <1>4, <2>1, <2>2, StartNextSlots
<1>5. ASSUME NEW q \in Seq(Task), NEW st, NEW fl, NEW post, StartNext(q, active, st, fl, post)
      PROVE  ExclusiveSlots'
  BY <1>1, <1>2, <1>5, StartNextSlots
<1>6. ASSUME NEW S, NEW outcome, Release(S, outcome)
      PROVE  ExclusiveSlots'
  BY <1>2, <1>3, <1>6, UpdateSlots DEF Release
<1>7. ASSUME NEW ts \in Seq(Task), Requeue(ts)
      PROVE  ExclusiveSlots'
  <2>1. queue \o ts \in Seq(Task)
    BY <1>2, ConcatProperties
  <2> QED
    BY <1>5, <1>7, <2>1 DEF Requeue
<1>8. ASSUME UNCHANGED active
      PROVE  ExclusiveSlots'
  BY <1>1, <1>2, <1>8
<1>9. ASSUME NEW g \in Group, NEW S, RequeueMembers(g, S)
      PROVE  ExclusiveSlots'
  <2>1. CASE NothingRequeued
    BY <1>8, <2>1 DEF NothingRequeued
  <2>2. CASE \E K : Requeue(Subsequence(GroupOrder[g], K))
    <3>1. PICK K : Requeue(Subsequence(GroupOrder[g], K))
      BY <2>2
    <3>2. Subsequence(GroupOrder[g], K) \in Seq(Task)
      BY GroupAssumption, SubsequenceProperties
    <3> QED
      BY <1>7, <3>1, <3>2
  <2> QED
    BY <1>9, <2>1, <2>2 DEF RequeueMembers
<1>10. CASE \/ UNCHANGED vars
            \/ \E t \in Task : Receive(t)
            \/ ClearFinished \/ ClearGroupSelection
            \/ \E g \in Group : SelectGroup(g)
  BY <1>8, <1>10 DEF vars, Receive, ClearFinished, ClearGroupSelection, SelectGroup
<1>11. CASE \E t \in Task : EnqueueTask(t)
  <2>1. PICK t \in Task : EnqueueTask(t)
    BY <1>11
  <2>2. Append(queue, t) \in Seq(Task)
    BY <1>2, AppendProperties
  <2> QED
    BY <1>5, <2>1, <2>2 DEF EnqueueTask
<1>12. CASE \E g \in Group : EnqueueGroup(g)
  <2>1. PICK g \in Group : EnqueueGroup(g)
    BY <1>12
  <2>2. queue \o GroupOrder[g] \in Seq(Task)
    BY <1>2, GroupAssumption, ConcatProperties
  <2> QED
    BY <1>5, <2>1, <2>2 DEF EnqueueGroup
<1>13. CASE \E t \in Task : FinishOk(t) \/ FinishFailed(t)
  BY <1>6, <1>13 DEF FinishOk, FinishFailed
<1>14. CASE \E t \in Task : ScheduleRetry(t) \/ RetryTimerFires(t)
  <2>1. PICK t \in Task : ScheduleRetry(t) \/ RetryTimerFires(t)
    BY <1>14
  <2>2. CASE \E S : Release(S, "failed")
    BY <1>6, <2>2
  <2>3. CASE active[t] # "none" /\ \E v : active' = [active EXCEPT ![t] = v]
    <3>1. Slots(active') \subseteq Slots(active)
      BY <1>2, <2>3 DEF Slots
    <3> QED
      BY <1>3, <3>1
  <2> QED
    BY <2>1, <2>2, <2>3 DEF ScheduleRetry, Backoff, RetryTimerFires
<1>15. CASE DeferredStart
  BY <1>2, <1>5, <1>15 DEF DeferredStart
<1>16. CASE \E t \in Task : CancelTask(t) \/ PauseTask(t)
  <2>1. PICK t \in Task : CancelTask(t) \/ PauseTask(t)
    BY <1>16
  <2>2. Without(queue, {t}) \in Seq(Task)
    BY <1>2, WithoutType
  <2> QED
    BY <1>5, <1>6, <2>1, <2>2 DEF CancelTask, PauseTask
<1>17. CASE \E t \in Task : ResumeTask(t) \/ RetryTask(t)
  <2>1. PICK t \in Task : ResumeTask(t) \/ RetryTask(t)
    BY <1>17
  <2>2. <<t>> \in Seq(Task)
    OBVIOUS
  <2> QED
    BY <1>7, <1>8, <2>1, <2>2 DEF ResumeTask, RetryTask, NothingRequeued
<1>18. CASE \E g \in Group : CancelGroup(g) \/ PauseGroup(g)
  <2>1. PICK g \in Group : CancelGroup(g) \/ PauseGroup(g)
    BY <1>18
  <2>2. Without(queue, Members(g)) \in Seq(Task)
    BY <1>2, WithoutType
  <2> QED
    BY <1>4, <2>1, <2>2 DEF CancelGroup, PauseGroup
<1>19. CASE \E g \in Group : ResumeGroup(g) \/ RetryGroup(g)
  BY <1>9, <1>19 DEF ResumeGroup, RetryGroup
<1> QED
  BY <1>10, <1>11, <1>12, <1>13, <1>14, <1>15, <1>16, <1>17, <1>18, <1>19
  DEF Next, TaskOperation, GroupOperation, ReplyFinishes

\* At most MaxConcurrentDownloads downloads at a time, and uploads and
\* directory creations alone, whatever is paused, cancelled, retried and
\* backing off (VIBEDOCS/WebDAV.md:263).
THEOREM SlotsExclusive == Spec => []ExclusiveSlots
<1>1. Init => ExclusiveSlots
  <2>1. ASSUME Init
        PROVE  Slots(active) = {}
    BY <2>1 DEF Init, Slots
  <2> QED
    BY <2>1, FS_EmptySet, LimitAssumption DEF ExclusiveSlots
<1>2. TypeOK /\ ExclusiveSlots /\ [Next]_vars => ExclusiveSlots'
  BY ExclusiveInductive
<1> QED
  BY <1>1, <1>2, TypeCorrect, PTL DEF Spec

-----------------------------------------------------------------------------
(* No lost wake-up. startNext stops only where the head of the queue cannot *)
(* start or a zero timer has just been posted; every other step leaves the  *)
(* queue and the set of slots alone or posts the timer itself.              *)

LEMMA StartNextWakes ==
    ASSUME NEW q \in Seq(Task), NEW act \in [Task -> Slot], NEW st, NEW fl, NEW post,
           StartNext(q, act, st, fl, post)
    PROVE  NoStall'
<1> DEFINE A == Slots(act)
           Step(k, bad) == /\ Admits(q, A, k, bad)
                           /\ queue' = SubSeq(q, k + 1, Len(q))
                           /\ active' = Update(act, Prefix(q, k) \ bad, "reply")
                           /\ pendingStart' = (post \/ bad # {})
<1>1. PICK k \in 0..Len(q) : \E bad \in SUBSET (Prefix(q, k) \ Mkdirs) : Step(k, bad)
  BY DEF StartNext
<1>2. PICK bad \in SUBSET (Prefix(q, k) \ Mkdirs) : Step(k, bad)
  BY <1>1
<1>3. CASE bad # {}
  BY <1>2, <1>3 DEF NoStall
<1>4. CASE bad = {}
  <2>1. Len(q) \in Nat /\ \A i \in 1..Len(q) : q[i] \in Task
    BY LenProperties
  <2>2. Slots(active') = A \cup Prefix(q, k)
    <3>1. Prefix(q, k) \subseteq Task
      BY <2>1 DEF Prefix
    <3>2. active' = Update(act, Prefix(q, k), "reply")
      BY <1>2, <1>4
    <3> QED
      BY <3>1, <3>2 DEF Slots, Update
  <2>3. ASSUME queue' # <<>>
        PROVE  k < Len(q) /\ queue'[1] = q[k + 1]
    <3>1. CASE k = Len(q)
      BY <1>2, <2>1, <2>3, <3>1, SubSeqEmpty
    <3>2. CASE k < Len(q)
      <4>1. \A i \in (k + 1)..Len(q) : q[i] \in Task
        BY <2>1
      <4>2. SubSeq(q, k + 1, Len(q))[1] = q[k + 1 + 1 - 1]
        BY <2>1, <3>2, <4>1, SubSeqProperties
      <4> QED
        BY <1>2, <2>1, <3>2, <4>2
    <3> QED
      BY <2>1, <3>1, <3>2
  <2>4. \/ k > 0 /\ Direction[q[k]] # "download"
        \/ k < Len(q) => ~CanStart(q[k + 1], A \cup (Prefix(q, k) \ bad))
    BY <1>2 DEF Admits
  <2>5. CASE k > 0 /\ Direction[q[k]] # "download"
    <3>1. q[k] \in Prefix(q, k)
      <4>1. k \in 1..k
        BY <2>1, <2>5
      <4> QED
        BY <4>1 DEF Prefix
    <3>2. \A t : ~CanStart(t, A \cup Prefix(q, k))
      BY <2>5, <3>1 DEF CanStart
    <3> QED
      BY <2>2, <3>2 DEF NoStall
  <2>6. CASE k < Len(q) => ~CanStart(q[k + 1], A \cup (Prefix(q, k) \ bad))
    <3>1. Prefix(q, k) \ bad = Prefix(q, k)
      BY <1>4
    <3>2. k < Len(q) => ~CanStart(q[k + 1], Slots(active'))
      BY <2>2, <2>6, <3>1
    <3> QED
      BY <2>3, <3>2 DEF NoStall
  <2> QED
    BY <2>4, <2>5, <2>6
<1> QED
  BY <1>3, <1>4

LEMMA NoStallInductive ==
    ASSUME TypeOK, NoStall, [Next]_vars
    PROVE  NoStall'
<1>1. queue \in Seq(Task) /\ active \in [Task -> Slot]
  BY DEF TypeOK
<1>2. ASSUME UNCHANGED queue, Slots(active') = Slots(active), UNCHANGED pendingStart
      PROVE  NoStall'
  BY <1>2 DEF NoStall
<1>3. ASSUME UNCHANGED <<queue, active, pendingStart>>
      PROVE  NoStall'
  BY <1>2, <1>3
<1>4. ASSUME NEW S, NEW outcome, Release(S, outcome)
      PROVE  NoStall'
  BY <1>4 DEF Release, NoStall
<1>5. ASSUME NEW q \in Seq(Task), NEW st, NEW fl, NEW post, StartNext(q, active, st, fl, post)
      PROVE  NoStall'
  BY <1>1, <1>5, StartNextWakes
<1>6. ASSUME NEW q \in Seq(Task), NEW S, NEW st, NEW fl, NEW post,
             StartNext(q, Update(active, S, "none"), st, fl, post)
      PROVE  NoStall'
  <2>1. Update(active, S, "none") \in [Task -> Slot]
    BY <1>1, UpdateType DEF Slot
  <2> QED
    BY <1>6, <2>1, StartNextWakes
<1>7. ASSUME NEW ts \in Seq(Task), Requeue(ts)
      PROVE  NoStall'
  <2>1. queue \o ts \in Seq(Task)
    BY <1>1, ConcatProperties
  <2> QED
    BY <1>5, <1>7, <2>1 DEF Requeue
<1>8. ASSUME NEW g \in Group, NEW S, RequeueMembers(g, S)
      PROVE  NoStall'
  <2>1. CASE NothingRequeued
    BY <1>3, <2>1 DEF NothingRequeued
  <2>2. CASE \E K : Requeue(Subsequence(GroupOrder[g], K))
    <3>1. PICK K : Requeue(Subsequence(GroupOrder[g], K))
      BY <2>2
    <3>2. Subsequence(GroupOrder[g], K) \in Seq(Task)
      BY GroupAssumption, SubsequenceProperties
    <3> QED
      BY <1>7, <3>1, <3>2
  <2> QED
    BY <1>8, <2>1, <2>2 DEF RequeueMembers
<1>9. CASE \/ UNCHANGED vars
           \/ \E t \in Task : Receive(t)
           \/ ClearFinished \/ ClearGroupSelection
           \/ \E g \in Group : SelectGroup(g)
  BY <1>3, <1>9 DEF vars, Receive, ClearFinished, ClearGroupSelection, SelectGroup
<1>10. CASE \E t \in Task : EnqueueTask(t)
  <2>1. PICK t \in Task : EnqueueTask(t)
    BY <1>10
  <2>2. Append(queue, t) \in Seq(Task)
    BY <1>1, AppendProperties
  <2> QED
    BY <1>5, <2>1, <2>2 DEF EnqueueTask
<1>11. CASE \E g \in Group : EnqueueGroup(g)
  <2>1. PICK g \in Group : EnqueueGroup(g)
    BY <1>11
  <2>2. queue \o GroupOrder[g] \in Seq(Task)
    BY <1>1, GroupAssumption, ConcatProperties
  <2> QED
    BY <1>5, <2>1, <2>2 DEF EnqueueGroup
<1>12. CASE \E t \in Task : FinishOk(t) \/ FinishFailed(t)
  BY <1>4, <1>12 DEF FinishOk, FinishFailed
<1>13. CASE \E t \in Task : ScheduleRetry(t) \/ RetryTimerFires(t)
  <2>1. PICK t \in Task : ScheduleRetry(t) \/ RetryTimerFires(t)
    BY <1>13
  <2>2. CASE \E S : Release(S, "failed")
    BY <1>4, <2>2
  <2>3. CASE /\ active[t] # "none"
             /\ \E v \in {"reply", "backoff"} : active' = [active EXCEPT ![t] = v]
             /\ UNCHANGED <<queue, pendingStart>>
    <3>1. Slots(active') = Slots(active)
      BY <1>1, <2>3 DEF Slots
    <3> QED
      BY <1>2, <2>3, <3>1
  <2> QED
    BY <2>1, <2>2, <2>3 DEF ScheduleRetry, Backoff, RetryTimerFires
<1>14. CASE DeferredStart
  BY <1>1, <1>5, <1>14 DEF DeferredStart
<1>15. CASE \E t \in Task : CancelTask(t) \/ PauseTask(t)
  <2>1. PICK t \in Task : CancelTask(t) \/ PauseTask(t)
    BY <1>15
  <2>2. Without(queue, {t}) \in Seq(Task)
    BY <1>1, WithoutType
  <2> QED
    BY <1>4, <1>5, <2>1, <2>2 DEF CancelTask, PauseTask
<1>16. CASE \E t \in Task : ResumeTask(t) \/ RetryTask(t)
  <2>1. PICK t \in Task : ResumeTask(t) \/ RetryTask(t)
    BY <1>16
  <2>2. <<t>> \in Seq(Task)
    OBVIOUS
  <2> QED
    BY <1>3, <1>7, <2>1, <2>2 DEF ResumeTask, RetryTask, NothingRequeued
<1>17. CASE \E g \in Group : CancelGroup(g) \/ PauseGroup(g)
  <2>1. PICK g \in Group : CancelGroup(g) \/ PauseGroup(g)
    BY <1>17
  <2>2. Without(queue, Members(g)) \in Seq(Task)
    BY <1>1, WithoutType
  <2> QED
    BY <1>6, <2>1, <2>2 DEF CancelGroup, PauseGroup
<1>18. CASE \E g \in Group : ResumeGroup(g) \/ RetryGroup(g)
  BY <1>8, <1>18 DEF ResumeGroup, RetryGroup
<1> QED
  BY <1>9, <1>10, <1>11, <1>12, <1>13, <1>14, <1>15, <1>16, <1>17, <1>18
  DEF Next, TaskOperation, GroupOperation, ReplyFinishes

\* Whenever the task at the head of the queue could have a slot, a call of
\* startNext is on its way: no operation, failure or retry can leave the
\* queue stuck.
THEOREM QueueNeverStalls == Spec => []NoStall
<1>1. Init => NoStall
  BY DEF Init, NoStall
<1>2. TypeOK /\ NoStall /\ [Next]_vars => NoStall'
  BY NoStallInductive
<1> QED
  BY <1>1, <1>2, TypeCorrect, PTL DEF Spec

-----------------------------------------------------------------------------
(* The rows. What an operation hands to startNext is as consistent as what  *)
(* startNext leaves, so that the invariant is stated of a queue, a status,  *)
(* a slot function and so on, and not of the variables.                     *)

\* The queue, the rows and the slots agree (OneStory without the definitions).
Line(q, st, act) ==
    /\ Once(q)
    /\ \A t \in Task : /\ (st[t] = "queued") <=> InQueue(q, t)
                       /\ (st[t] = "running") <=> (act[t] = "reply")
                       /\ (st[t] = "retrying") <=> (act[t] = "backoff")

\* Whatever may run again has its definition; only a folder whose children are
\* all done has lost those of its files (updateGroup); and a folder's rows come
\* and go together.
Known(st, defs) ==
    /\ \A t \in Task :
          /\ st[t] \in {"queued", "running", "retrying", "paused", "failed"} => t \in defs
          /\ st[t] = "canceled" /\ t \notin Mkdirs => t \in defs
          /\ st[t] # "absent" /\ t \notin defs /\ t \notin Mkdirs =>
                Parent[t] # NoGroup /\ \A c \in Members(Parent[t]) : st[c] = "done"
    /\ \A g \in Group : \A t, u \in Members(g) : st[t] = "absent" => st[u] = "absent"

OnDisk(st, fl) ==
    \A t \in Task :
        /\ t \notin Downloads => fl[t] = "source"
        /\ t \in Downloads /\ st[t] = "done" => fl[t] = "complete"
        /\ t \in Downloads \ RetainPartial /\
           st[t] \in {"queued", "retrying", "paused", "failed", "canceled"} => fl[t] = "absent"

AtRest(st, pause, cancel) ==
    \A g \in cancel : g \notin pause /\ \A t \in Members(g) : st[t] = "canceled"

Books(q, st, act, fl, defs, pause, cancel) ==
    Line(q, st, act) /\ Known(st, defs) /\ OnDisk(st, fl) /\ AtRest(st, pause, cancel)

BooksKept == Books(queue, status, active, file, definitions, pauseRequested, cancelRequested)

LEMMA BooksAreRows == TypeOK /\ BooksKept => RowsConsistent
<1> SUFFICES ASSUME TypeOK, BooksKept PROVE OneStory /\ FilesMatchRows /\ CanceledGroupAtRest
  BY DEF RowsConsistent
<1>1. OneStory
  BY DEF BooksKept, Books, Line, Known, Once, InQueue, OneStory, RetryableWhenCanceled
<1>2. FilesMatchRows
  BY DEF BooksKept, Books, OnDisk, FilesMatchRows
<1>3. CanceledGroupAtRest
  BY DEF BooksKept, Books, AtRest, CanceledGroupAtRest
<1> QED
  BY <1>1, <1>2, <1>3

\* What startNext does to one task: nothing, or it starts it, or the task fails
\* because its file cannot be opened.
Story(t, st, act, fl) ==
    \/ status'[t] = st[t] /\ active'[t] = act[t] /\ file'[t] = fl[t]
    \/ /\ st[t] = "queued" /\ status'[t] = "running" /\ active'[t] = "reply"
       /\ file'[t] = Opened(t, fl[t])
    \/ /\ st[t] = "queued" /\ status'[t] = "failed" /\ active'[t] = act[t]
       /\ t \notin Mkdirs
       /\ file'[t] = IF t \in Downloads \ RetainPartial THEN "absent" ELSE fl[t]

LEMMA StartNextStory ==
    ASSUME NEW q \in Seq(Task), NEW act \in [Task -> Slot], NEW st \in [Task -> Status],
           NEW fl \in [Task -> File], NEW post,
           Line(q, st, act), StartNext(q, act, st, fl, post)
    PROVE  Line(queue', status', active') /\ \A t \in Task : Story(t, st, act, fl)
<1> DEFINE opened(k, bad) == Prefix(q, k) \ bad
           dropped(bad) == DropFiles(fl, bad)
           Step(k, bad) ==
             /\ queue' = SubSeq(q, k + 1, Len(q))
             /\ active' = Update(act, opened(k, bad), "reply")
             /\ status' = Update(Update(st, opened(k, bad), "running"), bad, "failed")
             /\ file' = [t \in Task |-> IF t \in opened(k, bad) THEN Opened(t, dropped(bad)[t])
                                                                ELSE dropped(bad)[t]]
<1>1. PICK k \in 0..Len(q) : \E bad \in SUBSET (Prefix(q, k) \ Mkdirs) : Step(k, bad)
  BY DEF StartNext
<1>2. PICK bad \in SUBSET (Prefix(q, k) \ Mkdirs) : Step(k, bad)
  BY <1>1
<1>3. ASSUME NEW t \in Task, t \in Prefix(q, k) PROVE st[t] = "queued"
  <2>1. Len(q) \in Nat /\ DOMAIN q = 1..Len(q) /\ k \in 0..Len(q)
    BY DomainIs
  <2>2. \A i \in 1..k : i \in DOMAIN q
    BY <2>1
  <2>3. InQueue(q, t)
    BY <1>3, <2>2 DEF Prefix, InQueue
  <2> QED
    BY <2>3 DEF Line
<1>4. ASSUME NEW t \in Task
      PROVE  /\ t \in opened(k, bad) => /\ status'[t] = "running" /\ active'[t] = "reply"
                                        /\ file'[t] = Opened(t, fl[t])
             /\ t \in bad => /\ status'[t] = "failed" /\ active'[t] = act[t]
                             /\ file'[t] = IF t \in Downloads \ RetainPartial THEN "absent" ELSE fl[t]
             /\ t \notin Prefix(q, k) => status'[t] = st[t] /\ active'[t] = act[t] /\ file'[t] = fl[t]
  BY <1>2 DEF Update, DropFiles
<1>5. \A t \in Task : t \in Prefix(q, k) => t \in opened(k, bad) \/ t \in bad
  OBVIOUS
<1>6. bad \subseteq Prefix(q, k) /\ bad \cap Mkdirs = {}
  OBVIOUS
<1> HIDE DEF opened
<1>7. \A t \in Task : Story(t, st, act, fl)
  BY <1>3, <1>4, <1>5, <1>6 DEF Story
<1>8. Once(queue') /\ \A t \in Task : InQueue(queue', t) <=> InQueue(q, t) /\ t \notin Prefix(q, k)
  BY <1>2, TailOnce DEF Line, Prefix
<1>9. ASSUME NEW t \in Task
      PROVE  /\ (status'[t] = "queued") <=> InQueue(queue', t)
             /\ (status'[t] = "running") <=> (active'[t] = "reply")
             /\ (status'[t] = "retrying") <=> (active'[t] = "backoff")
  BY <1>3, <1>4, <1>5, <1>8 DEF Line
<1> QED
  BY <1>7, <1>8, <1>9 DEF Line

LEMMA StartNextBooks ==
    ASSUME NEW q \in Seq(Task), NEW act \in [Task -> Slot], NEW st \in [Task -> Status],
           NEW fl \in [Task -> File], NEW post, NEW defs, NEW pause, NEW cancel,
           Books(q, st, act, fl, defs, pause, cancel), StartNext(q, act, st, fl, post)
    PROVE  /\ Books(queue', status', active', file', defs, pause, cancel)
           /\ \A t \in Task : Story(t, st, act, fl)
<1>1. Line(queue', status', active') /\ \A t \in Task : Story(t, st, act, fl)
  BY StartNextStory DEF Books
<1>2. \A t \in Task : \/ status'[t] = st[t]
                      \/ st[t] = "queued" /\ status'[t] \in {"running", "failed"}
  BY <1>1 DEF Story
<1>3. Known(status', defs)
  <2>1. \A g : \A t \in Members(g) : t \in Task
    BY DEF Members
  <2> QED
    BY <1>2, <2>1 DEF Books, Known
<1>4. OnDisk(status', file')
  <2> SUFFICES ASSUME NEW t \in Task
               PROVE  /\ t \notin Downloads => file'[t] = "source"
                      /\ t \in Downloads /\ status'[t] = "done" => file'[t] = "complete"
                      /\ t \in Downloads \ RetainPartial /\
                         status'[t] \in {"queued", "retrying", "paused", "failed", "canceled"} =>
                            file'[t] = "absent"
    BY DEF OnDisk
  <2> QED
    BY <1>1 DEF Story, Opened, Books, OnDisk
<1>5. AtRest(status', pause, cancel)
  BY <1>2 DEF Books, AtRest, Members
<1> QED
  BY <1>1, <1>3, <1>4, <1>5 DEF Books

-----------------------------------------------------------------------------
(* What every step has to show of the rows: they stay consistent, a done    *)
(* row stays done, and fetched bytes stay.                                  *)

DoneStays ==
    \A t \in Task : status[t] = "done" =>
        status'[t] \in {"done", "absent"} \/ Parent[t] \in cancelRequested' \ cancelRequested

BytesStay ==
    \A t \in RetainPartial \cap StrongEtag :
        file[t] = "partial" => file'[t] \in {"partial", "complete"}

Outcome == BooksKept' /\ DoneStays /\ BytesStay

\* The part of a step that comes before startNext decides.
LEMMA StartNextOutcome ==
    ASSUME NEW q \in Seq(Task), NEW act \in [Task -> Slot], NEW st \in [Task -> Status],
           NEW fl \in [Task -> File], NEW post,
           Books(q, st, act, fl, definitions', pauseRequested', cancelRequested'),
           StartNext(q, act, st, fl, post),
           \A t \in Task : status[t] = "done" =>
              st[t] \in {"done", "absent"} \/ Parent[t] \in cancelRequested' \ cancelRequested,
           \A t \in RetainPartial \cap StrongEtag : file[t] = "partial" => fl[t] = "partial"
    PROVE  Outcome
<1>1. /\ Books(queue', status', active', file', definitions', pauseRequested', cancelRequested')
      /\ \A t \in Task : Story(t, st, act, fl)
  BY StartNextBooks
<1>2. BooksKept'
  BY <1>1 DEF BooksKept
<1>3. DoneStays
  BY <1>1 DEF DoneStays, Story
<1>4. BytesStay
  BY <1>1, FlagAssumption DEF BytesStay, Story, Opened
<1> QED
  BY <1>2, <1>3, <1>4 DEF Outcome

\* requeueTask: the rows queued again were at rest and had their definitions.
LEMMA RequeueOutcome ==
    ASSUME TypeOK, BooksKept, NEW ts \in Seq(Task), Once(ts), Requeue(ts),
           UNCHANGED definitions, AtRest(status, pauseRequested', cancelRequested'),
           \A t \in Task : InQueue(ts, t) => /\ t \in definitions
                                             /\ status[t] \in {"paused", "failed", "canceled"}
                                             /\ Parent[t] \notin cancelRequested'
    PROVE  Outcome
<1> DEFINE S == Prefix(ts, Len(ts))
           q == queue \o ts
           st == Update(status, S, "queued")
           fl == DropFiles(file, S)
<1>1. S \subseteq Task /\ \A t \in Task : t \in S <=> InQueue(ts, t)
  BY DomainIs DEF Prefix, InQueue
<1>2. q \in Seq(Task) /\ st \in [Task -> Status] /\ fl \in [Task -> File]
  BY ConcatProperties, UpdateType, DropFilesType DEF TypeOK, Status
<1>3. active \in [Task -> Slot] /\ queue \in Seq(Task)
  BY DEF TypeOK
<1>4. StartNext(q, active, st, fl, pendingStart)
  BY DEF Requeue
<1>5. \A t \in Task : st[t] = IF t \in S THEN "queued" ELSE status[t]
  BY DEF Update
<1>6. \A t \in Task : fl[t] = IF t \in S /\ t \in Downloads \ RetainPartial THEN "absent" ELSE file[t]
  BY DEF Update, DropFiles
<1>7. \A t \in S : /\ t \in definitions /\ status[t] \in {"paused", "failed", "canceled"}
                   /\ Parent[t] \notin cancelRequested'
  BY <1>1
<1>8. Once(q) /\ \A t \in Task : InQueue(q, t) <=> InQueue(queue, t) \/ t \in S
  <2>1. Once(queue) /\ \A t \in Task : InQueue(queue, t) => ~InQueue(ts, t)
    BY <1>1, <1>7 DEF BooksKept, Books, Line
  <2> QED
    BY <1>1, <1>3, <2>1, ConcatOnce
<1> HIDE DEF S, q, st, fl
<1>9. Line(q, st, active)
  BY <1>5, <1>7, <1>8 DEF BooksKept, Books, Line
<1>10. Known(st, definitions)
  <2>1. \A g : \A t \in Members(g) : t \in Task
    BY DEF Members
  <2> QED
    BY <1>5, <1>7, <2>1 DEF BooksKept, Books, Known
<1>11. OnDisk(st, fl)
  BY <1>5, <1>6, <1>7 DEF BooksKept, Books, OnDisk
<1>12. AtRest(st, pauseRequested', cancelRequested')
  BY <1>5, <1>7 DEF AtRest, Members
<1>13. Books(q, st, active, fl, definitions', pauseRequested', cancelRequested')
  BY <1>9, <1>10, <1>11, <1>12 DEF Books
<1>14. \A t \in Task : status[t] = "done" =>
         st[t] \in {"done", "absent"} \/ Parent[t] \in cancelRequested' \ cancelRequested
  BY <1>5, <1>7
<1>15. \A t \in RetainPartial \cap StrongEtag : file[t] = "partial" => fl[t] = "partial"
  BY <1>6, FlagAssumption
<1> HIDE DEF Outcome
<1> QED
  BY <1>2, <1>3, <1>4, <1>13, <1>14, <1>15, StartNextOutcome

\* A folder's children are in GroupOrder once each.
LEMMA GroupOrderOnce ==
    ASSUME NEW g \in Group
    PROVE  /\ GroupOrder[g] \in Seq(Task) /\ Once(GroupOrder[g])
           /\ \A t \in Task : InQueue(GroupOrder[g], t) <=> t \in Members(g)
<1> DEFINE s == GroupOrder[g]
<1>1. /\ s \in Seq(Task) /\ {s[i] : i \in DOMAIN s} = Members(g)
      /\ Len(s) = Cardinality(Members(g))
  BY GroupAssumption
<1>2. Len(s) \in Nat /\ DOMAIN s = 1..Len(s) /\ \A i \in DOMAIN s : s[i] \in Task
  BY <1>1, DomainIs
<1>3. s \in [1..Len(s) -> Members(g)]
  <2>1. s \in [1..Len(s) -> Task]
    BY <1>1, LenProperties
  <2>2. \A i \in 1..Len(s) : s[i] \in Members(g)
    BY <1>1, <1>2
  <2> HIDE DEF s
  <2> QED
    BY <2>1, <2>2
<1>4. \A t \in Members(g) : \E i \in 1..Len(s) : s[i] = t
  BY <1>1, <1>2
<1>5. s \in Surjection(1..Len(s), Members(g))
  <2> HIDE DEF s
  <2> QED
    BY <1>3, <1>4 DEF Surjection
<1>6. IsFiniteSet(1..Len(s)) /\ Cardinality(1..Len(s)) = Len(s)
  <2> HIDE DEF s
  <2>1. Cardinality(1..Len(s)) = IF 1 > Len(s) THEN 0 ELSE Len(s) - 1 + 1
    BY <1>2, FS_Interval
  <2> QED
    BY <1>2, <2>1, FS_Interval
<1>7. s \in Injection(1..Len(s), Members(g))
  <2> HIDE DEF s
  <2> QED
    BY <1>1, <1>5, <1>6, FS_Surjection
<1>8. Once(s)
  <2> HIDE DEF s
  <2> QED
    BY <1>2, <1>7 DEF Injection, IsInjective, Once
<1>9. \A t \in Task : InQueue(s, t) <=> t \in Members(g)
  BY <1>1 DEF InQueue
<1> QED
  BY <1>1, <1>8, <1>9

-----------------------------------------------------------------------------
(* One step of each kind *)

\* A slot is given back: finishActive, finishPaused and what they publish.
LEMMA ReleaseOutcome ==
    ASSUME TypeOK, BooksKept, NEW t \in Task, active[t] # "none",
           NEW how \in {"failed", "paused", "canceled"}, Release({t}, how),
           file' = DropFiles(file, {t}), UNCHANGED <<pauseRequested, cancelRequested>>,
           \/ UNCHANGED definitions
           \/ how = "canceled" /\ definitions' = definitions \ ({t} \ RetryableWhenCanceled)
    PROVE  Outcome
<1>1. status[t] \in {"running", "retrying"} /\ t \in definitions
  BY DEF TypeOK, Slot, BooksKept, Books, Line, Known
<1>2. \A u \in Task : /\ status'[u] = IF u = t THEN how ELSE status[u]
                      /\ active'[u] = IF u = t THEN "none" ELSE active[u]
                      /\ file'[u] = IF u = t /\ t \in Downloads \ RetainPartial
                                    THEN "absent" ELSE file[u]
  BY DEF Release, Update, DropFiles
<1>3. queue' = queue
  BY DEF Release
<1>5. Line(queue, status', active')
  BY <1>1, <1>2 DEF BooksKept, Books, Line
<1>6. Known(status', definitions')
  <2>1. \A g : \A u \in Members(g) : u \in Task
    BY DEF Members
  <2>2. \A u \in Task : u # t => (u \in definitions' <=> u \in definitions)
    OBVIOUS
  <2>3. t \notin Mkdirs \/ how # "canceled" => t \in definitions'
    BY <1>1 DEF RetryableWhenCanceled
  <2> QED
    BY <1>1, <1>2, <2>1, <2>2, <2>3 DEF BooksKept, Books, Known
<1>7. OnDisk(status', file')
  BY <1>1, <1>2 DEF BooksKept, Books, OnDisk
<1>8. AtRest(status', pauseRequested, cancelRequested)
  <2>1. \A g \in cancelRequested : t \notin Members(g)
    BY <1>1 DEF BooksKept, Books, AtRest
  <2> QED
    BY <1>2, <2>1 DEF BooksKept, Books, AtRest, Members
<1>9. BooksKept'
  BY <1>3, <1>5, <1>6, <1>7, <1>8 DEF BooksKept, Books
<1>10. DoneStays /\ BytesStay
  BY <1>1, <1>2, FlagAssumption DEF DoneStays, BytesStay
<1> QED
  BY <1>9, <1>10 DEF Outcome

LEMMA FinishOkOutcome ==
    ASSUME TypeOK, BooksKept, NEW t \in Task, FinishOk(t)
    PROVE  Outcome
<1>1. status[t] = "running" /\ active[t] = "reply" /\ t \in definitions
  BY DEF FinishOk, BooksKept, Books, Line, Known
<1>2. \A u \in Task : /\ status'[u] = IF u = t THEN "done" ELSE status[u]
                      /\ active'[u] = IF u = t THEN "none" ELSE active[u]
                      /\ file'[u] = IF u = t /\ t \in Downloads THEN "complete" ELSE file[u]
  BY DEF FinishOk, Release, Update
<1>3. /\ UNCHANGED <<queue, pauseRequested, cancelRequested>>
      /\ definitions' = ForgetDoneGroup(definitions, status')
  BY DEF FinishOk, Release, groupVars
<1>4. \A u \in Task : u \in definitions' <=>
         /\ u \in definitions
         /\ \/ Parent[u] = NoGroup
            \/ Parent[u] \in cancelRequested
            \/ \E c \in Members(Parent[u]) : status'[c] # "done"
  BY <1>3 DEF ForgetDoneGroup
<1>5. \A g : \A u \in Members(g) : u \in Task
  BY DEF Members
<1>6. Line(queue, status', active')
  BY <1>1, <1>2 DEF BooksKept, Books, Line
<1>7. Known(status', definitions')
  <2>1. \A u \in Task : u \in Members(Parent[u])
    BY DEF Members
  <2>2. ASSUME NEW u \in Task, status'[u] # "done", u \in definitions PROVE u \in definitions'
    BY <1>4, <2>1, <2>2
  <2>3. ASSUME NEW u \in Task
        PROVE  /\ status'[u] \in {"queued", "running", "retrying", "paused", "failed"} => u \in definitions'
               /\ status'[u] = "canceled" /\ u \notin Mkdirs => u \in definitions'
    <3>1. status'[u] # "done" => status[u] = status'[u]
      BY <1>2
    <3> QED
      BY <2>2, <3>1 DEF BooksKept, Books, Known
  <2>4. ASSUME NEW u \in Task, status'[u] # "absent", u \notin definitions', u \notin Mkdirs
        PROVE  Parent[u] # NoGroup /\ \A c \in Members(Parent[u]) : status'[c] = "done"
    <3>1. CASE u \in definitions
      BY <1>4, <2>4, <3>1
    <3>2. CASE u \notin definitions
      <4>1. status[u] # "absent"
        BY <1>1, <1>2, <2>4
      <4>2. Parent[u] # NoGroup /\ \A c \in Members(Parent[u]) : status[c] = "done"
        BY <2>4, <3>2, <4>1 DEF BooksKept, Books, Known
      <4> QED
        BY <1>2, <1>5, <4>2
    <3> QED
      BY <3>1, <3>2
  <2>5. \A g \in Group : \A u, v \in Members(g) : status'[u] = "absent" => status'[v] = "absent"
    BY <1>1, <1>2, <1>5 DEF BooksKept, Books, Known
  <2> QED
    BY <2>3, <2>4, <2>5 DEF Known
<1>8. OnDisk(status', file')
  BY <1>1, <1>2 DEF BooksKept, Books, OnDisk
<1>9. AtRest(status', pauseRequested, cancelRequested)
  <2>1. \A g \in cancelRequested : t \notin Members(g)
    BY <1>1 DEF BooksKept, Books, AtRest
  <2> QED
    BY <1>2, <2>1 DEF BooksKept, Books, AtRest, Members
<1>10. BooksKept'
  BY <1>3, <1>6, <1>7, <1>8, <1>9 DEF BooksKept, Books
<1>11. DoneStays /\ BytesStay
  BY <1>1, <1>2, FlagAssumption DEF DoneStays, BytesStay
<1> QED
  BY <1>10, <1>11 DEF Outcome

\* A task that keeps its slot: bytes arrive, it backs off, its timer starts it again.
LEMMA HoldOutcome ==
    ASSUME TypeOK, BooksKept, NEW t \in Task,
           Receive(t) \/ ScheduleRetry(t) \/ (RetryTimerFires(t) /\ active'[t] = "reply")
    PROVE  Outcome
<1>1. status[t] \in {"running", "retrying"} /\ active[t] # "none" /\ t \in definitions
  BY DEF Receive, ScheduleRetry, Backoff, RetryTimerFires, BooksKept, Books, Line, Known
<1>2. /\ UNCHANGED <<queue, pauseRequested, cancelRequested>>
      /\ definitions' = definitions
  BY <1>1 DEF Receive, ScheduleRetry, Backoff, RetryTimerFires, Release, groupVars
<1>3. \A u \in Task : u # t => UNCHANGED <<status[u], active[u], file[u]>>
  BY DEF Receive, ScheduleRetry, Backoff, RetryTimerFires, Release, Update, DropFiles, TypeOK
<1>4. \/ status'[t] = "running" /\ active'[t] = "reply"
      \/ status'[t] = "retrying" /\ active'[t] = "backoff"
  BY <1>1 DEF Receive, ScheduleRetry, Backoff, RetryTimerFires, Release, Update, TypeOK,
              BooksKept, Books, Line
<1>5. /\ t \notin Downloads => file'[t] = file[t]
      /\ t \in Downloads \ RetainPartial /\ status'[t] = "retrying" => file'[t] = "absent"
      /\ t \in RetainPartial \cap StrongEtag /\ file[t] = "partial" => file'[t] \in {"partial", "complete"}
  <2>1. CASE Receive(t)
    BY <1>1, <1>4, <2>1 DEF Receive, TypeOK, BooksKept, Books, Line
  <2>2. CASE ScheduleRetry(t)
    BY <2>2 DEF ScheduleRetry, Update, DropFiles
  <2>3. CASE RetryTimerFires(t) /\ active'[t] = "reply"
    <3>1. ~Release({t}, "failed")
      BY <2>3 DEF Release, Update
    <3>2. file' = [file EXCEPT ![t] = Opened(t, @)] /\ status' = [status EXCEPT ![t] = "running"]
      BY <2>3, <3>1 DEF RetryTimerFires
    <3> QED
      BY <3>2 DEF Opened, TypeOK
  <2> QED
    BY <2>1, <2>2, <2>3
<1>6. Line(queue, status', active')
  BY <1>1, <1>3, <1>4 DEF BooksKept, Books, Line
<1>7. Known(status', definitions)
  <2>1. \A g : \A u \in Members(g) : u \in Task
    BY DEF Members
  <2> QED
    BY <1>1, <1>3, <1>4, <2>1 DEF BooksKept, Books, Known
<1>8. OnDisk(status', file')
  BY <1>1, <1>3, <1>4, <1>5 DEF BooksKept, Books, OnDisk
<1>9. AtRest(status', pauseRequested, cancelRequested)
  <2>1. \A g \in cancelRequested : t \notin Members(g)
    BY <1>1 DEF BooksKept, Books, AtRest
  <2> QED
    BY <1>3, <2>1 DEF BooksKept, Books, AtRest, Members
<1>10. BooksKept'
  BY <1>2, <1>6, <1>7, <1>8, <1>9 DEF BooksKept, Books
<1>11. DoneStays /\ BytesStay
  BY <1>1, <1>3, <1>5, FlagAssumption DEF DoneStays, BytesStay
<1> QED
  BY <1>10, <1>11 DEF Outcome

LEMMA EnqueueTaskOutcome ==
    ASSUME TypeOK, BooksKept, NEW t \in Task, EnqueueTask(t)
    PROVE  Outcome
<1> DEFINE q == Append(queue, t)
           st == Update(status, {t}, "queued")
           fl == DropFiles(file, {t})
<1>1. /\ Parent[t] = NoGroup /\ status[t] = "absent" /\ definitions' = definitions \cup {t}
      /\ UNCHANGED <<pauseRequested, cancelRequested>>
      /\ StartNext(q, active, st, fl, pendingStart)
  BY DEF EnqueueTask, groupVars
<1>2. queue \in Seq(Task) /\ active \in [Task -> Slot] /\ <<t>> \in Seq(Task)
  BY DEF TypeOK
<1>3. q = queue \o <<t>>
  BY <1>2, AppendIsConcat
<1>4. q \in Seq(Task) /\ st \in [Task -> Status] /\ fl \in [Task -> File]
  BY <1>2, AppendProperties, UpdateType, DropFilesType DEF TypeOK, Status
<1>5. Once(<<t>>) /\ \A u \in Task : InQueue(<<t>>, u) <=> u = t
  BY DEF Once, InQueue
<1>6. Once(q) /\ \A u \in Task : InQueue(q, u) <=> InQueue(queue, u) \/ u = t
  <2>1. Once(queue) /\ \A u \in Task : InQueue(queue, u) => ~InQueue(<<t>>, u)
    BY <1>1, <1>5 DEF BooksKept, Books, Line
  <2> HIDE DEF q
  <2> QED
    BY <1>2, <1>3, <1>5, <2>1, ConcatOnce
<1>7. \A u \in Task : /\ st[u] = IF u = t THEN "queued" ELSE status[u]
                      /\ fl[u] = IF u = t /\ t \in Downloads \ RetainPartial THEN "absent" ELSE file[u]
  BY DEF Update, DropFiles
<1>8. \A g \in Group : t \notin Members(g) /\ Members(g) \subseteq Task
  BY <1>1, GroupAssumption DEF Members
<1> HIDE DEF q, st, fl
<1>9. Line(q, st, active)
  BY <1>1, <1>6, <1>7 DEF BooksKept, Books, Line
<1>10. Known(st, definitions')
  <2>1. \A u \in Task : Parent[u] # NoGroup => t \notin Members(Parent[u]) /\ Members(Parent[u]) \subseteq Task
    BY <1>1 DEF Members
  <2> QED
    BY <1>1, <1>7, <1>8, <2>1 DEF BooksKept, Books, Known
<1>11. OnDisk(st, fl)
  BY <1>7 DEF BooksKept, Books, OnDisk
<1>12. AtRest(st, pauseRequested', cancelRequested')
  <2>1. cancelRequested \subseteq Group
    BY DEF TypeOK
  <2> QED
    BY <1>1, <1>7, <1>8, <2>1 DEF BooksKept, Books, AtRest
<1>13. Books(q, st, active, fl, definitions', pauseRequested', cancelRequested')
  BY <1>9, <1>10, <1>11, <1>12 DEF Books
<1>14. \A u \in Task : status[u] = "done" =>
         st[u] \in {"done", "absent"} \/ Parent[u] \in cancelRequested' \ cancelRequested
  BY <1>1, <1>7
<1>15. \A u \in RetainPartial \cap StrongEtag : file[u] = "partial" => fl[u] = "partial"
  BY <1>7, FlagAssumption
<1> HIDE DEF Outcome
<1> QED
  BY <1>1, <1>2, <1>4, <1>13, <1>14, <1>15, StartNextOutcome

LEMMA EnqueueGroupOutcome ==
    ASSUME TypeOK, BooksKept, NEW g \in Group, EnqueueGroup(g)
    PROVE  Outcome
<1> DEFINE M == Members(g)
           q == queue \o GroupOrder[g]
           st == Update(status, M, "queued")
           fl == DropFiles(file, M)
<1>1. /\ \A t \in M : status[t] = "absent"
      /\ definitions' = definitions \cup M
      /\ UNCHANGED <<pauseRequested, cancelRequested>>
      /\ StartNext(q, active, st, fl, pendingStart)
  BY DEF EnqueueGroup, GroupPresent, groupVars
<1>2. queue \in Seq(Task) /\ active \in [Task -> Slot]
  BY DEF TypeOK
<1>3. /\ GroupOrder[g] \in Seq(Task) /\ Once(GroupOrder[g])
      /\ \A u \in Task : InQueue(GroupOrder[g], u) <=> u \in M
  BY GroupOrderOnce
<1>4. q \in Seq(Task) /\ st \in [Task -> Status] /\ fl \in [Task -> File]
  BY <1>2, <1>3, ConcatProperties, UpdateType, DropFilesType DEF TypeOK, Status
<1>5. Once(q) /\ \A u \in Task : InQueue(q, u) <=> InQueue(queue, u) \/ u \in M
  <2>1. Once(queue) /\ \A u \in Task : InQueue(queue, u) => ~InQueue(GroupOrder[g], u)
    BY <1>1, <1>3 DEF BooksKept, Books, Line
  <2> QED
    BY <1>2, <1>3, <2>1, ConcatOnce
<1>6. \A u \in Task :
         /\ st[u] = IF u \in M THEN "queued" ELSE status[u]
         /\ fl[u] = IF u \in M /\ u \in Downloads \ RetainPartial THEN "absent" ELSE file[u]
  BY DEF Update, DropFiles
<1>7. \A h \in Group : Members(h) \subseteq Task /\ (h # g => Members(h) \cap M = {})
  BY DEF Members
<1>8. M # {} /\ M \subseteq Task
  BY GroupAssumption DEF Members
<1>9. \A u \in Task : Parent[u] = g <=> u \in M
  BY DEF Members
<1> HIDE DEF M, q, st, fl
<1>10. Line(q, st, active)
  BY <1>1, <1>5, <1>6 DEF BooksKept, Books, Line
<1>11. Known(st, definitions')
  <2>1. ASSUME NEW u \in Task, st[u] # "absent", u \notin definitions', u \notin Mkdirs
        PROVE  Parent[u] # NoGroup /\ \A c \in Members(Parent[u]) : st[c] = "done"
    <3>1. u \notin M /\ u \notin definitions /\ status[u] # "absent"
      BY <1>1, <1>6, <2>1
    <3>2. Parent[u] # NoGroup /\ \A c \in Members(Parent[u]) : status[c] = "done"
      BY <2>1, <3>1 DEF BooksKept, Books, Known
    <3>3. \A c \in Members(Parent[u]) : c \in Task /\ c \notin M
      BY <1>9, <3>1 DEF Members
    <3> QED
      BY <1>6, <3>2, <3>3
  <2>2. \A h \in Group : \A t, u \in Members(h) : st[t] = "absent" => st[u] = "absent"
    <3>1. \A t \in Members(g) : st[t] # "absent"
      BY <1>6, <1>8 DEF M
    <3>2. \A h \in Group \ {g} : \A t \in Members(h) : st[t] = status[t]
      BY <1>6, <1>7
    <3> QED
      BY <3>1, <3>2 DEF BooksKept, Books, Known
  <2>3. \A u \in Task :
          /\ st[u] \in {"queued", "running", "retrying", "paused", "failed"} => u \in definitions'
          /\ st[u] = "canceled" /\ u \notin Mkdirs => u \in definitions'
    BY <1>1, <1>6 DEF BooksKept, Books, Known
  <2> QED
    BY <2>1, <2>2, <2>3 DEF Known
<1>12. OnDisk(st, fl)
  BY <1>6 DEF BooksKept, Books, OnDisk
<1>13. AtRest(st, pauseRequested', cancelRequested')
  <2>1. cancelRequested \subseteq Group
    BY DEF TypeOK
  <2>2. g \notin cancelRequested
    BY <1>1, <1>8 DEF BooksKept, Books, AtRest, M
  <2> QED
    BY <1>1, <1>6, <1>7, <2>1, <2>2 DEF BooksKept, Books, AtRest
<1>14. Books(q, st, active, fl, definitions', pauseRequested', cancelRequested')
  BY <1>10, <1>11, <1>12, <1>13 DEF Books
<1>15. \A u \in Task : status[u] = "done" =>
         st[u] \in {"done", "absent"} \/ Parent[u] \in cancelRequested' \ cancelRequested
  BY <1>1, <1>6
<1>16. \A u \in RetainPartial \cap StrongEtag : file[u] = "partial" => fl[u] = "partial"
  BY <1>6, FlagAssumption
<1> HIDE DEF Outcome
<1> QED
  BY <1>1, <1>2, <1>4, <1>14, <1>15, <1>16, StartNextOutcome

\* A task that is not in a slot leaves the queue, cancelled or paused.
LEMMA LeaveQueueOutcome ==
    ASSUME TypeOK, BooksKept, NEW t \in Task, NEW how \in {"canceled", "paused"},
           NEW fl \in [Task -> File],
           active[t] = "none", status[t] \in {"queued", "paused"},
           \/ how = "canceled" /\ fl = DropFiles(file, {t})
           \/ fl = file /\ status[t] = "queued",
           StartNext(Without(queue, {t}), active, Update(status, {t}, how), fl, pendingStart),
           UNCHANGED <<pauseRequested, cancelRequested>>,
           \/ UNCHANGED definitions
           \/ how = "canceled" /\ definitions' = definitions \ ({t} \ RetryableWhenCanceled)
    PROVE  Outcome
<1> DEFINE q == Without(queue, {t})
           st == Update(status, {t}, how)
<1>1. queue \in Seq(Task) /\ active \in [Task -> Slot] /\ Once(queue)
  BY DEF TypeOK, BooksKept, Books, Line
<1>2. q \in Seq(Task) /\ st \in [Task -> Status]
  BY <1>1, WithoutType, UpdateType DEF TypeOK, Status, Finished
<1>3. Once(q) /\ \A u \in Task : InQueue(q, u) <=> InQueue(queue, u) /\ u # t
  BY <1>1, SubsequenceOnce DEF Without
<1>4. \A u \in Task : st[u] = IF u = t THEN how ELSE status[u]
  BY DEF Update
<1>5. \A u \in Task : /\ u # t \/ t \notin Downloads \/ t \in RetainPartial => fl[u] = file[u]
                      /\ u = t /\ t \in Downloads \ RetainPartial => fl[u] \in {"absent", file[u]}
  BY DEF DropFiles, Update
<1>6. t \in definitions
  BY DEF BooksKept, Books, Known
<1> HIDE DEF q, st
<1>7. Line(q, st, active)
  BY <1>3, <1>4 DEF BooksKept, Books, Line
<1>8. Known(st, definitions')
  <2>1. \A g : \A u \in Members(g) : u \in Task
    BY DEF Members
  <2>2. \A u \in Task : u # t => (u \in definitions' <=> u \in definitions)
    OBVIOUS
  <2>3. t \notin Mkdirs \/ how # "canceled" => t \in definitions'
    BY <1>6 DEF RetryableWhenCanceled
  <2> QED
    BY <1>4, <2>1, <2>2, <2>3 DEF BooksKept, Books, Known
<1>9. OnDisk(st, fl)
  <2>1. t \in Downloads \ RetainPartial => file[t] = "absent"
    BY DEF BooksKept, Books, OnDisk
  <2> QED
    BY <1>4, <1>5, <2>1 DEF BooksKept, Books, OnDisk
<1>10. AtRest(st, pauseRequested', cancelRequested')
  <2>1. \A g \in cancelRequested : t \notin Members(g)
    BY DEF BooksKept, Books, AtRest
  <2> QED
    BY <1>4, <2>1 DEF BooksKept, Books, AtRest, Members
<1>11. Books(q, st, active, fl, definitions', pauseRequested', cancelRequested')
  BY <1>7, <1>8, <1>9, <1>10 DEF Books
<1>12. \A u \in Task : status[u] = "done" =>
         st[u] \in {"done", "absent"} \/ Parent[u] \in cancelRequested' \ cancelRequested
  BY <1>4
<1>13. \A u \in RetainPartial \cap StrongEtag : file[u] = "partial" => fl[u] = "partial"
  BY <1>5, FlagAssumption
<1>14. StartNext(q, active, st, fl, pendingStart)
  BY DEF q, st
<1> HIDE DEF Outcome
<1> QED
  BY <1>1, <1>2, <1>11, <1>12, <1>13, <1>14, StartNextOutcome

LEMMA CancelTaskOutcome ==
    ASSUME TypeOK, BooksKept, NEW t \in Task, CancelTask(t)
    PROVE  Outcome
<1>1. /\ UNCHANGED <<pauseRequested, cancelRequested>>
      /\ definitions' = definitions \ ({t} \ RetryableWhenCanceled)
  BY DEF CancelTask, groupVars
<1>2. CASE active[t] # "none" /\ Release({t}, "canceled") /\ file' = DropFiles(file, {t})
  BY <1>1, <1>2, ReleaseOutcome
<1>3. CASE /\ active[t] = "none" /\ status[t] \in {"queued", "paused"}
           /\ StartNext(Without(queue, {t}), active, Update(status, {t}, "canceled"),
                        DropFiles(file, {t}), pendingStart)
  <2>1. PICK fl \in [Task -> File], how \in {"canceled", "paused"} :
           how = "canceled" /\ fl = DropFiles(file, {t})
    BY DropFilesType DEF TypeOK
  <2>2. StartNext(Without(queue, {t}), active, Update(status, {t}, how), fl, pendingStart)
    BY <1>3, <2>1
  <2>3. \/ UNCHANGED definitions
        \/ how = "canceled" /\ definitions' = definitions \ ({t} \ RetryableWhenCanceled)
    BY <1>1, <2>1
  <2> QED
    BY <1>1, <1>3, <2>1, <2>2, <2>3, LeaveQueueOutcome
<1> QED
  BY <1>2, <1>3 DEF CancelTask

LEMMA PauseTaskOutcome ==
    ASSUME TypeOK, BooksKept, NEW t \in Task, PauseTask(t)
    PROVE  Outcome
<1>1. UNCHANGED <<pauseRequested, cancelRequested>> /\ UNCHANGED definitions
  BY DEF PauseTask, groupVars
<1>2. CASE active[t] # "none" /\ Release({t}, "paused") /\ file' = DropFiles(file, {t})
  BY <1>1, <1>2, ReleaseOutcome
<1>3. CASE /\ active[t] = "none" /\ status[t] = "queued"
           /\ StartNext(Without(queue, {t}), active, Update(status, {t}, "paused"),
                        file, pendingStart)
  <2>1. file \in [Task -> File]
    BY DEF TypeOK
  <2> QED
    BY <1>1, <1>3, <2>1, LeaveQueueOutcome
<1> QED
  BY <1>2, <1>3 DEF PauseTask

\* Nothing but folder flags changes, and only so that fewer promises are made.
LEMMA FlagsOutcome ==
    ASSUME TypeOK, BooksKept, UNCHANGED <<queue, status, active, file, definitions>>,
           AtRest(status, pauseRequested', cancelRequested')
    PROVE  Outcome
<1>1. BooksKept'
  BY DEF BooksKept, Books
<1>2. DoneStays /\ BytesStay
  BY FlagAssumption DEF DoneStays, BytesStay
<1> QED
  BY <1>1, <1>2 DEF Outcome

LEMMA ResumeTaskOutcome ==
    ASSUME TypeOK, BooksKept, NEW t \in Task, ResumeTask(t)
    PROVE  Outcome
<1>1. /\ status[t] = "paused" /\ t \in definitions /\ Requeue(<<t>>)
      /\ UNCHANGED <<definitions, pauseRequested, cancelRequested>>
  BY DEF ResumeTask, Requeueable, groupVars
<1>2. <<t>> \in Seq(Task) /\ Once(<<t>>) /\ \A u \in Task : InQueue(<<t>>, u) <=> u = t
  BY DEF Once, InQueue
<1>3. Parent[t] \notin cancelRequested
  BY <1>1 DEF BooksKept, Books, AtRest, Members
<1>4. AtRest(status, pauseRequested', cancelRequested')
  BY <1>1 DEF BooksKept, Books
<1> QED
  BY <1>1, <1>2, <1>3, <1>4, RequeueOutcome

\* prepareGroupRetry only takes promises back.
LEMMA RetryFlags ==
    ASSUME BooksKept, NEW g, PrepareGroupRetry(g)
    PROVE  /\ g \notin cancelRequested'
           /\ AtRest(status, pauseRequested', cancelRequested')
BY DEF BooksKept, Books, AtRest, PrepareGroupRetry

LEMMA RetryTaskOutcome ==
    ASSUME TypeOK, BooksKept, NEW t \in Task, RetryTask(t)
    PROVE  Outcome
<1>1. /\ status[t] \in {"failed", "canceled"} /\ t \in definitions
      /\ UNCHANGED definitions /\ PrepareGroupRetry(Parent[t])
  BY DEF RetryTask, Requeueable
<1>2. <<t>> \in Seq(Task) /\ Once(<<t>>) /\ \A u \in Task : InQueue(<<t>>, u) <=> u = t
  BY DEF Once, InQueue
<1>3. Parent[t] \notin cancelRequested' /\ AtRest(status, pauseRequested', cancelRequested')
  BY <1>1, RetryFlags
<1>4. CASE Requeue(<<t>>)
  BY <1>1, <1>2, <1>3, <1>4, RequeueOutcome
<1>5. CASE NothingRequeued
  BY <1>1, <1>3, <1>5, FlagsOutcome DEF NothingRequeued
<1> QED
  BY <1>4, <1>5 DEF RetryTask

\* The children of a folder that are requeued together.
LEMMA RequeueMembersOutcome ==
    ASSUME TypeOK, BooksKept, NEW g \in Group, NEW S \in SUBSET {"paused", "failed", "canceled"},
           RequeueMembers(g, S), UNCHANGED definitions, g \notin cancelRequested',
           AtRest(status, pauseRequested', cancelRequested')
    PROVE  Outcome
<1> DEFINE able == {t \in Members(g) : status[t] \in S /\ Requeueable(t)}
<1>1. CASE NothingRequeued
  BY <1>1, FlagsOutcome DEF NothingRequeued
<1>2. CASE \E stuck : Requeue(Subsequence(GroupOrder[g], able \ stuck))
  <2>1. PICK stuck : Requeue(Subsequence(GroupOrder[g], able \ stuck))
    BY <1>2
  <2> DEFINE ts == Subsequence(GroupOrder[g], able \ stuck)
  <2>2. GroupOrder[g] \in Seq(Task) /\ Once(GroupOrder[g])
    BY GroupOrderOnce
  <2>3. ts \in Seq(Task)
    BY <2>2, SubsequenceProperties
  <2>4. Once(ts) /\ \A t \in Task : InQueue(ts, t) => t \in able
    <3> HIDE DEF able
    <3> QED
      BY <2>2, SubsequenceOnce
  <2>5. \A t \in Task : InQueue(ts, t) => /\ t \in definitions
                                          /\ status[t] \in {"paused", "failed", "canceled"}
                                          /\ Parent[t] \notin cancelRequested'
    BY <2>4 DEF Requeueable, Members
  <2> HIDE DEF ts, Outcome
  <2>6. Requeue(ts)
    BY <2>1 DEF ts
  <2> QED
    BY <2>3, <2>4, <2>5, <2>6, RequeueOutcome
<1> QED
  BY <1>1, <1>2 DEF RequeueMembers

LEMMA ResumeGroupOutcome ==
    ASSUME TypeOK, BooksKept, NEW g \in Group, ResumeGroup(g)
    PROVE  Outcome
<1>1. /\ RequeueMembers(g, {"paused"}) /\ UNCHANGED <<definitions, cancelRequested>>
      /\ g \notin cancelRequested /\ pauseRequested' = pauseRequested \ {g}
  BY DEF ResumeGroup, GroupCanResume
<1>2. AtRest(status, pauseRequested', cancelRequested')
  BY <1>1 DEF BooksKept, Books, AtRest
<1> QED
  BY <1>1, <1>2, RequeueMembersOutcome

LEMMA RetryGroupOutcome ==
    ASSUME TypeOK, BooksKept, NEW g \in Group, RetryGroup(g)
    PROVE  Outcome
<1>1. /\ RequeueMembers(g, {"failed", "canceled"}) /\ UNCHANGED definitions
      /\ PrepareGroupRetry(g)
  BY DEF RetryGroup
<1> QED
  BY <1>1, RetryFlags, RequeueMembersOutcome

\* A folder whose cancel button shows has every definition it may need again:
\* an upload or download without one would mean that all its children are done.
LEMMA CancellableOwned ==
    ASSUME BooksKept, NEW g \in Group, GroupCancellable(g), NEW t \in Members(g), t \notin Mkdirs
    PROVE  t \in definitions
<1>1. t \in Task /\ Parent[t] = g
  BY DEF Members
<1>2. status[t] # "absent"
  BY <1>1 DEF GroupCancellable, GroupPresent, BooksKept, Books, Known
<1>3. ~ \A c \in Members(g) : status[c] = "done"
  <2> SUFFICES ASSUME \A c \in Members(g) : status[c] = "done" PROVE FALSE
    OBVIOUS
  <2>1. AllFinished(g) /\ ~HasStatus(g, {"failed", "canceled"})
        /\ ~HasStatus(g, {"failed"}) /\ ~HasStatus(g, {"canceled"})
    BY DEF AllFinished, HasStatus, Finished
  <2>2. GroupStatus(g) = "done"
    BY <2>1 DEF GroupStatus
  <2> QED
    BY <2>2 DEF GroupCancellable
<1> QED
  BY <1>1, <1>2, <1>3 DEF BooksKept, Books, Known

LEMMA CancelGroupOutcome ==
    ASSUME TypeOK, BooksKept, NEW g \in Group, CancelGroup(g)
    PROVE  Outcome
<1> DEFINE M == Members(g)
           held == M \cap Slots(active)
           owned == M \cap definitions
           spared == IF owned \cap RetainPartial # {}
                     THEN (owned \cap RetainPartial) \cup (M \ owned)
                     ELSE {}
           q == Without(queue, M)
           act == Update(active, M, "none")
           st == Update(status, M, "canceled")
           fl == IF g \in IsUpload THEN file ELSE Update(file, M \ spared, "absent")
           post == pendingStart \/ held # {}
<1>1. /\ GroupCancellable(g)
      /\ cancelRequested' = cancelRequested \cup {g}
      /\ pauseRequested' = pauseRequested \ {g}
      /\ definitions' = definitions \ (held \ RetryableWhenCanceled)
      /\ StartNext(q, act, st, fl, post)
  BY DEF CancelGroup
<1>2. queue \in Seq(Task) /\ active \in [Task -> Slot] /\ file \in [Task -> File] /\ Once(queue)
  BY DEF TypeOK, BooksKept, Books, Line
<1>3. q \in Seq(Task) /\ act \in [Task -> Slot] /\ st \in [Task -> Status]
  BY <1>2, WithoutType, UpdateType DEF TypeOK, Slot, Status, Finished
<1>4. fl \in [Task -> File]
  BY <1>2, UpdateType DEF File
<1>5. Once(q) /\ \A u \in Task : InQueue(q, u) <=> InQueue(queue, u) /\ u \notin M
  <2> HIDE DEF M
  <2> QED
    BY <1>2, SubsequenceOnce DEF Without
<1>6. \A u \in Task : /\ st[u] = IF u \in M THEN "canceled" ELSE status[u]
                      /\ act[u] = IF u \in M THEN "none" ELSE active[u]
  BY DEF Update
<1>7. /\ M \subseteq Task /\ \A u \in Task : u \in M <=> Parent[u] = g
      /\ \A h \in Group : h # g => Members(h) \cap M = {}
      /\ \A u \in M : u \notin Mkdirs => u \in definitions
  BY <1>1, CancellableOwned DEF Members
<1>8. \A u \in Task : (u \in Downloads <=> Direction[u] = "download")
                   /\ (u \in Mkdirs <=> Direction[u] = "mkdir")
  BY DEF Downloads, Mkdirs
<1>9. \A u \in M : (u \in Downloads) <=> (g \notin IsUpload)
  BY <1>7, <1>8, GroupAssumption
<1>10. \A u \in M \cap Downloads : u \in owned /\ u \notin Mkdirs
  BY <1>7, <1>8
<1>11. ASSUME NEW u \in Task
       PROVE  /\ u \notin M \cap Downloads => fl[u] = file[u]
              /\ u \in M \cap Downloads /\ u \notin RetainPartial => fl[u] = "absent"
              /\ u \in M \cap Downloads /\ u \in RetainPartial => fl[u] = file[u]
  <2>1. CASE g \in IsUpload
    BY <1>9, <2>1
  <2>2. CASE g \notin IsUpload
    <3>1. fl[u] = IF u \in M \ spared THEN "absent" ELSE file[u]
      BY <2>2 DEF Update
    <3>2. u \in M => u \in owned /\ u \in Downloads
      BY <1>7, <1>9, <1>10, <2>2
    <3> HIDE DEF M, owned, fl
    <3> QED
      BY <3>1, <3>2
  <2> QED
    BY <2>1, <2>2
<1>12. \A u \in Task : u \notin M \/ u \notin Mkdirs => (u \in definitions' <=> u \in definitions)
  BY <1>1, <1>7 DEF RetryableWhenCanceled
<1> HIDE DEF M, held, owned, spared, q, act, st, fl, post
<1>13. Line(q, st, act)
  BY <1>5, <1>6 DEF BooksKept, Books, Line
<1>14. Known(st, definitions')
  <2>1. ASSUME NEW u \in Task, st[u] # "absent", u \notin definitions', u \notin Mkdirs
        PROVE  Parent[u] # NoGroup /\ \A c \in Members(Parent[u]) : st[c] = "done"
    <3>1. u \notin M /\ u \notin definitions /\ status[u] # "absent"
      BY <1>6, <1>7, <1>12, <2>1
    <3>2. Parent[u] # NoGroup /\ \A c \in Members(Parent[u]) : status[c] = "done"
      BY <2>1, <3>1 DEF BooksKept, Books, Known
    <3>3. \A c \in Members(Parent[u]) : c \in Task /\ c \notin M
      BY <1>7, <3>1 DEF Members
    <3> QED
      BY <1>6, <3>2, <3>3
  <2>2. \A h \in Group : \A t, u \in Members(h) : st[t] = "absent" => st[u] = "absent"
    <3>1. \A t \in Members(g) : st[t] # "absent"
      BY <1>6, <1>7 DEF M
    <3>2. \A h \in Group \ {g} : \A t \in Members(h) : t \in Task /\ st[t] = status[t]
      BY <1>6, <1>7 DEF Members
    <3> QED
      BY <3>1, <3>2 DEF BooksKept, Books, Known
  <2>3. ASSUME NEW u \in Task
        PROVE  /\ st[u] \in {"queued", "running", "retrying", "paused", "failed"} => u \in definitions'
               /\ st[u] = "canceled" /\ u \notin Mkdirs => u \in definitions'
    BY <1>6, <1>7, <1>12 DEF BooksKept, Books, Known
  <2> QED
    BY <2>1, <2>2, <2>3 DEF Known
<1>15. OnDisk(st, fl)
  <2> SUFFICES ASSUME NEW t \in Task
               PROVE  /\ t \notin Downloads => fl[t] = "source"
                      /\ t \in Downloads /\ st[t] = "done" => fl[t] = "complete"
                      /\ t \in Downloads \ RetainPartial /\
                         st[t] \in {"queued", "retrying", "paused", "failed", "canceled"} => fl[t] = "absent"
    BY DEF OnDisk
  <2> QED
    BY <1>6, <1>11 DEF BooksKept, Books, OnDisk
<1>16. AtRest(st, pauseRequested', cancelRequested')
  <2>1. cancelRequested \subseteq Group
    BY DEF TypeOK
  <2>2. \A t \in Members(g) : st[t] = "canceled"
    BY <1>6, <1>7 DEF M
  <2>3. \A h \in Group \ {g} : \A t \in Members(h) : t \in Task /\ st[t] = status[t]
    BY <1>6, <1>7 DEF Members
  <2> QED
    BY <1>1, <2>1, <2>2, <2>3 DEF BooksKept, Books, AtRest
<1>17. Books(q, st, act, fl, definitions', pauseRequested', cancelRequested')
  BY <1>13, <1>14, <1>15, <1>16 DEF Books
<1>18. \A u \in Task : status[u] = "done" =>
         st[u] \in {"done", "absent"} \/ Parent[u] \in cancelRequested' \ cancelRequested
  BY <1>1, <1>6, <1>7 DEF GroupCancellable
<1>19. \A u \in RetainPartial \cap StrongEtag : file[u] = "partial" => fl[u] = "partial"
  BY <1>11, FlagAssumption
<1> HIDE DEF Outcome
<1> QED
  BY <1>1, <1>3, <1>4, <1>17, <1>18, <1>19, StartNextOutcome

LEMMA PauseGroupOutcome ==
    ASSUME TypeOK, BooksKept, NEW g \in Group, PauseGroup(g)
    PROVE  Outcome
<1> DEFINE M == Members(g)
           held == M \cap Slots(active)
           stopped == {t \in M : active[t] # "none" \/ status[t] = "queued"}
           q == Without(queue, M)
           act == Update(active, M, "none")
           st == Update(status, stopped, "paused")
           fl == DropFiles(file, held)
           post == pendingStart \/ held # {}
<1>1. /\ g \notin cancelRequested
      /\ pauseRequested' = pauseRequested \cup {g}
      /\ UNCHANGED <<definitions, cancelRequested>>
      /\ StartNext(q, act, st, fl, post)
  BY DEF PauseGroup, GroupCanPause
<1>2. queue \in Seq(Task) /\ active \in [Task -> Slot] /\ file \in [Task -> File] /\ Once(queue)
  BY DEF TypeOK, BooksKept, Books, Line
<1>3. q \in Seq(Task) /\ act \in [Task -> Slot] /\ st \in [Task -> Status] /\ fl \in [Task -> File]
  BY <1>2, WithoutType, UpdateType, DropFilesType DEF TypeOK, Slot, Status
<1>4. Once(q) /\ \A u \in Task : InQueue(q, u) <=> InQueue(queue, u) /\ u \notin M
  <2> HIDE DEF M
  <2> QED
    BY <1>2, SubsequenceOnce DEF Without
<1>5. \A u \in Task : /\ st[u] = IF u \in stopped THEN "paused" ELSE status[u]
                      /\ act[u] = IF u \in M THEN "none" ELSE active[u]
                      /\ fl[u] = IF u \in held /\ u \in Downloads \ RetainPartial THEN "absent" ELSE file[u]
  BY DEF Update, DropFiles
<1>6. \A u \in Task : /\ u \in stopped <=> u \in M /\ (active[u] # "none" \/ status[u] = "queued")
                      /\ u \in held <=> u \in M /\ active[u] # "none"
                      /\ u \in M <=> Parent[u] = g
  BY DEF Slots, Members
<1>7. \A u \in stopped : u \in Task /\ status[u] \in {"queued", "running", "retrying"} /\ u \in definitions
  BY DEF TypeOK, Slot, BooksKept, Books, Line, Known, Members
<1> HIDE DEF M, held, stopped, q, act, st, fl, post
<1>8. Line(q, st, act)
  BY <1>4, <1>5, <1>6, <1>7 DEF BooksKept, Books, Line
<1>9. Known(st, definitions)
  <2>1. \A h : \A u \in Members(h) : u \in Task
    BY DEF Members
  <2>2. \A u \in Task : \/ st[u] = status[u]
                        \/ /\ status[u] \in {"queued", "running", "retrying"}
                           /\ st[u] = "paused" /\ u \in definitions
    BY <1>5, <1>7
  <2> QED
    BY <2>1, <2>2 DEF BooksKept, Books, Known
<1>10. OnDisk(st, fl)
  <2> SUFFICES ASSUME NEW t \in Task
               PROVE  /\ t \notin Downloads => fl[t] = "source"
                      /\ t \in Downloads /\ st[t] = "done" => fl[t] = "complete"
                      /\ t \in Downloads \ RetainPartial /\
                         st[t] \in {"queued", "retrying", "paused", "failed", "canceled"} => fl[t] = "absent"
    BY DEF OnDisk
  <2>1. \/ t \in stopped /\ t \in held
        \/ t \in stopped /\ status[t] = "queued" /\ t \notin held
        \/ t \notin stopped /\ t \notin held
    BY <1>6
  <2> QED
    BY <1>5, <2>1 DEF BooksKept, Books, OnDisk
<1>11. AtRest(st, pauseRequested', cancelRequested')
  <2>1. \A h \in cancelRequested : h # g /\ \A t \in Members(h) : t \in Task /\ t \notin stopped
    BY <1>1, <1>6 DEF Members
  <2> QED
    BY <1>1, <1>5, <2>1 DEF BooksKept, Books, AtRest
<1>12. Books(q, st, act, fl, definitions', pauseRequested', cancelRequested')
  BY <1>1, <1>8, <1>9, <1>10, <1>11 DEF Books
<1>13. \A u \in Task : status[u] = "done" =>
         st[u] \in {"done", "absent"} \/ Parent[u] \in cancelRequested' \ cancelRequested
  BY <1>5, <1>7
<1>14. \A u \in RetainPartial \cap StrongEtag : file[u] = "partial" => fl[u] = "partial"
  BY <1>5, FlagAssumption
<1> HIDE DEF Outcome
<1> QED
  BY <1>1, <1>3, <1>12, <1>13, <1>14, StartNextOutcome

LEMMA ClearFinishedOutcome ==
    ASSUME TypeOK, BooksKept, ClearFinished
    PROVE  Outcome
<1>1. /\ \A t \in Task : status'[t] = IF t \in Clearable THEN "absent" ELSE status[t]
      /\ definitions' = definitions \ Clearable
      /\ cancelRequested' = cancelRequested \ {g \in Group : AllFinished(g)}
      /\ UNCHANGED <<queue, active, file>>
  BY DEF ClearFinished, Update
<1>2. \A t \in Clearable : t \in Task /\ status[t] \in Finished
  BY DEF Clearable, AllFinished, Members
<1>3. \A g \in Group : \A t \in Members(g) : t \in Task /\ (t \in Clearable <=> AllFinished(g))
  BY GroupAssumption DEF Clearable, Members
<1>4. cancelRequested' = {}
  <2>1. cancelRequested \subseteq Group
    BY DEF TypeOK
  <2>2. \A g \in cancelRequested : AllFinished(g)
    BY DEF BooksKept, Books, AtRest, AllFinished, Finished
  <2> QED
    BY <1>1, <2>1, <2>2
<1>5. Line(queue, status', active)
  BY <1>1, <1>2 DEF BooksKept, Books, Line, Finished
<1>6. Known(status', definitions')
  <2>1. ASSUME NEW t \in Task, status'[t] # "absent", t \notin definitions', t \notin Mkdirs
        PROVE  FALSE
    <3>1. t \notin Clearable /\ status[t] # "absent" /\ t \notin definitions
      BY <1>1, <2>1
    <3>2. Parent[t] # NoGroup /\ \A c \in Members(Parent[t]) : status[c] = "done"
      BY <2>1, <3>1 DEF BooksKept, Books, Known
    <3>3. AllFinished(Parent[t])
      BY <3>2 DEF AllFinished, Finished
    <3> QED
      BY <3>1, <3>2, <3>3 DEF Clearable
  <2>2. \A g \in Group : \A t, u \in Members(g) : status'[t] = "absent" => status'[u] = "absent"
    BY <1>1, <1>2, <1>3 DEF BooksKept, Books, Known
  <2>3. \A t \in Task :
          /\ status'[t] \in {"queued", "running", "retrying", "paused", "failed"} => t \in definitions'
          /\ status'[t] = "canceled" /\ t \notin Mkdirs => t \in definitions'
    BY <1>1 DEF BooksKept, Books, Known
  <2> QED
    BY <2>1, <2>2, <2>3 DEF Known
<1>7. OnDisk(status', file)
  BY <1>1 DEF BooksKept, Books, OnDisk
<1>8. BooksKept'
  BY <1>1, <1>4, <1>5, <1>6, <1>7 DEF BooksKept, Books, AtRest
<1>9. DoneStays /\ BytesStay
  BY <1>1 DEF DoneStays, BytesStay
<1> QED
  BY <1>8, <1>9 DEF Outcome

LEMMA RowsInductive ==
    ASSUME TypeOK, BooksKept, [Next]_vars
    PROVE  Outcome
<1>1. CASE \/ UNCHANGED vars \/ ClearGroupSelection
           \/ \E g \in Group : SelectGroup(g)
  <2>1. UNCHANGED <<queue, status, active, file, definitions, pauseRequested, cancelRequested>>
    BY <1>1 DEF vars, ClearGroupSelection, SelectGroup
  <2>2. AtRest(status, pauseRequested', cancelRequested')
    BY <2>1 DEF BooksKept, Books
  <2> QED
    BY <2>1, <2>2, FlagsOutcome
<1>2. ASSUME NEW t \in Task, FinishFailed(t) PROVE Outcome
  BY <1>2, ReleaseOutcome DEF FinishFailed, groupVars
<1>3. ASSUME NEW t \in Task, RetryTimerFires(t) PROVE Outcome
  <2>1. CASE Release({t}, "failed") /\ file' = DropFiles(file, {t})
    BY <1>3, <2>1, ReleaseOutcome DEF RetryTimerFires, groupVars
  <2>2. CASE active' = [active EXCEPT ![t] = "reply"]
    <3>1. active'[t] = "reply"
      BY <2>2 DEF TypeOK
    <3> QED
      BY <1>3, <3>1, HoldOutcome
  <2> QED
    BY <1>3, <2>1, <2>2 DEF RetryTimerFires
<1>4. ASSUME NEW t \in Task, ReplyFinishes(t) \/ Receive(t) PROVE Outcome
  BY <1>2, <1>4, FinishOkOutcome, HoldOutcome DEF ReplyFinishes
<1>5. ASSUME NEW t \in Task, TaskOperation(t) PROVE Outcome
  BY <1>5, EnqueueTaskOutcome, CancelTaskOutcome, PauseTaskOutcome, ResumeTaskOutcome,
     RetryTaskOutcome DEF TaskOperation
<1>6. ASSUME NEW g \in Group, GroupOperation(g) PROVE Outcome
  BY <1>1, <1>6, EnqueueGroupOutcome, CancelGroupOutcome, PauseGroupOutcome, ResumeGroupOutcome,
     RetryGroupOutcome DEF GroupOperation
<1>7. CASE DeferredStart
  <2>1. /\ StartNext(queue, active, status, file, FALSE)
        /\ UNCHANGED <<definitions, pauseRequested, cancelRequested>>
    BY <1>7 DEF DeferredStart, groupVars
  <2>2. /\ queue \in Seq(Task) /\ active \in [Task -> Slot]
        /\ status \in [Task -> Status] /\ file \in [Task -> File]
    BY DEF TypeOK
  <2>3. Books(queue, status, active, file, definitions', pauseRequested', cancelRequested')
    BY <2>1 DEF BooksKept
  <2> QED
    BY <2>1, <2>2, <2>3, StartNextOutcome
<1> QED
  BY <1>1, <1>3, <1>4, <1>5, <1>6, <1>7, ClearFinishedOutcome DEF Next

\* In every reachable state what the list shows of a task is where the queue,
\* the slots and the definitions have it and what is on the disk; and a cancelled
\* folder is at rest.
THEOREM BooksBalance == Spec => [](TypeOK /\ BooksKept)
<1>1. Init => BooksKept
  <2> SUFFICES ASSUME Init PROVE BooksKept
    OBVIOUS
  <2>1. Line(queue, status, active)
    BY EmptySeq DEF Init, Line, Once, InQueue
  <2>2. Known(status, definitions)
    BY DEF Init, Known, Members
  <2>3. OnDisk(status, file)
    BY DEF Init, OnDisk
  <2> QED
    BY <2>1, <2>2, <2>3 DEF Init, BooksKept, Books, AtRest
<1>2. TypeOK /\ BooksKept /\ [Next]_vars => BooksKept'
  BY RowsInductive DEF Outcome
<1> QED
  BY <1>1, <1>2, TypeCorrect, PTL DEF Spec

\* The rows can be trusted: in every order of operations, replies, retries and
\* timers, a row's status is where the task is (TransferManager.cpp, m_queue,
\* m_active, m_taskDefinitions), its file is what the status says, and a cancelled
\* folder stays at rest.
THEOREM RowsAreConsistent == Spec => []RowsConsistent
<1>1. TypeOK /\ BooksKept => RowsConsistent
  BY BooksAreRows
<1> QED
  BY <1>1, BooksBalance, PTL

\* A done row stays done until it is cleared or its whole folder is cancelled
\* (VIBEDOCS/WebDAV.md:251).
THEOREM DoneStaysDone == Spec => DoneNotRedone
<1>1. TypeOK /\ BooksKept /\ [Next]_vars =>
        [\A t \in Task : status[t] = "done" =>
            \/ status'[t] \in {"done", "absent"}
            \/ Parent[t] \in cancelRequested' \ cancelRequested]_vars
  BY RowsInductive DEF Outcome, DoneStays
<1> QED
  BY <1>1, BooksBalance, PTL DEF Spec, DoneNotRedone

\* No step throws away what a download that can be continued has fetched.
THEOREM RetainedBytesKept == Spec => RetainedBytesSurvive
<1>1. TypeOK /\ BooksKept /\ [Next]_vars =>
        [\A t \in RetainPartial \cap StrongEtag :
            file[t] = "partial" => file'[t] \in {"partial", "complete"}]_vars
  BY RowsInductive DEF Outcome, BytesStay
<1> QED
  BY <1>1, BooksBalance, PTL DEF Spec, RetainedBytesSurvive
=============================================================================
