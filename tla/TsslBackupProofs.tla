-------------------------- MODULE TsslBackupProofs --------------------------
(***************************************************************************)
(* Proofs about TsslBackup, for every number of files, tokens, pages and   *)
(* retries and every set of directories: its invariants, its action        *)
(* properties, and that it implements CancelableOperation.                 *)
(***************************************************************************)
EXTENDS TsslBackup, SequenceTheorems, TLAPS

-----------------------------------------------------------------------------
(* The inductive invariant *)

\* The part of TypeOK that the service's steps count with.
Data ==
    /\ retryCount \in 0..MaximumRetries
    /\ total \in 0..MaxFiles /\ next \in 0..total /\ moved \in Seq(1..MaxFiles)
    /\ pageTokens \subseteq Token

\* The rest of it.
Flags ==
    /\ running \in BOOLEAN /\ cancelable \in BOOLEAN /\ asked \in BOOLEAN
    /\ work \in {"none", "scanLocal", "scanRemote", "copy", "import"}
    /\ outcome \in {"none", "done", "failed", "canceled"}
    /\ busy \in BOOLEAN /\ restoreMode \in BOOLEAN /\ cancelRequested \in BOOLEAN
    /\ s3 \in BOOLEAN
    /\ pending \subseteq Callback /\ activeReply \subseteq Callback
    /\ {importing, restorePath, restoreCleanupPath} \subseteq Dir \cup {NoDir}
    /\ existing \subseteq Dir

\* A callback belongs to the mode, its worker does a worker's task, and one
\* about a file is about the first file that has not moved.
Fits(c) ==
    /\ c.does \in {"read", "upload"} <=> ~restoreMode
    /\ c.by = "worker" <=> c.does \in {"read", "parse"}
    /\ IF c.does \in {"list", "parse"}
       THEN c.arg \in Token /\ next = 0 /\ moved = <<>>
       ELSE c.arg = next /\ next # 0 /\ Len(moved) = next - 1

\* The files have moved in order.
InOrder == busy => moved = [i \in 1..Len(moved) |-> i]

\* What StagingSafe rests on: a directory is there for the restore under way
\* or for the import under way, and what is to be cleaned up is the import's.
Staged ==
    /\ IF restoreMode THEN busy /\ restorePath \in Dir ELSE restorePath = NoDir
    /\ restoreCleanupPath = importing
    /\ importing # NoDir => work = "import"
    /\ existing = {restorePath, importing} \ {NoDir}

\* The service knows of a cancellation exactly when the user asked for it.
Told ==
    /\ busy => (asked <=> cancelRequested)
    /\ running /\ ~busy => ~asked

Inv ==
    /\ Data /\ Flags /\ OneChain /\ ViewHonest
    /\ \A c \in pending : Fits(c)
    /\ InOrder /\ Staged /\ Told

-----------------------------------------------------------------------------
(* The two ways a callback of the service leaves it *)

\* A step that leaves another callback to come.
LEMMA ContinueKeepsInv ==
    ASSUME Inv, NEW c \in pending, NEW new \in Callback, new.current,
           busy, Continue(c, new), GoOn, UNCHANGED request,
           Data', InOrder', Fits(new)'
    PROVE  Inv'
<1> USE DEF Inv
<1>1. pending = {c}
  BY DEF OneChain
<1>2. pending' = {new}
  BY <1>1 DEF Continue
<1>3. activeReply' = {d \in pending' : d.by = "reply"}
  <2>1. activeReply \ {c} = {}
    BY <1>1 DEF OneChain
  <2> QED
    BY <1>2, <2>1 DEF Continue
<1>4. OneChain'
  BY <1>2, <1>3 DEF OneChain, GoOn
<1>5. Flags'
  BY <1>2, <1>3 DEF Flags, GoOn, view, setting, staging, request
<1>6. ViewHonest' /\ Staged' /\ Told'
  BY DEF ViewHonest, Staged, Told, GoOn, view, setting, staging, request
<1>7. \A d \in pending' : Fits(d)'
  BY <1>2
<1> QED
  BY <1>4, <1>5, <1>6, <1>7

\* A step that ends the service's operation.
LEMMA EndKeepsInv ==
    ASSUME Inv, NEW c \in pending, Stop(c), Data',
           NEW result \in {"done", "failed", "canceled"},
           \/ ~restoreMode /\ Finish(result)
           \/ FinishRestore(result)
           \/ HandOver /\ ~cancelRequested,
           \/ UNCHANGED request
           \/ cancelRequested' \in BOOLEAN /\ asked' \in BOOLEAN /\ ~running'
    PROVE  Inv'
<1> USE DEF Inv
<1>1. busy /\ ~busy' /\ ~restoreMode'
  BY DEF Finish, FinishRestore, HandOver
<1>2. pending' = {} /\ activeReply' = {}
  BY <1>1 DEF OneChain, Stop
<1>3. OneChain'
  BY <1>1, <1>2 DEF OneChain
<1>4. running /\ work = "none" /\ importing = NoDir
  BY <1>1 DEF ViewHonest, Staged
<1>5. Flags' /\ ViewHonest'
  <2>1. CASE ~restoreMode /\ Finish(result)
    BY <1>2, <1>4, <2>1 DEF Flags, Finish, EndView, staging, request, ViewHonest
  <2>2. CASE FinishRestore(result)
    BY <1>2, <1>4, <2>2 DEF Flags, FinishRestore, EndView, request, ViewHonest
  <2>3. CASE HandOver /\ ~cancelRequested
    BY <1>2, <1>4, <2>3 DEF Flags, HandOver, request, ViewHonest
  <2> QED
    BY <2>1, <2>2, <2>3
<1>6. Staged'
  <2>1. CASE ~restoreMode /\ Finish(result)
    BY <1>4, <2>1 DEF Finish, EndView, staging, Staged
  <2>2. CASE FinishRestore(result)
    BY <1>4, <2>2 DEF FinishRestore, EndView, Staged
  <2>3. CASE HandOver
    BY <1>4, <2>3, NoDirAssumption DEF HandOver, Staged
  <2> QED
    BY <2>1, <2>2, <2>3
<1>7. Told'
  <2>1. CASE ~running'
    BY <1>1, <2>1 DEF Told
  <2>2. CASE HandOver /\ ~cancelRequested
    <3>1. running' = running
      BY <2>2 DEF HandOver
    <3>2. UNCHANGED request
      BY <1>4, <3>1 DEF Flags
    <3>3. ~asked
      BY <1>1, <2>2 DEF Told
    <3> QED
      BY <1>1, <3>2, <3>3 DEF Told, request
  <2> QED
    BY <2>1, <2>2 DEF Finish, FinishRestore, EndView
<1>8. InOrder'
  BY <1>1 DEF InOrder
<1> QED
  BY <1>2, <1>3, <1>5, <1>6, <1>7, <1>8

-----------------------------------------------------------------------------
(* Every callback of the service preserves the invariant *)

\* A callback that was made has a callback's type.
LEMMA Made ==
    ASSUME NEW by \in {"worker", "reply", "timer"},
           NEW does \in {"read", "upload", "list", "parse", "download"}, NEW arg \in Nat
    PROVE  /\ Make(by, does, arg) \in Callback /\ Make(by, does, arg).current
           /\ Make(by, does, arg).by = by /\ Make(by, does, arg).does = does
           /\ Make(by, does, arg).arg = arg
BY DEF Make, Callback

\* Files that have moved in order stay in order when the next one follows.
LEMMA OneMoreMoved ==
    ASSUME Inv, busy, Len(moved) = next - 1, next # 0
    PROVE  /\ Append(moved, next) \in Seq(1..MaxFiles)
           /\ Len(Append(moved, next)) = next
           /\ Append(moved, next) = [i \in 1..next |-> i]
<1>1. /\ moved \in Seq(1..MaxFiles) /\ moved = [i \in 1..Len(moved) |-> i]
      /\ next \in 1..MaxFiles /\ Len(moved) \in Nat
  BY BoundAssumption DEF Inv, Data, InOrder
<1>2. /\ Append(moved, next) \in Seq(1..MaxFiles) /\ Len(Append(moved, next)) = next
  BY <1>1
<1>3. DOMAIN Append(moved, next) = 1..next
  BY <1>2
<1>4. \A i \in 1..next : Append(moved, next)[i] = i
  <2> TAKE i \in 1..next
  <2>1. CASE i = next
    BY <1>1, <2>1
  <2>2. CASE i # next
    <3>1. i \in 1..Len(moved)
      BY <1>1, <2>2
    <3>2. Append(moved, next)[i] = moved[i]
      BY <1>1, <3>1
    <3> QED
      BY <1>1, <3>1, <3>2
  <2> QED
    BY <2>1, <2>2
<1>5. Append(moved, next) = [i \in 1..next |-> i]
  <2> DEFINE longer == Append(moved, next)
  <2>1. longer \in [1..next -> 1..MaxFiles]
    BY <1>2, LenProperties
  <2>2. \A i \in 1..next : longer[i] = i
    BY <1>4
  <2> HIDE DEF longer
  <2>3. longer = [i \in 1..next |-> i]
    BY <2>1, <2>2
  <2> QED
    BY <2>3 DEF longer
<1> QED
  BY <1>2, <1>5

\* What the invariant says of a callback that is to come.
LEMMA Pending ==
    ASSUME Inv, NEW c \in pending
    PROVE  /\ c \in Callback /\ c.arg \in Nat /\ busy /\ Fits(c) /\ c.current
           /\ running /\ work = "none"
<1>1. busy
  BY DEF Inv, OneChain
<1> QED
  BY <1>1 DEF Inv, Flags, OneChain, ViewHonest, Callback

\* A file has been read for upload.
LEMMA FileReadKeepsInv ==
    ASSUME Inv, NEW c \in pending, FileRead(c)
    PROVE  Inv'
<1>1. c \in Callback /\ c.arg \in Nat /\ busy /\ Fits(c) /\ ~restoreMode
  BY Pending DEF FileRead, Fits
<1>2. Data' /\ UNCHANGED request
  BY DEF FileRead, files, Inv, Data
<1>3. CASE \E result \in {"canceled", "failed"} : Finish(result) /\ Stop(c)
  BY <1>1, <1>2, <1>3, EndKeepsInv
<1>4. CASE Continue(c, Make("reply", "upload", c.arg)) /\ GoOn
  <2> DEFINE new == Make("reply", "upload", c.arg)
  <2>1. new \in Callback /\ new.current
    BY <1>1, Made
  <2>2. Fits(new)'
    BY <1>1, <1>4, Made DEF FileRead, Fits, GoOn, files, setting
  <2>3. InOrder'
    BY <1>4 DEF FileRead, GoOn, files, Inv, InOrder
  <2> HIDE DEF new
  <2> QED
    BY <1>1, <1>2, <1>4, <2>1, <2>2, <2>3, ContinueKeepsInv DEF new
<1> QED
  BY <1>3, <1>4 DEF FileRead

\* The next page of a listing is asked for, or the listing is given up.
LEMMA ListPageKeepsInv ==
    ASSUME Inv, NEW c \in pending, restoreMode,
           next = 0, moved = <<>>, next' = next, moved' = moved,
           NEW token \in Token, NEW seen \in SUBSET Token, ListPage(c, token, seen),
           UNCHANGED <<request, retryCount>>, total' \in total..MaxFiles
    PROVE  Inv'
<1>1. Data' /\ UNCHANGED request
  BY BoundAssumption DEF ListPage, Inv, Data
<1>2. CASE FinishRestore("failed") /\ Stop(c)
  BY <1>1, <1>2, EndKeepsInv
<1>3. CASE Continue(c, Make("reply", "list", token)) /\ GoOn
  <2> DEFINE new == Make("reply", "list", token)
  <2>1. new \in Callback /\ new.current
    BY Made DEF Token
  <2>2. Fits(new)'
    BY <1>3, Made DEF Token, Fits, GoOn, setting
  <2>3. InOrder'
    BY <1>3 DEF GoOn, Inv, InOrder
  <2>4. busy
    BY Pending
  <2> HIDE DEF new
  <2> QED
    BY <1>1, <1>3, <2>1, <2>2, <2>3, <2>4, ContinueKeepsInv DEF new
<1> QED
  BY <1>2, <1>3 DEF ListPage

\* The next file is asked for, or the download is over.
LEMMA RestoreNextKeepsInv ==
    ASSUME Inv, NEW c \in pending, restoreMode, ~cancelRequested,
           RestoreNext(c, total'), UNCHANGED request, pageTokens' = pageTokens,
           retryCount' \in 0..MaximumRetries, total' \in total..MaxFiles,
           moved' \in Seq(1..MaxFiles), Len(moved') = next,
           moved' = [i \in 1..next |-> i]
    PROVE  Inv'
<1>1. Data'
  BY BoundAssumption DEF RestoreNext, Inv, Data
<1>2. CASE \/ FinishRestore("failed") /\ Stop(c)
           \/ HandOver /\ Stop(c)
  BY <1>1, <1>2, EndKeepsInv
<1>3. CASE next' = next + 1 /\ Continue(c, Make("reply", "download", next + 1)) /\ GoOn
  <2>0. next \in Nat
    BY DEF Inv, Data
  <2>1. PICK new \in Callback :
           /\ new = Make("reply", "download", next + 1) /\ new.current
           /\ new.by = "reply" /\ new.does = "download" /\ new.arg = next + 1
    BY <2>0, Made
  <2>2. Fits(new)'
    BY <1>3, <2>0, <2>1 DEF Fits, GoOn, setting
  <2>3. InOrder'
    BY DEF InOrder
  <2>4. busy
    BY Pending
  <2> QED
    BY <1>1, <1>3, <2>1, <2>2, <2>3, <2>4, ContinueKeepsInv
<1> QED
  BY <1>2, <1>3 DEF RestoreNext

\* A listing, or a page of one, has been parsed.
LEMMA ListingParsedKeepsInv ==
    ASSUME Inv, NEW c \in pending, ListingParsed(c)
    PROVE  Inv'
<1>1. c \in Callback /\ Fits(c) /\ restoreMode /\ next = 0 /\ moved = <<>>
  BY Pending DEF ListingParsed, Fits
<1>2. CASE /\ \E result \in {"canceled", "failed"} : FinishRestore(result)
           /\ Stop(c) /\ UNCHANGED <<files, pageTokens>>
  <2>1. Data' /\ UNCHANGED request
    BY <1>2 DEF ListingParsed, files, Inv, Data
  <2> QED
    BY <1>2, <2>1, EndKeepsInv
<1>3. CASE /\ ~cancelRequested /\ total' \in total..MaxFiles
           /\ RestoreNext(c, total') /\ UNCHANGED <<moved, pageTokens>>
  <2>1. moved' = [i \in 1..next |-> i] /\ Len(moved') = next /\ moved' \in Seq(1..MaxFiles)
    BY <1>1, <1>3 DEF Inv, Data
  <2>2. UNCHANGED request /\ retryCount' \in 0..MaximumRetries
    BY DEF ListingParsed, Inv, Data
  <2> QED
    BY <1>1, <1>3, <2>1, <2>2, RestoreNextKeepsInv
<1>4. CASE /\ total' \in total..MaxFiles /\ UNCHANGED <<next, moved>>
           /\ \E token \in Token : ListPage(c, token, pageTokens)
  <2>1. pageTokens \in SUBSET Token
    BY DEF Inv, Data
  <2>2. UNCHANGED <<request, retryCount>>
    BY DEF ListingParsed
  <2> QED
    BY <1>1, <1>4, <2>1, <2>2, ListPageKeepsInv
<1> QED
  BY <1>2, <1>3, <1>4 DEF ListingParsed

\* The handlers of a reply find that the operation is canceled; also within
\* the step that cancels it.
LEMMA CanceledKeepsInv ==
    ASSUME Inv, NEW c \in pending, Canceled(c),
           \/ UNCHANGED request
           \/ cancelRequested' \in BOOLEAN /\ asked' \in BOOLEAN
    PROVE  Inv'
<1>1. Data'
  BY DEF Canceled, files, Inv, Data
<1>2. Stop(c) /\ ~running' /\ ((~restoreMode /\ Finish("canceled")) \/ FinishRestore("canceled"))
  BY DEF Canceled, FinishEither, Finish, FinishRestore, EndView
<1> QED
  BY <1>1, <1>2, EndKeepsInv

\* A reply has failed: its retry waits, or the operation is over.
LEMMA FailedKeepsInv ==
    ASSUME Inv, NEW c \in pending, c.by = "reply", NEW transient \in BOOLEAN,
           Failed(c, transient), UNCHANGED request
    PROVE  Inv'
<1>1. c \in Callback /\ c.arg \in Nat /\ busy /\ Fits(c)
  BY Pending
<1>2. Data'
  BY BoundAssumption DEF Failed, files, Inv, Data
<1>3. CASE FinishEither("failed") /\ Stop(c)
  BY <1>2, <1>3, EndKeepsInv DEF FinishEither
<1>4. CASE Continue(c, Make("timer", c.does, c.arg)) /\ GoOn
  <2> DEFINE new == Make("timer", c.does, c.arg)
  <2>1. c.does \in {"upload", "list", "download"}
    BY <1>1 DEF Fits, Callback
  <2>2. new \in Callback /\ new.current
    BY <1>1, <2>1, Made
  <2>3. Fits(new)'
    BY <1>1, <1>4, <2>1, Made DEF Failed, Fits, GoOn, files, setting
  <2>4. InOrder'
    BY <1>4 DEF Failed, GoOn, files, Inv, InOrder
  <2> HIDE DEF new
  <2> QED
    BY <1>1, <1>2, <1>4, <2>2, <2>3, <2>4, ContinueKeepsInv DEF new
<1> QED
  BY <1>3, <1>4 DEF Failed

\* A reply has succeeded.
LEMMA SucceededKeepsInv ==
    ASSUME Inv, NEW c \in pending, c.by = "reply", Succeeded(c),
           ~cancelRequested, UNCHANGED request
    PROVE  Inv'
<1>1. c \in Callback /\ c.arg \in Nat /\ busy /\ Fits(c)
  BY Pending
<1>2. retryCount' \in 0..MaximumRetries
  BY BoundAssumption DEF Succeeded
<1>3. CASE c.does = "upload" /\ moved' = Append(moved, c.arg) /\ UploadNext(c)
           /\ UNCHANGED <<total, pageTokens>>
  <2>1. c.arg = next /\ next # 0 /\ Len(moved) = next - 1 /\ ~restoreMode
    BY <1>1, <1>3 DEF Fits
  <2>2. /\ moved' \in Seq(1..MaxFiles) /\ Len(moved') = next
        /\ moved' = [i \in 1..next |-> i]
    BY <1>1, <1>3, <2>1, OneMoreMoved
  <2>3. Data'
    BY <1>2, <1>3, <2>2, BoundAssumption DEF UploadNext, Inv, Data
  <2>4. CASE Finish("done") /\ Stop(c)
    BY <2>1, <2>3, <2>4, EndKeepsInv
  <2>5. CASE next' = next + 1 /\ Continue(c, Make("worker", "read", next + 1)) /\ GoOn
    <3>1. next \in Nat
      BY DEF Inv, Data
    <3>2. PICK new \in Callback :
             /\ new = Make("worker", "read", next + 1) /\ new.current
             /\ new.by = "worker" /\ new.does = "read" /\ new.arg = next + 1
      BY <3>1, Made
    <3>3. Fits(new)'
      BY <2>1, <2>2, <2>5, <3>1, <3>2 DEF Fits, GoOn, setting
    <3>4. InOrder'
      BY <2>2 DEF InOrder
    <3> QED
      BY <1>1, <2>3, <2>5, <3>2, <3>3, <3>4, ContinueKeepsInv
  <2> QED
    BY <1>3, <2>4, <2>5 DEF UploadNext
<1>4. CASE /\ c.does = "list" /\ UNCHANGED <<files, pageTokens>>
           /\ Continue(c, Make("worker", "parse", c.arg)) /\ GoOn
  <2> DEFINE new == Make("worker", "parse", c.arg)
  <2>1. new \in Callback /\ new.current
    BY <1>1, Made
  <2>2. Fits(new)'
    BY <1>1, <1>4, Made DEF Fits, GoOn, files, setting
  <2>3. InOrder' /\ Data'
    BY <1>2, <1>4 DEF GoOn, files, Inv, InOrder, Data
  <2> HIDE DEF new
  <2> QED
    BY <1>1, <1>4, <2>1, <2>2, <2>3, ContinueKeepsInv DEF new
<1>5. CASE /\ c.does = "download" /\ moved' = Append(moved, c.arg) /\ RestoreNext(c, total)
           /\ UNCHANGED <<total, pageTokens>>
  <2>1. c.arg = next /\ next # 0 /\ Len(moved) = next - 1 /\ restoreMode
    BY <1>1, <1>5 DEF Fits
  <2>2. /\ moved' \in Seq(1..MaxFiles) /\ Len(moved') = next
        /\ moved' = [i \in 1..next |-> i]
    BY <1>1, <1>5, <2>1, OneMoreMoved
  <2>3. RestoreNext(c, total') /\ total' \in total..MaxFiles
    BY <1>5 DEF Inv, Data
  <2> QED
    BY <1>2, <1>5, <2>1, <2>2, <2>3, RestoreNextKeepsInv
<1>6. CASE FinishRestore("failed") /\ Stop(c) /\ UNCHANGED <<files, pageTokens>>
  <2>1. Data'
    BY <1>2, <1>6 DEF files, Inv, Data
  <2> QED
    BY <1>6, <2>1, EndKeepsInv
<1> QED
  BY <1>3, <1>4, <1>5, <1>6 DEF Succeeded

\* The timer of a retry has fired.
LEMMA RetryTimerKeepsInv ==
    ASSUME Inv, NEW c \in pending, RetryTimer(c)
    PROVE  Inv'
<1>1. c \in Callback /\ c.arg \in Nat /\ busy /\ c.current /\ Fits(c)
  BY Pending
<1>2. UNCHANGED <<request, retryCount, total, next, moved>>
  BY DEF RetryTimer, files
<1>3. c.does \in {"upload", "list", "download"}
  BY <1>1 DEF RetryTimer, Fits, Callback
<1>4. CASE FinishEither("canceled") /\ Stop(c) /\ UNCHANGED pageTokens
  <2>1. Data'
    BY <1>2, <1>4 DEF Inv, Data
  <2> QED
    BY <1>2, <1>4, <2>1, EndKeepsInv DEF FinishEither
<1>5. CASE c.does = "list" /\ ListPage(c, c.arg, pageTokens \ {c.arg})
  <2>1. restoreMode /\ next = 0 /\ moved = <<>> /\ c.arg \in Token
    BY <1>1, <1>5 DEF Fits
  <2>2. pageTokens \ {c.arg} \in SUBSET Token /\ total' \in total..MaxFiles
    BY <1>2 DEF Inv, Data
  <2> QED
    BY <1>2, <1>5, <2>1, <2>2, ListPageKeepsInv
<1>6. CASE Continue(c, Make("reply", c.does, c.arg)) /\ GoOn /\ UNCHANGED pageTokens
  <2> DEFINE new == Make("reply", c.does, c.arg)
  <2>1. new \in Callback /\ new.current
    BY <1>1, <1>3, Made
  <2>2. Fits(new)'
    BY <1>1, <1>2, <1>3, <1>6, Made DEF Fits, GoOn, setting
  <2>3. InOrder' /\ Data'
    BY <1>2, <1>6 DEF GoOn, Inv, InOrder, Data
  <2> HIDE DEF new
  <2> QED
    BY <1>1, <1>2, <1>6, <2>1, <2>2, <2>3, ContinueKeepsInv DEF new
<1> QED
  BY <1>1, <1>4, <1>5, <1>6 DEF RetryTimer

-----------------------------------------------------------------------------
(* The operations of the view model preserve the invariant *)

\* Everything the invariant says, for the steps that touch little of it.
LEMMA OperationKeepsInv ==
    ASSUME Inv, \/ \E place \in {"local", "remote"} : Backup(place)
                \/ RestoreLocal \/ RestoreRefused \/ CopyDone \/ ImportDone
    PROVE  Inv'
<1> USE DEF ServiceUnchanged, setting, files, staging, EndView
<1>1. ServiceUnchanged /\ ~busy
  <2>1. ~running => ~busy
    BY DEF Inv, ViewHonest
  <2>2. work # "none" => ~busy
    BY DEF Inv, ViewHonest
  <2> QED
    BY <2>1, <2>2 DEF Backup, RestoreLocal, RestoreRefused, CopyDone, ImportDone
<1>2. Data' /\ OneChain' /\ InOrder' /\ \A c \in pending' : Fits(c)'
  BY <1>1 DEF Inv, Data, OneChain, InOrder
<1>3. Flags' /\ ViewHonest' /\ Staged' /\ Told'
  <2>0. /\ restorePath = NoDir /\ existing = {importing} \ {NoDir}
        /\ work # "import" => importing = NoDir /\ existing = {}
        /\ ~running => work = "none"
    BY <1>1 DEF Inv, ViewHonest, Staged
  <2> USE <2>0 DEF Inv, Flags, ViewHonest, Staged, Told
  <2>1. CASE \E place \in {"local", "remote"} : Backup(place)
    BY <1>1, <2>1 DEF Backup
  <2>2. CASE RestoreLocal
    <3> USE <1>1, <2>2 DEF RestoreLocal
    <3>1. Flags'
      OBVIOUS
    <3>2. ViewHonest'
      OBVIOUS
    <3>3. Staged'
      OBVIOUS
    <3>4. Told'
      OBVIOUS
    <3> QED
      BY <3>1, <3>2, <3>3, <3>4
  <2>3. CASE RestoreRefused
    <3> USE <1>1, <2>3 DEF RestoreRefused
    <3>1. Flags'
      OBVIOUS
    <3>2. ViewHonest'
      OBVIOUS
    <3>3. Staged'
      OBVIOUS
    <3>4. Told'
      OBVIOUS
    <3> QED
      BY <3>1, <3>2, <3>3, <3>4
  <2>4. CASE CopyDone
    <3> USE <1>1, <2>4 DEF CopyDone
    <3>1. Flags'
      OBVIOUS
    <3>2. ViewHonest'
      OBVIOUS
    <3>3. Staged'
      OBVIOUS
    <3>4. Told'
      OBVIOUS
    <3> QED
      BY <3>1, <3>2, <3>3, <3>4
  <2>5. CASE ImportDone
    <3> USE <1>1, <2>5, NoDirAssumption DEF ImportDone
    <3>1. Flags'
      OBVIOUS
    <3>2. ViewHonest'
      OBVIOUS
    <3>3. Staged'
      OBVIOUS
    <3>4. Told'
      OBVIOUS
    <3> QED
      BY <3>1, <3>2, <3>3, <3>4
  <2> QED
    BY <2>1, <2>2, <2>3, <2>4, <2>5
<1> QED
  BY <1>2, <1>3 DEF Inv

\* The service starts with one callback to come.
LEMMA BeginKeepsChain ==
    ASSUME Inv, NEW restoring \in BOOLEAN, NEW onS3 \in BOOLEAN,
           NEW new \in Callback, new.current, BeginService(restoring, onS3, new)
    PROVE  /\ OneChain' /\ pending' = {new} /\ activeReply' \subseteq Callback
           /\ ~busy /\ pending = {}
<1>1. ~busy /\ busy'
  BY DEF BeginService
<1>2. pending = {} /\ activeReply = {}
  BY <1>1 DEF Inv, OneChain
<1>3. pending' = {new}
  BY <1>2 DEF BeginService, Begin
<1>4. activeReply' = {c \in pending' : c.by = "reply"}
  BY <1>2, <1>3 DEF BeginService, Begin
<1> QED
  BY <1>1, <1>2, <1>3, <1>4 DEF OneChain

\* The scan of the packages is over.
LEMMA ScanDoneKeepsInv == ASSUME Inv, ScanDone PROVE Inv'
<1>1. work \in {"scanLocal", "scanRemote"} /\ ~busy /\ running /\ importing = NoDir /\ ~asked
  BY DEF ScanDone, Inv, ViewHonest, Staged, Told
<1>2. CASE /\ ServiceUnchanged
           /\ \/ EndView("failed") /\ work' = "none"
              \/ work' = "copy" /\ UNCHANGED <<running, cancelable, importing, outcome>>
  <2> USE DEF setting, files, staging
  <2>1. Data' /\ OneChain' /\ InOrder' /\ \A c \in pending' : Fits(c)'
    BY <1>1, <1>2 DEF ServiceUnchanged, Inv, Data, OneChain, InOrder
  <2>2. Flags' /\ ViewHonest' /\ Staged' /\ Told'
    <3>1. /\ busy' = busy /\ cancelRequested' = cancelRequested /\ asked' = asked
          /\ restoreMode' = restoreMode /\ importing' = importing
          /\ UNCHANGED <<restorePath, restoreCleanupPath, existing>>
      BY <1>2 DEF ScanDone, ServiceUnchanged, EndView
    <3>2. \/ ~running' /\ ~cancelable' /\ work' = "none"
          \/ running' /\ ~cancelable' /\ work' = "copy"
      BY <1>1, <1>2 DEF EndView, Inv, ViewHonest
    <3>3. Flags'
      BY <1>1, <1>2, <3>1 DEF ServiceUnchanged, EndView, Inv, Flags
    <3>4. ViewHonest'
      BY <1>1, <3>1, <3>2 DEF ViewHonest
    <3>5. Staged' /\ Told'
      BY <1>1, <3>1, <3>2 DEF Inv, Staged, Told
    <3> QED
      BY <3>3, <3>4, <3>5
  <2> QED
    BY <2>1, <2>2 DEF Inv
<1>3. CASE /\ work' = "none" /\ cancelable' = TRUE /\ UNCHANGED <<running, importing, outcome>>
           /\ total' \in 1..MaxFiles /\ next' = 1
           /\ \E onS3 \in BOOLEAN : BeginService(FALSE, onS3, Make("worker", "read", 1))
           /\ UNCHANGED pageTokens
  <2>1. PICK onS3 \in BOOLEAN : BeginService(FALSE, onS3, Make("worker", "read", 1))
    BY <1>3
  <2> DEFINE new == Make("worker", "read", 1)
  <2>2. new \in Callback /\ new.current /\ new.by = "worker" /\ new.does = "read" /\ new.arg = 1
    BY Made
  <2> HIDE DEF new
  <2>3. OneChain' /\ pending' = {new} /\ activeReply' \subseteq Callback /\ ~busy
    BY <2>1, <2>2, BeginKeepsChain DEF new
  <2>4. /\ busy' = TRUE /\ cancelRequested' = FALSE /\ retryCount' = 0
        /\ restoreMode' = FALSE /\ s3' = onS3 /\ moved' = <<>>
    BY <2>1 DEF BeginService
  <2>5. Data'
    BY <1>3, <2>4, BoundAssumption DEF Inv, Data
  <2>6. \A c \in pending' : Fits(c)'
    BY <1>3, <2>2, <2>3, <2>4 DEF Fits
  <2>7. InOrder'
    BY <2>4 DEF InOrder
  <2>8. Flags' /\ ViewHonest' /\ Staged' /\ Told'
    BY <1>1, <1>3, <2>2, <2>3, <2>4 DEF ScanDone, staging, Inv, Flags, ViewHonest, Staged, Told
  <2> QED
    BY <2>3, <2>5, <2>6, <2>7, <2>8 DEF Inv
<1> QED
  BY <1>2, <1>3 DEF ScanDone

\* A restore from a server starts.
LEMMA RestoreRemoteKeepsInv == ASSUME Inv, RestoreRemote PROVE Inv'
<1>1. PICK onS3 \in BOOLEAN :
         /\ BeginService(TRUE, onS3, Make("reply", "list", 0))
         /\ pageTokens' = IF onS3 THEN {0} ELSE pageTokens
  BY DEF RestoreRemote
<1> DEFINE new == Make("reply", "list", 0)
<1>2. new \in Callback /\ new.current /\ new.by = "reply" /\ new.does = "list" /\ new.arg = 0
  BY Made
<1> HIDE DEF new
<1>3. OneChain' /\ pending' = {new} /\ activeReply' \subseteq Callback /\ ~busy
  BY <1>1, <1>2, BeginKeepsChain DEF new
<1>4. /\ busy' = TRUE /\ cancelRequested' = FALSE /\ retryCount' = 0
      /\ restoreMode' = TRUE /\ s3' = onS3 /\ moved' = <<>>
  BY <1>1 DEF BeginService
<1>5. 0 \in Token
  BY BoundAssumption DEF Token
<1>6. Data'
  BY <1>1, <1>4, <1>5, BoundAssumption DEF RestoreRemote, Inv, Data
<1>7. \A c \in pending' : Fits(c)'
  BY <1>2, <1>3, <1>4, <1>5 DEF RestoreRemote, Fits
<1>8. InOrder'
  BY <1>4 DEF InOrder
<1>9. work = "none" /\ importing = NoDir /\ restorePath = NoDir /\ existing = {}
  BY <1>3 DEF RestoreRemote, Inv, ViewHonest, Staged
<1>10. Flags' /\ ViewHonest' /\ Told'
  BY <1>2, <1>3, <1>4, <1>9 DEF RestoreRemote, Inv, Flags, ViewHonest, Told
<1>11. Staged'
  BY <1>4, <1>9, NoDirAssumption DEF RestoreRemote, Inv, Staged
<1> QED
  BY <1>3, <1>6, <1>7, <1>8, <1>10, <1>11 DEF Inv

\* A restore ends for want of a directory.
LEMMA NoRestoreDirectoryKeepsInv == ASSUME Inv, NoRestoreDirectory PROVE Inv'
<1> USE DEF NoRestoreDirectory
<1>1. ~busy /\ pending = {} /\ activeReply = {} /\ work = "none" /\ importing = NoDir
  BY DEF Inv, OneChain, ViewHonest, Staged
<1>2. Data' /\ OneChain' /\ InOrder' /\ \A c \in pending' : Fits(c)'
  BY <1>1, BoundAssumption DEF Inv, Data, OneChain, InOrder
<1>3. Flags' /\ ViewHonest' /\ Staged' /\ Told'
  BY <1>1 DEF Inv, Flags, ViewHonest, Staged, Told
<1> QED
  BY <1>2, <1>3 DEF Inv

\* The user cancels.
LEMMA CancelKeepsInv == ASSUME Inv, Cancel PROVE Inv'
<1>1. CASE \E c \in activeReply : Canceled(c)
  <2>1. PICK c \in activeReply : Canceled(c)
    BY <1>1
  <2>2. c \in pending
    BY DEF Inv, OneChain
  <2> QED
    BY <2>1, <2>2, CanceledKeepsInv DEF Cancel
<1>2. CASE UNCHANGED <<running, work, importing, outcome, busy, setting, retryCount,
                       pending, activeReply, files, pageTokens, staging>>
  <2> USE DEF setting, files, staging
  <2>1. Data' /\ OneChain' /\ InOrder' /\ \A c \in pending' : Fits(c)'
    BY <1>2 DEF Inv, Data, OneChain, InOrder, Fits
  <2>2. (busy /\ cancelable' = FALSE) \/ \E c \in activeReply : Canceled(c)
    BY DEF Cancel, Inv, ViewHonest
  <2>3. CASE busy /\ cancelable' = FALSE
    <3>1. Flags' /\ ViewHonest' /\ Staged' /\ Told'
      BY <1>2, <2>3 DEF Cancel, Inv, Flags, ViewHonest, Staged, Told
    <3> QED
      BY <2>1, <3>1 DEF Inv
  <2> QED
    BY <1>1, <2>2, <2>3
<1> QED
  BY <1>1, <1>2 DEF Cancel

-----------------------------------------------------------------------------
(* Safety *)

\* The invariant holds of a program that has just started.
LEMMA InvInit == Init => Inv
<1> SUFFICES ASSUME Init PROVE Inv
  OBVIOUS
<1>1. Data
  BY BoundAssumption, EmptySeq DEF Init, Data
<1>2. Flags /\ OneChain /\ ViewHonest /\ Staged /\ Told
  BY DEF Init, Flags, OneChain, ViewHonest, Staged, Told
<1> QED
  BY <1>1, <1>2 DEF Init, Inv, InOrder

\* Every command and every callback preserves it.
LEMMA InvNext == Inv /\ [Next]_vars => Inv'
<1> SUFFICES ASSUME Inv, [Next]_vars PROVE Inv'
  OBVIOUS
<1>1. CASE Command
  BY <1>1, OperationKeepsInv, RestoreRemoteKeepsInv, NoRestoreDirectoryKeepsInv,
     CancelKeepsInv DEF Command
<1>2. CASE ServiceStep
  <2>1. PICK c \in pending : FileRead(c) \/ ListingParsed(c) \/ ReplyFinished(c) \/ RetryTimer(c)
    BY <1>2 DEF ServiceStep
  <2>2. CASE ReplyFinished(c)
    BY <2>2, CanceledKeepsInv, FailedKeepsInv, SucceededKeepsInv DEF ReplyFinished
  <2> QED
    BY <2>1, <2>2, FileReadKeepsInv, ListingParsedKeepsInv, RetryTimerKeepsInv
<1>3. CASE ScanDone \/ CopyDone \/ ImportDone
  BY <1>3, ScanDoneKeepsInv, OperationKeepsInv
<1>4. CASE UNCHANGED vars
  <2> USE <1>4 DEF vars, view, request, setting, files, staging
  <2>1. Data' /\ Flags' /\ OneChain' /\ ViewHonest'
    BY DEF Inv, Data, Flags, OneChain, ViewHonest
  <2>2. InOrder' /\ Staged' /\ Told' /\ \A c \in pending' : Fits(c)'
    BY DEF Inv, InOrder, Staged, Told, Fits
  <2> QED
    BY <2>1, <2>2 DEF Inv
<1> QED
  BY <1>1, <1>2, <1>3, <1>4 DEF Next

\* The invariant holds throughout.
LEMMA Safety == Spec => []Inv
BY InvInit, InvNext, PTL DEF Spec

\* Every variable keeps its type, and what counts files stays within the files
\* of the operation.
THEOREM TypeCorrect == Spec => []TypeOK
<1>1. Inv => TypeOK
  BY DEF Inv, Data, Flags, TypeOK
<1> QED
  BY <1>1, Safety, PTL

\* While the service runs, exactly one callback of this operation is to come;
\* otherwise none is (the chain of uploadNext, restoreNext and retryReply).
THEOREM ServiceIsOneChain == Spec => []OneChain
<1>1. Inv => OneChain
  BY DEF Inv
<1> QED
  BY <1>1, Safety, PTL

\* The interface shows and offers what the service does (m_tsslBackupRunning
\* and m_tsslBackupCancelable against isRunning()).
THEOREM ViewIsHonest == Spec => []ViewHonest
<1>1. Inv => ViewHonest
  BY DEF Inv
<1> QED
  BY <1>1, Safety, PTL

\* Downloaded packages stay until they are imported, and no longer.
THEOREM StagingIsSafe == Spec => []StagingSafe
<1>1. Inv => StagingSafe
  BY DEF Inv, Flags, Staged, StagingSafe
<1> QED
  BY <1>1, Safety, PTL

-----------------------------------------------------------------------------
(* What a step of the service does to the operation *)

Step(c) == FileRead(c) \/ ListingParsed(c) \/ ReplyFinished(c) \/ RetryTimer(c)

\* The operation goes on, or it ends: canceled exactly when the service was told.
OperationGoesOnOrEnds ==
    /\ asked' = asked
    /\ \/ running' = running /\ outcome' = outcome
       \/ /\ ~running'
          /\ IF cancelRequested THEN outcome' = "canceled" ELSE outcome' \in {"done", "failed"}

\* Every step of the service ends the operation truthfully or goes on with it.
LEMMA StepEnds == ASSUME Inv, NEW c \in pending, Step(c) PROVE OperationGoesOnOrEnds
<1> USE DEF OperationGoesOnOrEnds, request, Finish, FinishRestore, FinishEither, HandOver,
            EndView, GoOn, view
<1>1. CASE FileRead(c)
  BY <1>1 DEF FileRead
<1>2. CASE ListingParsed(c)
  BY <1>2 DEF ListingParsed, RestoreNext, ListPage
<1>3. CASE ReplyFinished(c)
  <2>1. CASE cancelRequested
    BY <1>3, <2>1 DEF ReplyFinished, Canceled
  <2>2. CASE ~cancelRequested /\ Succeeded(c)
    BY <1>3, <2>2 DEF ReplyFinished, Succeeded, UploadNext, RestoreNext
  <2>3. CASE ~cancelRequested /\ \E transient \in BOOLEAN : Failed(c, transient)
    BY <1>3, <2>3 DEF ReplyFinished, Failed
  <2> QED
    BY <1>3, <2>1, <2>2, <2>3 DEF ReplyFinished
<1>4. CASE RetryTimer(c)
  BY <1>4 DEF RetryTimer, ListPage
<1> QED
  BY <1>1, <1>2, <1>3, <1>4 DEF Step

\* A canceled operation makes no request: all that is left to do is to end.
LEMMA CanceledStepStops ==
    ASSUME Inv, NEW c \in pending, Step(c), cancelRequested
    PROVE  pending' \subseteq pending
<1>1. Stop(c)
  <2>1. busy /\ c.current
    BY Pending
  <2>2. CASE RetryTimer(c)
    BY <2>1, <2>2 DEF RetryTimer
  <2> QED
    BY <2>2 DEF Step, FileRead, ListingParsed, ReplyFinished, Canceled
<1> QED
  BY <1>1 DEF Stop

\* Only the last file completes an operation.
LEMMA StepCompletes ==
    ASSUME Inv, NEW c \in pending, Step(c), ~busy', outcome' = "done" \/ work' = "import"
    PROVE  moved' = [i \in 1..total' |-> i]
<1> USE DEF Finish, FinishRestore, FinishEither, HandOver, EndView, GoOn
<1>1. busy /\ work = "none" /\ Fits(c)
  BY Pending
<1>2. ~FileRead(c)
  BY <1>1 DEF FileRead
<1>3. ~RetryTimer(c)
  BY <1>1 DEF RetryTimer, ListPage
<1>4. ~ListingParsed(c)
  <2> SUFFICES ASSUME ListingParsed(c) PROVE FALSE
    OBVIOUS
  <2>1. next = 0
    BY <1>1 DEF ListingParsed, Fits
  <2>2. PICK n \in total..MaxFiles : RestoreNext(c, n)
    BY <1>1 DEF ListingParsed, ListPage
  <2>3. n \in Nat
    BY <2>2, BoundAssumption DEF Inv, Data
  <2>4. ~FinishRestore("failed") /\ ~GoOn
    BY <1>1
  <2> HIDE DEF FinishRestore, GoOn, HandOver
  <2> QED
    BY <2>1, <2>2, <2>3, <2>4 DEF RestoreNext
<1>5. CASE ReplyFinished(c)
  <2>1. Succeeded(c)
    BY <1>1, <1>5 DEF ReplyFinished, Canceled, Failed
  <2>2. c.does \in {"upload", "download"} /\ moved' = Append(moved, c.arg) /\ total' = total
    BY <1>1, <2>1 DEF Succeeded
  <2>3. c.arg = next /\ next # 0 /\ Len(moved) = next - 1
    BY <1>1, <2>2 DEF Fits
  <2>4. next = total
    <3>1. next >= total
      BY <1>1, <2>1 DEF Succeeded, UploadNext, RestoreNext
    <3> QED
      BY <3>1, BoundAssumption DEF Inv, Data
  <2> QED
    BY <1>1, <2>2, <2>3, <2>4, OneMoreMoved
<1> QED
  BY <1>2, <1>3, <1>4, <1>5 DEF Step

\* Success is complete: a service operation that succeeds has moved every file
\* once and in order (uploadNext, restoreNext and the retries between them).
THEOREM SuccessIsComplete == Spec => CompleteSuccess
<1>1. ASSUME Inv, [Next]_vars, busy, ~busy', outcome' = "done" \/ work' = "import"
      PROVE  moved' = [i \in 1..total' |-> i]
  <2>1. work = "none" /\ running
    BY <1>1 DEF Inv, ViewHonest
  <2>2. ~Command
    <3> USE <1>1, <2>1
    <3>1. ~Cancel
      BY DEF Cancel, Canceled, FinishEither, Finish, FinishRestore, EndView
    <3> QED
      BY <3>1 DEF Command, Backup, RestoreLocal, RestoreRemote, RestoreRefused, NoRestoreDirectory
  <2>3. ~UNCHANGED vars /\ ~ScanDone /\ ~CopyDone /\ ~ImportDone
    BY <1>1, <2>1 DEF vars, ScanDone, CopyDone, ImportDone
  <2>4. PICK c \in pending : Step(c)
    BY <1>1, <2>2, <2>3 DEF Next, ServiceStep, Step
  <2> QED
    BY <1>1, <2>4, StepCompletes
<1> QED
  BY <1>1, Safety, PTL DEF Spec, CompleteSuccess

\* Once a cancellation is accepted, no further request is made.
THEOREM CancellationStopsRequests == Spec => CancelStopsRequests
<1>1. ASSUME Inv, [Next]_vars, cancelRequested, cancelRequested'
      PROVE  \A c \in pending' : c.by = "reply" => c \in pending
  <2>1. CASE ServiceStep
    BY <1>1, <2>1, CanceledStepStops DEF ServiceStep, Step
  <2>2. CASE Command
    BY <1>1, <2>2 DEF Command, Backup, RestoreLocal, RestoreRemote, RestoreRefused,
       NoRestoreDirectory, Cancel, Canceled, Stop, ServiceUnchanged, BeginService
  <2>3. CASE ScanDone \/ CopyDone \/ ImportDone \/ UNCHANGED vars
    BY <1>1, <2>3 DEF ScanDone, CopyDone, ImportDone, ServiceUnchanged, BeginService, vars
  <2> QED
    BY <1>1, <2>1, <2>2, <2>3 DEF Next
<1> QED
  BY <1>1, Safety, PTL DEF Spec, CancelStopsRequests

\* The backup implements CancelableOperation: the user is told one outcome of
\* every operation, and "canceled" exactly when a cancellation was accepted.
THEOREM ImplementsOperation == Spec => OneOutcome
<1>1. Init => Operation!Init
  BY DEF Init, Operation!Init
<1>2. ASSUME Inv, [Next]_vars
      PROVE  [Operation!Next]_Operation!vars
  <2> USE DEF Operation!Next, Operation!Start, Operation!Refuse, Operation!Cancel,
              Operation!End, Operation!vars
  <2>1. CASE ServiceStep
    <3>1. PICK c \in pending : Step(c)
      BY <2>1 DEF ServiceStep, Step
    <3>2. running /\ (asked <=> cancelRequested)
      BY <1>2, Pending DEF Inv, Told
    <3>3. OperationGoesOnOrEnds
      BY <1>2, <3>1, StepEnds
    <3> QED
      BY <3>2, <3>3 DEF OperationGoesOnOrEnds
  <2>2. CASE Command
    <3>1. CASE Cancel
      <4>1. running /\ ~asked /\ asked'
        BY <1>2, <3>1 DEF Cancel, Inv, ViewHonest, Told
      <4>2. (running' /\ outcome' = outcome) \/ (~running' /\ outcome' = "canceled")
        BY <4>1, <3>1 DEF Cancel, Canceled, FinishEither, Finish, FinishRestore, EndView
      <4> QED
        BY <4>1, <4>2
    <3>2. CASE \/ \E place \in {"local", "remote"} : Backup(place)
               \/ RestoreLocal \/ RestoreRemote
      BY <3>2 DEF Backup, RestoreLocal, RestoreRemote
    <3>3. CASE RestoreRefused \/ NoRestoreDirectory
      BY <3>3 DEF RestoreRefused, NoRestoreDirectory
    <3> QED
      BY <2>2, <3>1, <3>2, <3>3 DEF Command
  <2>3. CASE ScanDone \/ CopyDone \/ ImportDone
    <3>1. running /\ ~asked /\ asked' = asked
      BY <1>2, <2>3 DEF ScanDone, CopyDone, ImportDone, ServiceUnchanged, Inv, ViewHonest, Told
    <3>2. \/ running' = running /\ outcome' = outcome
          \/ ~running' /\ outcome' \in {"done", "failed"}
      BY <2>3 DEF ScanDone, CopyDone, ImportDone, EndView
    <3> QED
      BY <3>1, <3>2
  <2>4. CASE UNCHANGED vars
    BY <2>4 DEF vars, view, request
  <2> QED
    BY <1>2, <2>1, <2>2, <2>3, <2>4 DEF Next
<1> QED
  BY <1>1, <1>2, Safety, PTL DEF Spec, OneOutcome, Operation!Spec
=============================================================================
