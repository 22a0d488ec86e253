------------------------ MODULE ScheduledPlaybackProofs ------------------------
(***************************************************************************)
(* Proofs about the keep-alive runner, for every set of tasks, duration,   *)
(* length of the items and number of candidates and failures.              *)
(*                                                                         *)
(* The invariant says of the record run, and of the foreground flag alone, *)
(* nearly everything; a lemma per helper shows that it makes a good record *)
(* from a good one.                                                        *)
(***************************************************************************)
EXTENDS ScheduledPlayback, SubsequenceLemmas

Run == [current : Task \cup {NoTask}, pending : Task \cup {NoTask},
        resume : BOOLEAN, status : Status, item : {"none", "loading", "started"},
        ignoreEnd : BOOLEAN, candidates : Nat, failures : Nat, completed : Nat,
        fresh : [Request -> Nat], stale : SUBSET Request]

Mpv == [entry : {"idle", "loading", "playing"}, position : Nat, events : Seq(Event)]

Active(r) == r.status \in {"waiting", "starting", "playing"}
Unanswered(r) == r.fresh["candidates"] + r.fresh["url"]
Silent(r) == r.item = "none" /\ Unanswered(r) = 0

\* What holds of the run r while the foreground flag is fg.
Good(r, fg) ==
    /\ r \in Run
    /\ Active(r) <=> ~Idle(r)
    /\ r.current = NoTask \/ r.pending = NoTask
    /\ fg => r.item = "none"
    /\ r.status = "waiting" \/ r.pending # NoTask => fg
    /\ r.resume <=> fg /\ r.current # NoTask
    /\ Unanswered(r) <= 1
    /\ r.item # "none" => Unanswered(r) = 0
    /\ r.current # NoTask /\ ~fg => (r.item # "none" <=> Unanswered(r) = 0)
    /\ r.current = NoTask => Silent(r)

\* A run that can be taken up.
Free(r) == r \in Run /\ Idle(r) /\ ~r.resume /\ Silent(r)

\* A run that has nothing under way and looks for its next item.
Searching(r) ==
    /\ r \in Run
    /\ r.current # NoTask /\ r.pending = NoTask
    /\ Silent(r)
    /\ r.resume = foreground
    /\ ~foreground => r.status \in {"starting", "playing"}

Elements(q) == {q[i] : i \in DOMAIN q}

Served(q, r, w) == q # <<>> /\ Idle(r) => w

\* The tasks the runner and its queue hold.
Held(q, r) == Elements(q) \cup ({r.current, r.pending} \ {NoTask})

\* Outside private mode, neither the list nor the runner holds a private task.
Discreet ==
    ~ReadsFail /\ ~privacy => (listed \cup Held(queue, run)) \cap private = {}

\* The inductive invariant.
Inv ==
    /\ saved \subseteq Task
    /\ automatic \subseteq saved
    /\ private \subseteq Task
    /\ listed \subseteq Task
    /\ privacy \in BOOLEAN /\ foreground \in BOOLEAN /\ wake \in BOOLEAN
    /\ queue \in Seq(Task)
    /\ mpv \in Mpv
    /\ Good(run, foreground)
    /\ Served(queue, run, wake)
    /\ Discreet

USE TaskAssumption, NumberAssumption, FlagAssumption DEF Request, Status, Event

-----------------------------------------------------------------------------
(* The helpers on records *)

\* s is the run r, apart from its requests and the item it plays.
SameRun(s, r) ==
    /\ s \in Run
    /\ s.current = r.current /\ s.pending = r.pending
    /\ s.resume = r.resume /\ s.status = r.status

LEMMA NewGenerationRun ==
    ASSUME NEW r \in Run
    PROVE  /\ SameRun(NewGeneration(r), r)
           /\ NewGeneration(r).fresh = [k \in Request |-> 0]
           /\ NewGeneration(r).item = r.item
BY DEF NewGeneration, Run, SameRun

LEMMA FetchingRun ==
    ASSUME NEW r \in Run
    PROVE  /\ SameRun(Fetching(r), r)
           /\ Unanswered(Fetching(r)) = 1
           /\ Fetching(r).item = r.item
<1> DEFINE n == NewGeneration(r)
           none == [k \in Request |-> 0]
           one == [none EXCEPT !["candidates"] = 1]
<1>1. SameRun(n, r) /\ n.fresh = none /\ n.item = r.item
  BY NewGenerationRun
<1>2. one \in [Request -> Nat] /\ one["candidates"] = 1 /\ one["url"] = 0
  OBVIOUS
<1>3. Fetching(r) = [n EXCEPT !.fresh = one]
  BY <1>1 DEF Fetching, Run, SameRun
<1> HIDE DEF n, one, none
<1>4. [n EXCEPT !.fresh = one] \in Run
  BY <1>1, <1>2 DEF Run, SameRun
<1> QED
  BY <1>1, <1>2, <1>3, <1>4 DEF Unanswered, Run, SameRun

LEMMA ItemStoppedRun ==
    ASSUME NEW r \in Run, NEW credit \in Nat
    PROVE  /\ SameRun(ItemStopped(r, credit), r)
           /\ ItemStopped(r, credit).item = "none"
           /\ ItemStopped(r, credit).fresh = r.fresh
<1> DEFINE s == [r EXCEPT !.item = "none", !.ignoreEnd = TRUE, !.completed = @ + credit]
<1>1. r.completed + credit \in Nat
  BY DEF Run
<1>2. s \in Run
  BY <1>1 DEF Run
<1>3. SameRun(s, r) /\ s.item = "none" /\ s.fresh = r.fresh
  BY <1>2 DEF Run, SameRun
<1>4. SameRun(r, r)
  BY DEF SameRun
<1> HIDE DEF s
<1> QED
  BY <1>3, <1>4 DEF ItemStopped, s

\* A run whose item is stopped and whose requests are given up.
LEMMA GivenUpRun ==
    ASSUME NEW r \in Run
    PROVE  /\ SameRun(ItemStopped(NewGeneration(r), 0), r)
           /\ Silent(ItemStopped(NewGeneration(r), 0))
<1> DEFINE n == NewGeneration(r)
<1>1. SameRun(n, r) /\ Unanswered(n) = 0
  BY NewGenerationRun DEF Unanswered
<1>2. /\ SameRun(ItemStopped(n, 0), n) /\ ItemStopped(n, 0).item = "none"
      /\ ItemStopped(n, 0).fresh = n.fresh
  BY <1>1, ItemStoppedRun DEF SameRun
<1> HIDE DEF n
<1>3. SameRun(ItemStopped(n, 0), r) /\ Silent(ItemStopped(n, 0))
  BY <1>1, <1>2 DEF SameRun, Silent, Unanswered
<1> QED
  BY <1>3 DEF n

LEMMA OverGood ==
    ASSUME NEW r \in Run, r.pending = NoTask, NEW s \in {"completed", "error"}, NEW fg \in BOOLEAN
    PROVE  Good(Over(r, s), fg) /\ Idle(Over(r, s))
<1> DEFINE g == ItemStopped(NewGeneration(r), 0)
           o == [g EXCEPT !.current = NoTask, !.resume = FALSE, !.status = s,
                          !.completed = IF s = "completed" THEN Target ELSE @]
<1>1. g \in Run /\ g.pending = NoTask /\ Silent(g)
  BY GivenUpRun DEF SameRun
<1>2. Over(r, s) = o
  BY DEF Over
<1> HIDE DEF g
<1>3. o \in Run
  BY <1>1 DEF Run
<1>4. /\ o.current = NoTask /\ o.pending = NoTask /\ o.resume = FALSE /\ o.status = s
      /\ o.item = "none" /\ o.fresh = g.fresh
  BY <1>1 DEF Run, Silent
<1> HIDE DEF o
<1> QED
  BY <1>1, <1>2, <1>3, <1>4 DEF Good, Idle, Active, Unanswered, Silent

LEMMA HaltedGood ==
    ASSUME NEW r \in Run, NEW fg \in BOOLEAN
    PROVE  Good(Halted(r), fg) /\ Idle(Halted(r))
<1> DEFINE g == ItemStopped(NewGeneration(r), 0)
           o == [g EXCEPT !.current = NoTask, !.pending = NoTask, !.resume = FALSE,
                          !.status = "idle", !.candidates = 0, !.completed = 0, !.failures = 0]
<1>1. g \in Run /\ Silent(g)
  BY GivenUpRun DEF SameRun
<1>2. Halted(r) = o
  BY DEF Halted
<1> HIDE DEF g
<1>3. o \in Run
  BY <1>1 DEF Run
<1>4. /\ o.current = NoTask /\ o.pending = NoTask /\ o.resume = FALSE /\ o.status = "idle"
      /\ o.item = "none" /\ o.fresh = g.fresh
  BY <1>1 DEF Run, Silent
<1> HIDE DEF o
<1> QED
  BY <1>1, <1>2, <1>3, <1>4 DEF Good, Idle, Active, Unanswered, Silent

\* A run that can take a task on takes it on.
LEMMA TakenOnGood ==
    ASSUME NEW fg \in BOOLEAN, NEW r, Free(r), NEW t \in Task
    PROVE  /\ Good(TakenOn(r, t, fg), fg)
           /\ ~Idle(TakenOn(r, t, fg))
           /\ TakenOn(r, t, fg).current \in {t, NoTask}
           /\ TakenOn(r, t, fg).pending \in {t, NoTask}
<1>1. r \in Run /\ r.current = NoTask /\ r.pending = NoTask /\ ~r.resume /\ Silent(r)
  BY DEF Free, Idle
<1>2. CASE fg
  <2> DEFINE b == [r EXCEPT !.pending = t, !.status = "waiting"]
  <2>1. b \in Run /\ TakenOn(r, t, fg) = b
    BY <1>1, <1>2 DEF TakenOn, Postponed, Run
  <2>2. /\ b.current = NoTask /\ b.pending = t /\ ~b.resume /\ b.status = "waiting"
        /\ b.item = "none" /\ b.fresh = r.fresh
    BY <1>1 DEF Run, Silent
  <2> HIDE DEF b
  <2> QED
    <3>1. Unanswered(b) = 0 /\ t # NoTask
      BY <1>1, <2>2 DEF Unanswered, Silent
    <3>2. Good(b, fg)
      BY <1>2, <2>1, <2>2, <3>1 DEF Good, Idle, Active, Silent
    <3> QED
      BY <2>1, <2>2, <3>1, <3>2 DEF Idle
<1>3. CASE ~fg
  <2> DEFINE b == [r EXCEPT !.current = t, !.completed = 0, !.failures = 0,
                            !.resume = FALSE, !.status = "starting"]
  <2>1. b \in Run /\ TakenOn(r, t, fg) = Fetching(b)
    BY <1>1, <1>3 DEF TakenOn, Begun, Run
  <2>2. /\ b.current = t /\ b.pending = NoTask /\ ~b.resume
        /\ b.status = "starting" /\ b.item = "none"
    BY <1>1 DEF Run, Silent
  <2> HIDE DEF b
  <2>3. SameRun(Fetching(b), b) /\ Unanswered(Fetching(b)) = 1 /\ Fetching(b).item = b.item
    BY <2>1, FetchingRun
  <2>4. /\ Fetching(b).current = t /\ Fetching(b).pending = NoTask /\ ~Fetching(b).resume
        /\ Fetching(b).status = "starting" /\ Fetching(b).item = "none"
    BY <2>2, <2>3 DEF SameRun
  <2> QED
    BY <1>3, <2>1, <2>3, <2>4 DEF Good, Idle, Active, SameRun
<1> QED
  BY <1>2, <1>3

LEMMA WaitingGood ==
    ASSUME NEW r \in Run, r.current # NoTask, r.pending = NoTask, r.item = "none",
           Unanswered(r) <= 1
    PROVE  /\ Good(Waiting(r), TRUE)
           /\ Waiting(r).current = r.current
           /\ Waiting(r).pending = NoTask
<1>1. Waiting(r) \in Run
  BY DEF Waiting, Run
<1>2. /\ Waiting(r).current = r.current /\ Waiting(r).pending = NoTask
      /\ Waiting(r).resume = TRUE /\ Waiting(r).status = "waiting"
      /\ Waiting(r).item = "none" /\ Waiting(r).fresh = r.fresh
  BY DEF Waiting, Run
<1> QED
  BY <1>1, <1>2 DEF Good, Idle, Active, Unanswered

\* A run that waits for nothing looks for its next item, or for the foreground.
LEMMA NextCandidateGood ==
    ASSUME foreground \in BOOLEAN, NEW r, Searching(r)
    PROVE  /\ Good(NextCandidate(r), foreground)
           /\ NextCandidate(r).current = r.current
           /\ NextCandidate(r).pending = NoTask
<1> USE DEF Searching
<1>1. CASE foreground
  <2>1. NextCandidate(r) = Waiting(r) /\ foreground = TRUE
    BY <1>1 DEF NextCandidate
  <2>2. r.item = "none" /\ Unanswered(r) <= 1
    BY DEF Silent
  <2> QED
    BY <2>1, <2>2, WaitingGood
<1>2. CASE ~foreground /\ r.candidates = 0
  <2>1. NextCandidate(r) = Fetching(r)
    BY <1>2 DEF NextCandidate
  <2>2. SameRun(Fetching(r), r) /\ Unanswered(Fetching(r)) = 1 /\ Fetching(r).item = "none"
    BY FetchingRun DEF Silent
  <2> QED
    BY <1>2, <2>1, <2>2 DEF Good, Idle, Active, SameRun
<1>3. CASE ~foreground /\ r.candidates # 0
  <2> DEFINE c == [r EXCEPT !.candidates = @ - 1, !.fresh["url"] = @ + 1]
  <2>1. NextCandidate(r) = c
    BY <1>3 DEF NextCandidate
  <2>2. r.candidates - 1 \in Nat /\ [r.fresh EXCEPT !["url"] = @ + 1] \in [Request -> Nat]
    BY <1>3 DEF Run
  <2>3. c \in Run
    BY <2>2 DEF Run
  <2>4. /\ c.current = r.current /\ c.pending = r.pending /\ c.resume = r.resume
        /\ c.status = r.status /\ c.item = r.item
        /\ c.fresh = [r.fresh EXCEPT !["url"] = @ + 1]
    BY DEF Run
  <2>5. c.fresh["candidates"] = r.fresh["candidates"] /\ c.fresh["url"] = r.fresh["url"] + 1
    BY <2>4 DEF Run
  <2>6. r.fresh["candidates"] \in Nat /\ r.fresh["url"] \in Nat
    BY DEF Run
  <2> HIDE DEF c
  <2> QED
    BY <1>3, <2>1, <2>3, <2>4, <2>5, <2>6 DEF Good, Idle, Active, Unanswered, Silent
<1> QED
  BY <1>1, <1>2, <1>3

-----------------------------------------------------------------------------
(* The player, and the helpers that set several variables *)

LEMMA PlayerType ==
    ASSUME NEW p \in Mpv
    PROVE  /\ Stopped(p) \in Mpv
           /\ Loaded(p) \in Mpv
           /\ \A r : PlayerStopped(r, p) \in Mpv
<1>1. Append(p.events, "stopped") \in Seq(Event)
  BY AppendProperties DEF Mpv
<1>2. Stopped(p) \in Mpv
  BY <1>1 DEF Stopped, Mpv
<1>3. Loaded(p) \in Mpv
  BY <1>2 DEF Loaded, Mpv
<1> QED
  BY <1>2, <1>3 DEF PlayerStopped

LEMMA EndTaskGood ==
    ASSUME NEW r \in Run, r.pending = NoTask, NEW p \in Mpv, NEW s \in {"completed", "error"},
           EndTask(r, p, s), NEW fg \in BOOLEAN
    PROVE  Good(run', fg) /\ Idle(run') /\ wake' = TRUE /\ mpv' \in Mpv
BY OverGood, PlayerType DEF EndTask

LEMMA StartTaskGood ==
    ASSUME NEW fg \in BOOLEAN, NEW r, Free(r),
           NEW t \in Task, NEW w \in BOOLEAN, mpv \in Mpv, StartTask(r, t, fg, w)
    PROVE  /\ Good(run', fg)
           /\ wake' \in BOOLEAN
           /\ mpv' \in Mpv
           /\ Idle(run') => wake'
           /\ {run'.current, run'.pending} \subseteq {t, NoTask}
<1>1. CASE run' = TakenOn(r, t, fg) /\ wake' = w /\ UNCHANGED mpv
  BY <1>1, TakenOnGood
<1>2. CASE EndTask(r, mpv, "error")
  <2>1. r \in Run /\ r.pending = NoTask
    BY DEF Free, Idle
  <2> QED
    BY <1>2, <2>1, EndTaskGood DEF Idle
<1> QED
  BY <1>1, <1>2 DEF StartTask

LEMMA GoodIsFree ==
    ASSUME NEW r, NEW fg, Good(r, fg), Idle(r)
    PROVE  Free(r)
BY DEF Good, Free, Idle

LEMMA HeadTail ==
    ASSUME NEW q \in Seq(Task), q # <<>>
    PROVE  Head(q) \in Elements(q) /\ Tail(q) \in Seq(Task) /\ Elements(Tail(q)) \subseteq Elements(q)
<1>1. Len(q) \in Nat \ {0} /\ Head(q) = q[1] /\ DOMAIN q = 1..Len(q)
  BY EmptySeq, LenProperties, HeadTailProperties
<1>2. /\ Tail(q) \in Seq(Task) /\ Len(Tail(q)) = Len(q) - 1
      /\ \A i \in 1..Len(Tail(q)) : Tail(q)[i] = q[i + 1]
  BY HeadTailProperties
<1>3. DOMAIN Tail(q) = 1..(Len(q) - 1)
  BY <1>2, LenProperties
<1> QED
  BY <1>1, <1>2, <1>3 DEF Elements

LEMMA StartNextGood ==
    ASSUME foreground \in BOOLEAN, NEW q \in Seq(Task), NEW r, Good(r, foreground),
           NEW w \in BOOLEAN, mpv \in Mpv, StartNext(q, r, w)
    PROVE  /\ Good(run', foreground)
           /\ queue' \in Seq(Task)
           /\ wake' \in BOOLEAN
           /\ mpv' \in Mpv
           /\ Served(queue', run', wake')
           /\ Held(queue', run') \subseteq Held(q, r)
<1>1. CASE ~Idle(r) \/ q = <<>>
  <2>1. queue' = q /\ run' = r /\ wake' = w /\ UNCHANGED mpv
    BY <1>1 DEF StartNext
  <2> QED
    BY <1>1, <2>1 DEF Served
<1>2. CASE Idle(r) /\ q # <<>>
  <2>1. queue' = Tail(q) /\ StartTask(r, Head(q), foreground, w)
    BY <1>2 DEF StartNext
  <2>2. Head(q) \in Elements(q) /\ Tail(q) \in Seq(Task) /\ Elements(Tail(q)) \subseteq Elements(q)
    BY <1>2, HeadTail
  <2>3. Head(q) \in Task
    BY <1>2, HeadTailProperties
  <2>4. /\ Good(run', foreground) /\ wake' \in BOOLEAN /\ mpv' \in Mpv
        /\ Idle(run') => wake'
        /\ {run'.current, run'.pending} \subseteq {Head(q), NoTask}
    BY <1>2, <2>1, <2>3, GoodIsFree, StartTaskGood
  <2> QED
    BY <2>1, <2>2, <2>4 DEF Served, Held
<1> QED
  BY <1>1, <1>2

LEMMA KeptType ==
    ASSUME NEW q \in Seq(Task), NEW K
    PROVE  Kept(q, K) \in Seq(Task) /\ Elements(Kept(q, K)) \subseteq Elements(q) \cap K
<1> DEFINE s == Kept(q, K)
<1>1. s \in Seq(Task) /\ \A n \in 1..Len(s) : \E i \in KeptIn(q, K) : s[n] = q[i]
  BY SubsequenceProperties DEF Kept
<1>2. \A i \in KeptIn(q, K) : i \in DOMAIN q /\ q[i] \in K
  BY LenProperties DEF KeptIn
<1>3. DOMAIN s = 1..Len(s)
  BY <1>1, LenProperties
<1> HIDE DEF s
<1>4. Elements(s) \subseteq Elements(q) \cap K
  BY <1>1, <1>2, <1>3 DEF Elements
<1> QED
  BY <1>1, <1>4 DEF s

LEMMA OrdersType ==
    ASSUME NEW S \in SUBSET Task, NEW o \in Orders(S)
    PROVE  o \in Seq(Task) /\ Elements(o) \subseteq S
<1>1. Cardinality(S) \in Nat
  BY FS_Subset, FS_CardinalityType
<1>2. o \in [1..Cardinality(S) -> S]
  BY DEF Orders
<1>3. o \in Seq(S)
  BY <1>1, <1>2
<1>4. o \in Seq(Task) /\ DOMAIN o = 1..Cardinality(S)
  BY <1>2, <1>3
<1> QED
  BY <1>2, <1>4 DEF Elements

LEMMA ConcatElements ==
    ASSUME NEW q \in Seq(Task), NEW o \in Seq(Task)
    PROVE  q \o o \in Seq(Task) /\ Elements(q \o o) \subseteq Elements(q) \cup Elements(o)
<1> DEFINE s == q \o o
<1>1. /\ s \in Seq(Task) /\ Len(s) = Len(q) + Len(o)
      /\ \A i \in 1..Len(s) : s[i] = IF i <= Len(q) THEN q[i] ELSE o[i - Len(q)]
  BY ConcatProperties
<1>2. /\ DOMAIN s = 1..Len(s) /\ DOMAIN q = 1..Len(q) /\ DOMAIN o = 1..Len(o)
      /\ Len(q) \in Nat /\ Len(o) \in Nat
  BY <1>1, LenProperties
<1> HIDE DEF s
<1>3. ASSUME NEW i \in DOMAIN s
      PROVE  s[i] \in Elements(q) \cup Elements(o)
  <2>1. CASE i <= Len(q)
    BY <1>1, <1>2, <2>1 DEF Elements
  <2>2. CASE ~(i <= Len(q))
    <3>1. i - Len(q) \in 1..Len(o) /\ s[i] = o[i - Len(q)]
      BY <1>1, <1>2, <2>2
    <3> QED
      BY <1>2, <3>1 DEF Elements
  <2> QED
    BY <2>1, <2>2
<1>4. Elements(s) \subseteq Elements(q) \cup Elements(o)
  BY <1>3 DEF Elements
<1> QED
  BY <1>1, <1>4 DEF s

-----------------------------------------------------------------------------
(* The steps *)

\* A step of the runner that leaves the lists, the flag and the queue alone.
LEMMA RunStep ==
    ASSUME Inv, UNCHANGED <<listVars, foreground, queue>>,
           Good(run', foreground), wake' \in BOOLEAN, mpv' \in Mpv,
           Served(queue, run', wake'),
           {run'.current, run'.pending} \subseteq {run.current, run.pending, NoTask}
    PROVE  Inv'
<1>1. Held(queue, run') \subseteq Held(queue, run)
  BY DEF Held
<1>2. Discreet'
  BY <1>1 DEF Inv, Discreet, Held, listVars
<1> QED
  BY <1>2 DEF Inv, listVars, Served, Idle, Good, Run, Active, Unanswered, Silent, Mpv

\* A call of startNextScheduledTask on a queue of tasks the runner held, or
\* that are listed.
LEMMA StartNextStep ==
    ASSUME Inv, saved' \subseteq Task, automatic' \subseteq saved', listed' \subseteq Task,
           UNCHANGED <<private, privacy, foreground>>,
           ~ReadsFail /\ ~privacy => listed' \cap private = {},
           NEW q \in Seq(Task), NEW r, Good(r, foreground), NEW w \in BOOLEAN,
           Held(q, r) \subseteq Held(queue, run) \cup listed,
           StartNext(q, r, w)
    PROVE  Inv'
<1>1. /\ Good(run', foreground) /\ queue' \in Seq(Task) /\ wake' \in BOOLEAN /\ mpv' \in Mpv
      /\ Served(queue', run', wake') /\ Held(queue', run') \subseteq Held(q, r)
  BY StartNextGood DEF Inv
<1>2. Discreet'
  BY <1>1 DEF Inv, Discreet, Held
<1> QED
  BY <1>1, <1>2 DEF Inv, Served, Idle, Good, Run, Active, Unanswered, Silent, Mpv

LEMMA EvaluateStep ==
    ASSUME Inv, NEW D \in SUBSET (listed \cap automatic), Evaluate(D)
    PROVE  Inv'
<1>1. D \subseteq Task /\ UNCHANGED <<saved, automatic, private, privacy, foreground>>
  BY DEF Evaluate, Inv
<1> DEFINE new == D \ (QueuedTasks \cup {run.current, run.pending})
           now == Visible(saved, private, privacy)
           kept(o) == Kept(queue \o o, now \cap automatic)
<1>2. PICK o \in Orders(new) :
        \/ listed' = listed /\ StartNext(queue \o o, run, wake)
        \/ /\ D # {}
           /\ listed' = now
           /\ StartNext(kept(o), run, wake) \/ StartNextAgain(kept(o))
  BY DEF Evaluate
<1>3. o \in Seq(Task) /\ Elements(o) \subseteq new
  <2>1. new \in SUBSET Task
    BY <1>1
  <2> HIDE DEF new
  <2> QED
    BY <1>2, <2>1, OrdersType
<1>4. queue \o o \in Seq(Task) /\ Held(queue \o o, run) \subseteq Held(queue, run) \cup listed
  BY <1>3, ConcatElements DEF Inv, Held
<1>5. kept(o) \in Seq(Task) /\ Held(kept(o), run) \subseteq Held(queue, run) \cup listed
  BY <1>4, KeptType DEF Held
<1>6. now \subseteq Task /\ (~privacy => now \cap private = {})
  BY DEF Inv, Visible
<1>7. Good(run, foreground) /\ wake \in BOOLEAN /\ foreground \in BOOLEAN
      /\ saved \subseteq Task /\ automatic \subseteq saved /\ listed \subseteq Task
  BY DEF Inv
<1> HIDE DEF now, new
<1>8. CASE listed' = listed /\ StartNext(queue \o o, run, wake)
  <2>1. ~ReadsFail /\ ~privacy => listed' \cap private = {}
    BY <1>8 DEF Inv, Discreet
  <2> QED
    BY <1>1, <1>4, <1>7, <1>8, <2>1, StartNextStep
<1>9. CASE listed' = now /\ StartNext(kept(o), run, wake)
  BY <1>1, <1>5, <1>6, <1>7, <1>9, StartNextStep
<1>10. CASE listed' = now /\ StartNextAgain(kept(o))
  <2> DEFINE r == Over(run, "error")
  <2>1. kept(o) # <<>> /\ Idle(run) /\ StartNext(Tail(kept(o)), r, TRUE)
    BY <1>10 DEF StartNextAgain
  <2>2. Good(r, foreground) /\ Idle(r)
    BY <1>7, <2>1, OverGood DEF Good, Idle
  <2>3. Tail(kept(o)) \in Seq(Task) /\ Elements(Tail(kept(o))) \subseteq Elements(kept(o))
    BY <1>5, <2>1, HeadTail
  <2>4. Held(Tail(kept(o)), r) \subseteq Held(queue, run) \cup listed
    BY <1>5, <2>2, <2>3 DEF Held, Idle
  <2> HIDE DEF r
  <2> QED
    BY <1>1, <1>6, <1>7, <1>10, <2>1, <2>2, <2>3, <2>4, StartNextStep
<1> QED
  BY <1>2, <1>8, <1>9, <1>10

LEMMA ZeroTimerStep ==
    ASSUME Inv, ZeroTimer
    PROVE  Inv'
<1>1. StartNext(queue, run, FALSE) /\ UNCHANGED <<listVars, foreground>>
  BY DEF ZeroTimer
<1>2. /\ queue \in Seq(Task) /\ Good(run, foreground)
      /\ saved' \subseteq Task /\ automatic' \subseteq saved' /\ listed' \subseteq Task
      /\ UNCHANGED <<private, privacy, foreground>>
      /\ ~ReadsFail /\ ~privacy => listed' \cap private = {}
  BY <1>1 DEF Inv, listVars, Discreet
<1> QED
  BY <1>1, <1>2, StartNextStep

LEMMA RefreshStep ==
    ASSUME Inv, saved' \subseteq Task, automatic' \subseteq saved',
           UNCHANGED <<private, privacy, foreground>>, Refresh(queue, run, wake)
    PROVE  Inv'
<1> DEFINE kept == Kept(queue, listed' \cap automatic')
<1>1. CASE listed' = Visible(saved', private', privacy') /\ StartNext(kept, run, wake)
  <2>1. listed' \subseteq Task /\ (~privacy => listed' \cap private = {})
    BY <1>1 DEF Visible
  <2>2. kept \in Seq(Task) /\ Held(kept, run) \subseteq Held(queue, run)
    BY KeptType DEF Inv, Held
  <2>3. Good(run, foreground) /\ wake \in BOOLEAN
    BY DEF Inv
  <2> HIDE DEF kept
  <2> QED
    BY <1>1, <2>1, <2>2, <2>3, StartNextStep
<1>2. CASE UNCHANGED <<listed, queue, run, wake, mpv>>
  BY <1>2 DEF Inv, Discreet, Held, Served, Idle, Good, Run, Active, Unanswered, Silent, Mpv
<1> QED
  BY <1>1, <1>2 DEF Refresh

\* A step that stops everything, whatever it does to the lists.
LEMMA HaltStep ==
    ASSUME Inv, Halt, UNCHANGED foreground,
           saved' \subseteq Task, automatic' \subseteq saved', private' \subseteq Task,
           privacy' \in BOOLEAN, listed' \subseteq Task,
           ~ReadsFail /\ ~privacy' => listed' \cap private' = {}
    PROVE  Inv'
<1>1. run \in Run /\ foreground \in BOOLEAN /\ mpv \in Mpv
  BY DEF Inv, Good
<1>2. Good(run', foreground) /\ Idle(run')
  BY <1>1, HaltedGood DEF Halt
<1>3. mpv' \in Mpv
  BY <1>1, PlayerType DEF Halt
<1>4. queue' = <<>> /\ queue' \in Seq(Task) /\ Elements(queue') = {}
  BY DEF Halt, Elements
<1>5. Discreet' /\ Served(queue', run', wake')
  BY <1>2, <1>4 DEF Discreet, Held, Idle, Served
<1>6. wake' \in BOOLEAN
  BY DEF Halt, Inv
<1> QED
  BY <1>2, <1>3, <1>4, <1>5, <1>6
     DEF Inv, Served, Idle, Good, Run, Active, Unanswered, Silent, Mpv

\* A call of startTask for a task the user may see, with the queue left as q.
LEMMA StartTaskStep ==
    ASSUME Inv, saved' \subseteq Task, automatic' \subseteq saved', listed' \subseteq Task,
           UNCHANGED <<private, privacy, foreground>>,
           ~ReadsFail /\ ~privacy => listed' \cap private = {},
           NEW t \in Task, ~ReadsFail /\ ~privacy => t \notin private,
           NEW r, Free(r), NEW w \in BOOLEAN, StartTask(r, t, foreground, w),
           queue' \in Seq(Task), Elements(queue') \subseteq Elements(queue)
    PROVE  Inv'
<1>1. /\ Good(run', foreground) /\ wake' \in BOOLEAN /\ mpv' \in Mpv
      /\ Idle(run') => wake'
      /\ {run'.current, run'.pending} \subseteq {t, NoTask}
  BY StartTaskGood DEF Inv
<1>2. Held(queue', run') \subseteq Elements(queue) \cup {t}
  BY <1>1 DEF Held
<1>3. Discreet'
  BY <1>2 DEF Inv, Discreet, Held
<1> QED
  BY <1>1, <1>3 DEF Inv, Served, Idle, Good, Run, Active, Unanswered, Silent, Mpv

LEMMA NotBusyIsFree ==
    ASSUME Inv, ~Busy
    PROVE  Free(run) /\ Idle(run) /\ Free(Over(run, "error"))
<1>1. Idle(run) /\ Free(run)
  BY GoodIsFree DEF Inv, Busy, Good, Active
<1>2. Good(Over(run, "error"), TRUE) /\ Idle(Over(run, "error"))
  BY <1>1, OverGood DEF Free, Idle
<1> QED
  BY <1>1, <1>2, GoodIsFree

LEMMA SaveTaskStep ==
    ASSUME Inv, NEW t \in Task, NEW auto \in BOOLEAN, SaveTask(t, auto)
    PROVE  Inv'
BY RefreshStep DEF SaveTask, Inv

LEMMA SaveAndRunStep ==
    ASSUME Inv, NEW t \in Task, NEW auto \in BOOLEAN, SaveAndRun(t, auto)
    PROVE  Inv'
<1> DEFINE now == Visible(saved', private, privacy)
           kept == Kept(queue, now \cap automatic')
<1>1. /\ saved' \subseteq Task /\ automatic' \subseteq saved'
      /\ UNCHANGED <<private, privacy, foreground>>
      /\ (~ReadsFail /\ ~privacy => t \notin private)
  BY DEF SaveAndRun, Inv
<1>2. Free(run) /\ Idle(run) /\ Free(Over(run, "error"))
  BY NotBusyIsFree DEF SaveAndRun
<1>3. foreground \in BOOLEAN /\ wake \in BOOLEAN /\ queue \in Seq(Task) /\ mpv \in Mpv
  BY DEF Inv
<1>4. now \subseteq Task /\ (~privacy => now \cap private = {})
  BY <1>1 DEF Visible
<1>5. kept \in Seq(Task) /\ Elements(kept) \subseteq Elements(queue)
  BY <1>3, KeptType
<1>6. \/ /\ listed' = now
         /\ \/ kept = <<>> /\ queue' = kept /\ StartTask(run, t, foreground, wake)
            \/ /\ kept # <<>>
               /\ queue' = Tail(kept)
               /\ \/ /\ run' = TakenOn(run, Head(kept), foreground)
                     /\ UNCHANGED <<wake, mpv>>
                  \/ StartTask(Over(run, "error"), t, foreground, TRUE)
      \/ /\ ReadsFail
         /\ UNCHANGED <<listed, queue>>
         /\ StartTask(run, t, foreground, wake)
  BY DEF SaveAndRun
<1> HIDE DEF now, kept
<1>7. CASE listed' = now /\ queue' = kept /\ StartTask(run, t, foreground, wake)
  BY <1>1, <1>2, <1>3, <1>4, <1>5, <1>7, StartTaskStep
<1>8. CASE ReadsFail /\ UNCHANGED <<listed, queue>> /\ StartTask(run, t, foreground, wake)
  <2>1. listed' \subseteq Task
    BY <1>8 DEF Inv
  <2> QED
    BY <1>1, <1>2, <1>3, <1>8, <2>1, StartTaskStep
<1>9. CASE listed' = now /\ kept # <<>> /\ queue' = Tail(kept)
  <2>1. /\ Tail(kept) \in Seq(Task) /\ Elements(Tail(kept)) \subseteq Elements(queue)
        /\ Head(kept) \in Elements(queue) /\ Head(kept) \in Task
    BY <1>5, <1>9, HeadTail, HeadTailProperties
  <2>2. CASE StartTask(Over(run, "error"), t, foreground, TRUE)
    BY <1>1, <1>2, <1>3, <1>4, <1>9, <2>1, <2>2, StartTaskStep
  <2>3. CASE run' = TakenOn(run, Head(kept), foreground) /\ UNCHANGED <<wake, mpv>>
    <3>1. StartTask(run, Head(kept), foreground, wake)
      BY <2>3 DEF StartTask
    <3>2. ~ReadsFail /\ ~privacy => Head(kept) \notin private
      BY <2>1 DEF Inv, Discreet, Held
    <3> QED
      BY <1>1, <1>2, <1>3, <1>4, <1>9, <2>1, <3>1, <3>2, StartTaskStep
  <2> QED
    BY <1>6, <1>8, <1>9, <2>2, <2>3
<1> QED
  BY <1>6, <1>7, <1>8, <1>9

LEMMA DeleteTaskStep ==
    ASSUME Inv, NEW t \in Task, DeleteTask(t)
    PROVE  Inv'
<1>1. UNCHANGED <<private, privacy, foreground>> /\ saved' \subseteq Task /\ automatic' \subseteq saved'
  BY DEF DeleteTask, Inv
<1>2. CASE Halt /\ ListRefreshed
  <2>1. listed' \subseteq Task /\ (~ReadsFail /\ ~privacy' => listed' \cap private' = {})
    BY <1>1, <1>2 DEF ListRefreshed, Visible, Inv, Discreet
  <2> QED
    BY <1>1, <1>2, <2>1, HaltStep DEF Inv
<1>3. CASE Refresh(queue, run, wake)
  BY <1>1, <1>3, RefreshStep
<1>4. CASE UNCHANGED <<saved, automatic, listed>> /\ Halt
  BY <1>1, <1>4, HaltStep DEF Inv, Discreet
<1>5. CASE UNCHANGED <<saved, automatic, listed, queue, wake, run, mpv>>
  BY <1>1, <1>5 DEF Inv, Discreet, Held, Served, Idle, Good, Run, Active, Unanswered, Silent, Mpv
<1> QED
  BY <1>2, <1>3, <1>4, <1>5 DEF DeleteTask

LEMMA OpenPageStep ==
    ASSUME Inv, OpenPage
    PROVE  Inv'
BY RefreshStep DEF OpenPage, Inv

LEMMA RunNowStep ==
    ASSUME Inv, NEW t \in Task, RunNow(t)
    PROVE  Inv'
<1>1. /\ UNCHANGED <<saved, automatic, private, privacy, listed, foreground, queue>>
      /\ t \in listed /\ StartTask(run, t, foreground, wake)
  BY DEF RunNow, listVars
<1>2. Free(run)
  BY NotBusyIsFree DEF RunNow
<1>3. ~ReadsFail /\ ~privacy => listed' \cap private = {} /\ t \notin private
  BY <1>1 DEF Inv, Discreet
<1>4. /\ saved' \subseteq Task /\ automatic' \subseteq saved' /\ listed' \subseteq Task
      /\ wake \in BOOLEAN /\ queue' \in Seq(Task) /\ Elements(queue') \subseteq Elements(queue)
  BY <1>1 DEF Inv
<1> QED
  BY <1>1, <1>2, <1>3, <1>4, StartTaskStep

LEMMA StopSteps ==
    ASSUME Inv, UserStop \/ TogglePrivacy \/ (\E t \in Task : SetPrivate(t))
    PROVE  Inv'
<1>1. /\ Halt /\ UNCHANGED <<saved, automatic, foreground>>
      /\ saved' \subseteq Task /\ automatic' \subseteq saved'
      /\ private' \subseteq Task /\ privacy' \in BOOLEAN
  BY DEF UserStop, TogglePrivacy, SetPrivate, listVars, Inv
<1>2. listed' \subseteq Task /\ (~ReadsFail /\ ~privacy' => listed' \cap private' = {})
  <2>1. CASE UserStop
    BY <2>1 DEF UserStop, listVars, Inv, Discreet
  <2>2. CASE ListRefreshed
    BY <1>1, <2>2 DEF ListRefreshed, Visible, Inv, Discreet
  <2> QED
    BY <2>1, <2>2 DEF TogglePrivacy, SetPrivate
<1> QED
  BY <1>1, <1>2, HaltStep

LEMMA RemoveServiceStep ==
    ASSUME Inv, NEW t \in Task, RemoveService(t)
    PROVE  Inv'
BY DEF RemoveService, Inv, Discreet, Held, Served, Idle, Good, Run, Active, Unanswered, Silent, Mpv

LEMMA ForegroundOnStep ==
    ASSUME Inv, ForegroundOn
    PROVE  Inv'
<1>1. /\ foreground = FALSE /\ foreground' = TRUE /\ UNCHANGED <<listVars, queue, wake>>
      /\ Good(run, FALSE)
  BY DEF ForegroundOn, Inv
<1>2. CASE run.current = NoTask
  <2>1. UNCHANGED <<run, mpv>>
    BY <1>2 DEF ForegroundOn
  <2>2. Good(run, TRUE)
    BY <1>1, <1>2 DEF Good, Silent
  <2> QED
    BY <1>1, <2>1, <2>2
       DEF Inv, listVars, Discreet, Held, Served, Idle, Good, Run, Active, Unanswered, Silent, Mpv
<1>3. CASE run.current # NoTask
  <2> DEFINE s == ItemStopped(run, mpv.position)
  <2>1. run' = Waiting(s) /\ mpv' = PlayerStopped(run, mpv)
    BY <1>3 DEF ForegroundOn
  <2>2. mpv \in Mpv /\ mpv.position \in Nat /\ run \in Run /\ run.pending = NoTask /\ Unanswered(run) <= 1
    BY <1>3 DEF Inv, Mpv, Good
  <2>3. SameRun(s, run) /\ s.item = "none" /\ s.fresh = run.fresh
    BY <2>2, ItemStoppedRun
  <2> HIDE DEF s
  <2>4. Good(run', TRUE) /\ run'.current = run.current /\ run'.pending = NoTask
    <3>1. /\ s \in Run /\ s.current = run.current /\ s.pending = NoTask
          /\ s.item = "none" /\ Unanswered(s) <= 1
      BY <2>2, <2>3 DEF SameRun, Unanswered
    <3> QED
      BY <1>3, <2>1, <3>1, WaitingGood
  <2>5. mpv' \in Mpv
    BY <2>1, <2>2, PlayerType
  <2>6. Discreet'
    BY <1>1, <2>4 DEF Inv, Discreet, Held, listVars
  <2> QED
    BY <1>1, <1>3, <2>4, <2>5, <2>6
       DEF Inv, listVars, Served, Idle, Good, Run, Active, Unanswered, Silent, Mpv
<1> QED
  BY <1>2, <1>3

LEMMA ForegroundOffStep ==
    ASSUME Inv, ForegroundOff
    PROVE  Inv'
<1>1. /\ foreground = TRUE /\ foreground' = FALSE /\ UNCHANGED <<listVars, queue>>
      /\ Good(run, TRUE) /\ run \in Run /\ mpv \in Mpv /\ wake \in BOOLEAN
  BY DEF ForegroundOff, Inv, Good
<1>2. /\ Good(run', FALSE) /\ wake' \in BOOLEAN /\ mpv' \in Mpv
      /\ Served(queue, run', wake')
      /\ {run'.current, run'.pending} \subseteq {run.current, run.pending, NoTask}
  <2>1. CASE run.resume /\ run.current # NoTask /\ Elapsed(run, mpv) >= Target
    <3> DEFINE r == [run EXCEPT !.resume = FALSE]
    <3>1. r \in Run /\ r.pending = NoTask
      BY <1>1, <2>1 DEF Run, Good
    <3>2. EndTask(r, mpv, "completed")
      BY <2>1 DEF ForegroundOff
    <3> HIDE DEF r
    <3>3. Good(run', FALSE) /\ Idle(run') /\ wake' = TRUE /\ mpv' \in Mpv
      BY <1>1, <3>1, <3>2, EndTaskGood
    <3> QED
      BY <3>3 DEF Served, Idle
  <2>2. CASE run.resume /\ run.current # NoTask /\ ~(Elapsed(run, mpv) >= Target)
    <3> DEFINE r == [run EXCEPT !.resume = FALSE, !.status = "starting"]
    <3>1. /\ r \in Run /\ r.pending = NoTask /\ r.current = run.current
          /\ r.resume = FALSE /\ r.status = "starting" /\ r.item = "none"
      BY <1>1, <2>2 DEF Run, Good
    <3>2. run' = Fetching(r) /\ UNCHANGED <<wake, mpv>>
      BY <2>2 DEF ForegroundOff
    <3> HIDE DEF r
    <3>3. SameRun(run', r) /\ Unanswered(run') = 1 /\ run'.item = "none"
      BY <3>1, <3>2, FetchingRun
    <3>4. Good(run', FALSE)
      BY <2>2, <3>1, <3>3 DEF Good, SameRun, Idle, Active
    <3> QED
      BY <1>1, <2>2, <3>1, <3>2, <3>3, <3>4 DEF SameRun, Served, Idle
  <2>3. CASE ~(run.resume /\ run.current # NoTask) /\ run.pending # NoTask
    <3> DEFINE r == [run EXCEPT !.pending = NoTask]
    <3>1. r \in Run /\ r.current = NoTask /\ r.pending = NoTask /\ r.item = run.item
          /\ r.resume = run.resume /\ r.fresh = run.fresh
      BY <1>1, <2>3 DEF Run, Good
    <3>2. Free(r)
      BY <1>1, <2>3, <3>1 DEF Free, Idle, Good, Silent, Unanswered
    <3>3. StartTask(r, run.pending, FALSE, wake) /\ run.pending \in Task
      BY <1>1, <2>3 DEF ForegroundOff, Run
    <3> HIDE DEF r
    <3>4. /\ Good(run', FALSE) /\ wake' \in BOOLEAN /\ mpv' \in Mpv
          /\ Idle(run') => wake'
          /\ {run'.current, run'.pending} \subseteq {run.pending, NoTask}
      BY <1>1, <3>2, <3>3, StartTaskGood
    <3> QED
      BY <3>4 DEF Served
  <2>4. CASE ~(run.resume /\ run.current # NoTask) /\ run.pending = NoTask
    <3>1. UNCHANGED <<wake, run, mpv>>
      BY <2>4 DEF ForegroundOff
    <3>2. run.current = NoTask /\ run.status \notin {"waiting", "starting", "playing"}
      BY <1>1, <2>4 DEF Good, Idle, Active
    <3>3. Good(run, FALSE)
      BY <1>1, <2>4, <3>2 DEF Good, Idle, Active
    <3> QED
      BY <1>1, <3>1, <3>3 DEF Inv
  <2> QED
    BY <2>1, <2>2, <2>3, <2>4
<1>3. Discreet'
  BY <1>1, <1>2 DEF Inv, Discreet, Held, listVars
<1> QED
  BY <1>1, <1>2, <1>3 DEF Inv, listVars, Served, Idle, Good, Run, Active, Unanswered, Silent, Mpv

\* What a step of the run gives, as RunStep wants it.
RunDone(fg) ==
    /\ Good(run', fg) /\ wake' \in BOOLEAN /\ mpv' \in Mpv
    /\ Served(queue, run', wake')
    /\ {run'.current, run'.pending} \subseteq {run.current, run.pending, NoTask}

LEMMA EndTaskDone ==
    ASSUME foreground \in BOOLEAN, NEW r \in Run, r.pending = NoTask, NEW p \in Mpv,
           NEW s \in {"completed", "error"}, EndTask(r, p, s)
    PROVE  RunDone(foreground)
BY EndTaskGood DEF RunDone, Served, Idle

LEMMA SearchDone ==
    ASSUME Inv, NEW r, Searching(r), r.current = run.current,
           run' = NextCandidate(r), mpv' \in Mpv, UNCHANGED wake
    PROVE  RunDone(foreground)
<1>1. /\ Good(run', foreground) /\ run'.current = run.current /\ run'.pending = NoTask
  BY NextCandidateGood DEF Inv
<1>2. ~Idle(run')
  BY <1>1 DEF Idle, Searching
<1> QED
  BY <1>1, <1>2 DEF RunDone, Served, Inv

LEMMA FailingDone ==
    ASSUME Inv, NEW r, Searching(r), r.current = run.current, NEW p \in Mpv, Failing(r, p)
    PROVE  RunDone(foreground)
<1> DEFINE f == [r EXCEPT !.failures = @ + 1]
<1>1. /\ f \in Run /\ f.current = r.current /\ f.pending = r.pending /\ f.resume = r.resume
      /\ f.status = r.status /\ f.item = r.item /\ f.fresh = r.fresh
  BY DEF Searching, Run
<1>2. EndTask(f, p, "error") \/ (run' = NextCandidate(f) /\ mpv' = p /\ UNCHANGED wake)
  BY DEF Failing
<1> HIDE DEF f
<1>3. Searching(f) /\ f.current = run.current
  BY <1>1 DEF Searching, Silent, Unanswered
<1>4. CASE EndTask(f, p, "error")
  BY <1>3, <1>4, EndTaskDone DEF Searching, Inv
<1>5. CASE run' = NextCandidate(f) /\ mpv' = p /\ UNCHANGED wake
  BY <1>3, <1>5, SearchDone
<1> QED
  BY <1>2, <1>4, <1>5

\* An answer is awaited only by a run that has nothing else under way.
LEMMA TakenSearches ==
    ASSUME Inv, NEW k \in Request, run.fresh[k] > 0
    PROVE  Searching(Taken(k)) /\ Taken(k).current = run.current
<1>1. Good(run, foreground) /\ run \in Run /\ foreground \in BOOLEAN
  BY DEF Inv, Good
<1>2. run.fresh["candidates"] \in Nat /\ run.fresh["url"] \in Nat /\ run.fresh \in [Request -> Nat]
  BY <1>1 DEF Run
<1>3. Unanswered(run) = 1 /\ run.fresh[k] = 1
  BY <1>1, <1>2 DEF Good, Unanswered
<1>4. run.item = "none" /\ run.current # NoTask /\ run.pending = NoTask
  BY <1>1, <1>3 DEF Good, Silent
<1>5. run.resume = foreground /\ (~foreground => run.status \in {"starting", "playing"})
  BY <1>1, <1>4 DEF Good, Idle, Active, Run
<1> DEFINE f == [run.fresh EXCEPT ![k] = @ - 1]
<1>6. f \in [Request -> Nat] /\ f["candidates"] + f["url"] = 0
  BY <1>2, <1>3 DEF Unanswered
<1>7. Taken(k) = [run EXCEPT !.fresh = f]
  BY <1>1 DEF Taken, Run
<1> HIDE DEF f
<1>8. /\ Taken(k) \in Run /\ Taken(k).current = run.current /\ Taken(k).pending = run.pending
      /\ Taken(k).resume = run.resume /\ Taken(k).status = run.status
      /\ Taken(k).item = run.item /\ Taken(k).fresh = f
  BY <1>1, <1>6, <1>7 DEF Run
<1> QED
  BY <1>4, <1>5, <1>6, <1>8 DEF Searching, Silent, Unanswered

LEMMA CandidatesArriveStep ==
    ASSUME Inv, CandidatesArrive
    PROVE  Inv'
<1> DEFINE r == Taken("candidates")
<1>1. Searching(r) /\ r.current = run.current
  BY TakenSearches DEF CandidatesArrive
<1>2. foreground \in BOOLEAN /\ mpv \in Mpv /\ UNCHANGED <<listVars, foreground, queue>>
  BY DEF CandidatesArrive, Inv
<1>3. CASE EndTask(r, mpv, "error")
  BY <1>1, <1>2, <1>3, EndTaskDone, RunStep DEF Searching, RunDone
<1>4. CASE \E n \in 1..MaxCandidates :
             run' = NextCandidate([r EXCEPT !.candidates = n]) /\ UNCHANGED <<wake, mpv>>
  <2>1. PICK n \in 1..MaxCandidates :
          run' = NextCandidate([r EXCEPT !.candidates = n]) /\ UNCHANGED <<wake, mpv>>
    BY <1>4
  <2> DEFINE s == [r EXCEPT !.candidates = n]
  <2> HIDE DEF r
  <2>2. /\ s \in Run /\ s.current = r.current /\ s.pending = r.pending /\ s.resume = r.resume
        /\ s.status = r.status /\ s.item = r.item /\ s.fresh = r.fresh
    BY <1>1 DEF Searching, Run
  <2>3. run' = NextCandidate(s) /\ UNCHANGED <<wake, mpv>>
    BY <2>1
  <2> HIDE DEF s
  <2>4. Searching(s) /\ s.current = run.current
    BY <1>1, <2>2 DEF Searching, Silent, Unanswered
  <2> QED
    BY <1>2, <2>3, <2>4, SearchDone, RunStep DEF RunDone
<1> QED
  BY <1>3, <1>4 DEF CandidatesArrive

LEMMA BeginPlaybackDone ==
    ASSUME Inv, NEW r, Searching(r), r.current = run.current, BeginPlayback(r)
    PROVE  RunDone(foreground)
<1>1. foreground \in BOOLEAN /\ mpv \in Mpv /\ wake \in BOOLEAN
  BY DEF Inv
<1>2. CASE foreground /\ run' = Waiting(r) /\ UNCHANGED <<wake, mpv>>
  <2>1. /\ r \in Run /\ r.current # NoTask /\ r.pending = NoTask /\ r.item = "none"
        /\ Unanswered(r) <= 1 /\ foreground = TRUE
    BY <1>1, <1>2 DEF Searching, Silent
  <2>2. Good(run', foreground) /\ run'.current = run.current /\ run'.pending = NoTask
    BY <1>2, <2>1, WaitingGood
  <2> QED
    BY <1>1, <1>2, <2>1, <2>2 DEF RunDone, Served, Idle
<1>3. CASE EndTask(r, mpv, "error")
  BY <1>1, <1>3, EndTaskDone DEF Searching
<1>4. CASE /\ ~foreground
           /\ run' = [r EXCEPT !.item = "loading", !.ignoreEnd = FALSE, !.status = "starting"]
           /\ mpv' = IF r.current \in SelfSigned THEN mpv ELSE Loaded(mpv)
           /\ UNCHANGED wake
  <2>1. /\ run' \in Run /\ run'.current = r.current /\ run'.pending = NoTask
        /\ run'.resume = r.resume /\ run'.status = "starting" /\ run'.item = "loading"
        /\ run'.fresh = r.fresh
    BY <1>4 DEF Searching, Run
  <2>2. r.current # NoTask /\ r.resume = FALSE /\ foreground = FALSE /\ Unanswered(run') = 0
    BY <1>1, <1>4, <2>1 DEF Searching, Silent, Unanswered
  <2>3. Good(run', foreground)
    BY <2>1, <2>2 DEF Good, Idle, Active
  <2>4. mpv' \in Mpv
    BY <1>1, <1>4, PlayerType
  <2> QED
    BY <1>1, <1>4, <2>1, <2>2, <2>3, <2>4 DEF RunDone, Served, Idle
<1> QED
  BY <1>2, <1>3, <1>4 DEF BeginPlayback

LEMMA UrlArrivesStep ==
    ASSUME Inv, UrlArrives
    PROVE  Inv'
<1>1. Searching(Taken("url")) /\ Taken("url").current = run.current
  BY TakenSearches DEF UrlArrives
<1>2. UNCHANGED <<listVars, foreground, queue>> /\ mpv \in Mpv
  BY DEF UrlArrives, Inv
<1>3. CASE Failing(Taken("url"), mpv)
  BY <1>1, <1>2, <1>3, FailingDone, RunStep DEF RunDone
<1>4. CASE BeginPlayback(Taken("url"))
  BY <1>1, <1>2, <1>4, BeginPlaybackDone, RunStep DEF RunDone
<1> QED
  BY <1>3, <1>4 DEF UrlArrives

LEMMA StaleAnswerStep ==
    ASSUME Inv, NEW k \in Request, StaleAnswer(k)
    PROVE  Inv'
<1>1. UNCHANGED <<listVars, foreground, queue, wake, mpv>> /\ run' = [run EXCEPT !.stale = @ \ {k}]
  BY DEF StaleAnswer
<1>2. Good(run, foreground) /\ run \in Run
  BY DEF Inv, Good
<1>3. /\ run' \in Run /\ run'.current = run.current /\ run'.pending = run.pending
      /\ run'.resume = run.resume /\ run'.status = run.status /\ run'.item = run.item
      /\ run'.fresh = run.fresh
  BY <1>1, <1>2 DEF Run
<1>4. Good(run', foreground)
  BY <1>2, <1>3 DEF Good, Idle, Active, Silent, Unanswered
<1>5. Served(queue, run', wake') /\ wake' \in BOOLEAN /\ mpv' \in Mpv
  BY <1>1, <1>3 DEF Inv, Served, Idle
<1> QED
  BY <1>1, <1>3, <1>4, <1>5, RunStep

LEMMA CoreStep ==
    ASSUME Inv, Core
    PROVE  Inv'
<1>1. mpv \in Mpv /\ UNCHANGED <<listVars, foreground, queue, wake, run>>
  BY DEF Core, Inv
<1>2. \A e \in Event : Append(mpv.events, e) \in Seq(Event)
  BY <1>1, AppendProperties DEF Mpv
<1>3. mpv' \in Mpv
  <2>1. CASE CoreStarts
    BY <1>1, <1>2, <2>1 DEF CoreStarts, Mpv
  <2>2. CASE CoreAdvances
    <3>1. PICK p \in mpv.position + 1 .. ItemLength : mpv' = [mpv EXCEPT !.position = p]
      BY <2>2 DEF CoreAdvances
    <3>2. p \in Nat
      BY <1>1 DEF Mpv
    <3> QED
      BY <1>1, <3>1, <3>2 DEF Mpv
  <2>3. CASE CoreEnds
    <3>1. PICK e \in {"eof", "error"} :
            mpv' = [mpv EXCEPT !.entry = "idle", !.events = Append(@, e)]
      BY <2>3 DEF CoreEnds
    <3> QED
      BY <1>1, <1>2, <3>1 DEF Mpv
  <2> QED
    BY <2>1, <2>2, <2>3 DEF Core
<1> QED
  BY <1>1, <1>3, RunStep DEF Inv

LEMMA RestartedStep ==
    ASSUME Inv, mpv.events # <<>>, Restarted, UNCHANGED <<listVars, foreground, queue>>
    PROVE  Inv'
<1>1. /\ mpv \in Mpv /\ wake \in BOOLEAN /\ foreground \in BOOLEAN
      /\ Good(run, foreground) /\ run \in Run /\ UNCHANGED wake
  BY DEF Inv, Good, Restarted
<1>2. mpv' \in Mpv
  <2>1. Tail(mpv.events) \in Seq(Event)
    BY <1>1, HeadTailProperties DEF Mpv
  <2> QED
    BY <1>1, <2>1 DEF Restarted, Mpv
<1>3. CASE run.item # "loading"
  BY <1>1, <1>2, <1>3, RunStep DEF Restarted, Inv
<1>4. CASE run.item = "loading"
  <2>1. run' = [run EXCEPT !.item = "started", !.failures = 0, !.status = "playing"]
    BY <1>4 DEF Restarted
  <2>2. /\ run' \in Run /\ run'.current = run.current /\ run'.pending = run.pending
        /\ run'.resume = run.resume /\ run'.status = "playing" /\ run'.item = "started"
        /\ run'.fresh = run.fresh
    BY <1>1, <2>1 DEF Run
  <2>3. run.current # NoTask /\ run.pending = NoTask /\ ~foreground /\ Unanswered(run) = 0
    BY <1>1, <1>4 DEF Good, Silent
  <2>4. Good(run', foreground) /\ ~Idle(run')
    BY <1>1, <2>2, <2>3 DEF Good, Idle, Active, Unanswered
  <2> QED
    BY <1>1, <1>2, <2>2, <2>4, RunStep DEF Served
<1> QED
  BY <1>3, <1>4

LEMMA EndedStep ==
    ASSUME Inv, mpv.events # <<>>, Ended, UNCHANGED <<listVars, foreground, queue>>
    PROVE  Inv'
<1> DEFINE p == [mpv EXCEPT !.events = Tail(@), !.position = 0]
<1>1. /\ mpv \in Mpv /\ wake \in BOOLEAN /\ foreground \in BOOLEAN
      /\ Good(run, foreground) /\ run \in Run
  BY DEF Inv, Good
<1>2. p \in Mpv
  <2>1. Tail(mpv.events) \in Seq(Event)
    BY <1>1, HeadTailProperties DEF Mpv
  <2> QED
    BY <1>1, <2>1 DEF Mpv
<1>3. \/ run' = [run EXCEPT !.ignoreEnd = FALSE] /\ mpv' = p /\ UNCHANGED wake
      \/ mpv' = p /\ UNCHANGED <<run, wake>>
      \/ /\ run.item # "none" /\ run.current # NoTask
         /\ ItemEnded(p, Head(mpv.events) = "error")
  BY DEF Ended
<1> HIDE DEF p
<1>4. CASE run' = [run EXCEPT !.ignoreEnd = FALSE] /\ mpv' = p /\ UNCHANGED wake
  <2>1. /\ run' \in Run /\ run'.current = run.current /\ run'.pending = run.pending
        /\ run'.resume = run.resume /\ run'.status = run.status /\ run'.item = run.item
        /\ run'.fresh = run.fresh
    BY <1>1, <1>4 DEF Run
  <2>2. Good(run', foreground)
    BY <1>1, <2>1 DEF Good, Idle, Active, Silent, Unanswered
  <2>3. Served(queue, run', wake')
    BY <1>4, <2>1 DEF Inv, Served, Idle
  <2> QED
    BY <1>1, <1>2, <1>4, <2>1, <2>2, <2>3, RunStep
<1>5. CASE mpv' = p /\ UNCHANGED <<run, wake>>
  BY <1>1, <1>2, <1>5, RunStep DEF Inv
<1>6. CASE run.item # "none" /\ run.current # NoTask /\ ItemEnded(p, Head(mpv.events) = "error")
  <2> DEFINE r == [run EXCEPT !.item = "none", !.completed = @ + mpv.position]
             s == [r EXCEPT !.failures = 0]
  <2>1. run.completed + mpv.position \in Nat
    BY <1>1 DEF Run, Mpv
  <2>2. /\ r \in Run /\ r.current = run.current /\ r.pending = run.pending
        /\ r.resume = run.resume /\ r.status = run.status /\ r.item = "none"
        /\ r.fresh = run.fresh
    BY <1>1, <2>1 DEF Run
  <2>3. \/ EndTask(r, p, "completed")
        \/ Failing(r, p)
        \/ run' = NextCandidate(s) /\ mpv' = p /\ UNCHANGED wake
    BY <1>6 DEF ItemEnded
  <2> HIDE DEF r
  <2>4. /\ s \in Run /\ s.current = r.current /\ s.pending = r.pending
        /\ s.resume = r.resume /\ s.status = r.status /\ s.item = r.item
        /\ s.fresh = r.fresh
    BY <2>2 DEF Run
  <2> HIDE DEF s
  <2>5. /\ ~foreground /\ run.pending = NoTask /\ run.resume = FALSE /\ Unanswered(run) = 0
        /\ run.status \in {"starting", "playing"}
    BY <1>1, <1>6 DEF Good, Idle, Active, Run
  <2>6. Searching(r) /\ Searching(s)
    BY <1>1, <1>6, <2>2, <2>4, <2>5 DEF Searching, Silent, Unanswered
  <2>7. CASE EndTask(r, p, "completed")
    BY <1>1, <1>2, <2>2, <2>5, <2>7, EndTaskDone, RunStep DEF RunDone
  <2>8. CASE Failing(r, p)
    BY <1>2, <2>2, <2>6, <2>8, FailingDone, RunStep DEF RunDone
  <2>9. CASE run' = NextCandidate(s) /\ mpv' = p /\ UNCHANGED wake
    BY <1>2, <2>2, <2>4, <2>6, <2>9, SearchDone, RunStep DEF RunDone
  <2> QED
    BY <2>3, <2>7, <2>8, <2>9
<1> QED
  BY <1>3, <1>4, <1>5, <1>6

LEMMA DeliverEventStep ==
    ASSUME Inv, DeliverEvent
    PROVE  Inv'
BY RestartedStep, EndedStep DEF DeliverEvent

LEMMA ProgressTickStep ==
    ASSUME Inv, ProgressTick
    PROVE  Inv'
<1>1. run \in Run /\ run.pending = NoTask /\ mpv \in Mpv /\ foreground \in BOOLEAN
  BY DEF Inv, Good, ProgressTick
<1> QED
  BY <1>1, EndTaskDone, RunStep DEF ProgressTick, RunDone

-----------------------------------------------------------------------------
(* The invariant *)

LEMMA InvInit == Init => Inv
<1> SUFFICES ASSUME Init PROVE Inv
  OBVIOUS
<1>1. Good(FirstRun, FALSE)
  BY DEF FirstRun, Good, Run, Idle, Active, Unanswered, Silent
<1>2. Idle(FirstRun) /\ Elements(<<>>) = {}
  BY DEF FirstRun, Idle, Elements
<1>3. /\ saved \subseteq Task /\ automatic \subseteq saved /\ private \subseteq Task
      /\ privacy = FALSE /\ foreground = FALSE /\ queue = <<>> /\ wake = FALSE
      /\ run = FirstRun /\ listed = Visible(saved, private, FALSE)
  BY DEF Init
<1>4. mpv \in Mpv
  BY DEF Init, Mpv
<1>5. listed \subseteq Task /\ listed \cap private = {}
  BY <1>3 DEF Visible
<1>6. Discreet /\ Served(queue, run, wake)
  BY <1>2, <1>3, <1>5 DEF Discreet, Held, Served, Idle
<1>7. Good(run, foreground)
  BY <1>1, <1>3
<1>8. queue \in Seq(Task)
  BY <1>3, EmptySeq
<1> QED
  BY <1>3, <1>4, <1>5, <1>6, <1>7, <1>8 DEF Inv

LEMMA InvNext == Inv /\ [Next]_vars => Inv'
<1> SUFFICES ASSUME Inv, [Next]_vars PROVE Inv'
  OBVIOUS
<1>1. CASE UNCHANGED vars
  BY <1>1 DEF vars, Inv, Discreet, Held, Served, Idle, Good, Run, Active, Unanswered, Silent, Mpv
<1>2. CASE User
  BY <1>2, SaveTaskStep, SaveAndRunStep, DeleteTaskStep, RunNowStep, StopSteps,
     RemoveServiceStep, OpenPageStep, ForegroundOnStep, ForegroundOffStep DEF User
<1>3. CASE System
  BY <1>3, EvaluateStep, ZeroTimerStep, ProgressTickStep, CandidatesArriveStep, UrlArrivesStep,
     StaleAnswerStep, CoreStep, DeliverEventStep DEF System
<1> QED
  BY <1>1, <1>2, <1>3 DEF Next

THEOREM InvAlways == Spec => []Inv
BY InvInit, InvNext, PTL DEF Spec

-----------------------------------------------------------------------------
(* What follows from it *)

\* The variables keep their types.
THEOREM TypeCorrect == Spec => []TypeOK
<1>1. Inv => TypeOK
  BY DEF Inv, TypeOK, Good, Run, Mpv
<1> QED
  BY <1>1, InvAlways, PTL

\* The status AppViewModel asks tells whether a task is current or postponed.
THEOREM StatusIsHonest == Spec => []BusyIsHonest
<1>1. Inv => BusyIsHonest
  BY DEF Inv, BusyIsHonest, Good, Active, Busy
<1> QED
  BY <1>1, InvAlways, PTL

\* Nothing plays in the background while the user watches something.
THEOREM ForegroundIsFirst == Spec => []ForegroundFirst
<1>1. Inv => ForegroundFirst
  BY DEF Inv, ForegroundFirst, Good
<1> QED
  BY <1>1, InvAlways, PTL

\* A task waits for nothing but the foreground.
THEOREM WaitsOnlyForForeground == Spec => []WaitsForForegroundOnly
<1>1. Inv => WaitsForForegroundOnly
  BY DEF Inv, WaitsForForegroundOnly, Good
<1> QED
  BY <1>1, InvAlways, PTL

\* While tasks are queued, one runs or a zero timer will start the first.
THEOREM QueueIsServed == Spec => []QueueServed
<1>1. Inv => QueueServed
  BY DEF Inv, QueueServed, Served
<1> QED
  BY <1>1, InvAlways, PTL

\* A run hangs on exactly one thing: the candidates, an address, or an item.
THEOREM AwaitsOneThing == Spec => []OneThingAwaited
<1>1. Inv => OneThingAwaited
  BY DEF Inv, OneThingAwaited, Good, Unanswered, Silent
<1> QED
  BY <1>1, InvAlways, PTL

\* While the task list can be read, no task of a private service runs, waits or
\* is queued outside private mode.
THEOREM PrivacyIsKept == ~ReadsFail /\ Spec => []PrivacyKept
<1>1. ~ReadsFail /\ Inv => PrivacyKept
  <2> SUFFICES ASSUME ~ReadsFail, Inv, ~privacy
               PROVE  {run.current, run.pending} \cup QueuedTasks \subseteq (Task \ private) \cup {NoTask}
    BY DEF PrivacyKept
  <2>1. QueuedTasks = Elements(queue)
    BY DEF QueuedTasks, Elements
  <2>2. Held(queue, run) \cap private = {}
    BY DEF Inv, Discreet
  <2>3. Elements(queue) \subseteq Task
    BY LenProperties DEF Inv, Elements
  <2>4. run.current \in Task \cup {NoTask} /\ run.pending \in Task \cup {NoTask}
    BY DEF Inv, Good, Run
  <2> QED
    BY <2>1, <2>2, <2>3, <2>4 DEF Held
<1>2. CASE ReadsFail
  BY <1>2
<1>3. CASE ~ReadsFail
  <2>1. Inv => PrivacyKept
    BY <1>1, <1>3
  <2> QED
    BY <2>1, InvAlways, PTL
<1> QED
  BY <1>2, <1>3

-----------------------------------------------------------------------------
(* No due task is dropped *)

\* The two halves of what NoDueTaskDropped says of a step.
QueueFate ==
    \A i \in DOMAIN queue :
       \/ InQueue(queue', queue[i])
       \/ queue[i] \in {run'.current, run'.pending}
       \/ run'.status = "idle"
       \/ wake' = TRUE /\ \A j \in 1..i : ~InQueue(queue', queue[j])
       \/ queue[i] \notin listed' \cap automatic'

PendingFate ==
    run.pending # NoTask =>
       \/ run.pending \in {run'.current, run'.pending}
       \/ run'.status = "idle"
       \/ wake' = TRUE /\ run'.status = "error"

\* What a step does to the queue: no task comes in twice, none is dropped.
Lossless == Once(queue') /\ QueueFate /\ PendingFate

LEMMA TailIs ==
    ASSUME NEW q \in Seq(Task), q # <<>>
    PROVE  /\ Tail(q) \in Seq(Task)
           /\ Len(q) \in Nat /\ Len(q) >= 1 /\ DOMAIN q = 1..Len(q)
           /\ Head(q) = q[1] /\ Head(q) \in Task
           /\ Len(Tail(q)) = Len(q) - 1 /\ DOMAIN Tail(q) = 1..(Len(q) - 1)
           /\ \A i \in 1..(Len(q) - 1) : Tail(q)[i] = q[i + 1]
<1>1. Len(q) \in Nat \ {0} /\ Head(q) = q[1] /\ Head(q) \in Task /\ DOMAIN q = 1..Len(q)
  BY EmptySeq, LenProperties, HeadTailProperties
<1>2. /\ Tail(q) \in Seq(Task) /\ Len(Tail(q)) = Len(q) - 1
      /\ \A i \in 1..Len(Tail(q)) : Tail(q)[i] = q[i + 1]
  BY HeadTailProperties
<1>3. DOMAIN Tail(q) = 1..(Len(q) - 1)
  BY <1>2, LenProperties
<1> QED
  BY <1>1, <1>2, <1>3

\* rest is s without its first n elements.
Rest(rest, s, n) ==
    /\ n \in 0..Len(s)
    /\ rest \in Seq(Task)
    /\ Len(rest) = Len(s) - n
    /\ \A i \in 1..(Len(s) - n) : rest[i] = s[i + n]

LEMMA RestOnce ==
    ASSUME NEW s \in Seq(Task), Once(s), NEW n, NEW rest, Rest(rest, s, n)
    PROVE  /\ Once(rest)
           /\ \A t : InQueue(rest, t) <=> \E m \in DOMAIN s : n < m /\ s[m] = t
<1>1. /\ Len(s) \in Nat /\ DOMAIN s = 1..Len(s) /\ n \in Nat /\ n <= Len(s)
      /\ DOMAIN rest = 1..(Len(s) - n)
  BY LenProperties DEF Rest
<1>2. \A i \in 1..(Len(s) - n) : rest[i] = s[i + n]
  BY DEF Rest
<1>3. ASSUME NEW i \in DOMAIN rest, NEW j \in DOMAIN rest, rest[i] = rest[j] PROVE i = j
  <2>1. i \in Nat /\ j \in Nat /\ i + n \in DOMAIN s /\ j + n \in DOMAIN s
    BY <1>1
  <2>2. s[i + n] = s[j + n]
    BY <1>1, <1>2, <1>3
  <2>3. i + n = j + n
    BY <2>1, <2>2 DEF Once
  <2> QED
    BY <1>1, <2>1, <2>3
<1>4. ASSUME NEW t, InQueue(rest, t) PROVE \E m \in DOMAIN s : n < m /\ s[m] = t
  <2>1. PICK i \in DOMAIN rest : rest[i] = t
    BY <1>4 DEF InQueue
  <2>2. i + n \in DOMAIN s /\ n < i + n /\ s[i + n] = t
    BY <1>1, <1>2, <2>1
  <2> QED
    BY <2>2
<1>5. ASSUME NEW t, NEW m \in DOMAIN s, n < m, s[m] = t PROVE InQueue(rest, t)
  <2>1. m - n \in DOMAIN rest /\ (m - n) + n = m
    BY <1>1, <1>5
  <2>2. rest[m - n] = s[(m - n) + n]
    BY <1>1, <1>2, <2>1
  <2>3. rest[m - n] = t
    BY <1>5, <2>1, <2>2
  <2> QED
    BY <2>1, <2>3 DEF InQueue
<1> QED
  BY <1>3, <1>4, <1>5 DEF Once

LEMMA RestTail ==
    ASSUME NEW s \in Seq(Task), NEW n, NEW rest, Rest(rest, s, n), rest # <<>>
    PROVE  Rest(Tail(rest), s, n + 1) /\ n + 1 \in DOMAIN s /\ Head(rest) = s[n + 1]
<1>1. /\ Len(s) \in Nat /\ DOMAIN s = 1..Len(s) /\ n \in Nat /\ n <= Len(s)
      /\ rest \in Seq(Task) /\ Len(rest) = Len(s) - n
  BY LenProperties DEF Rest
<1>2. \A i \in 1..(Len(s) - n) : rest[i] = s[i + n]
  BY DEF Rest
<1>3. /\ Tail(rest) \in Seq(Task) /\ Len(rest) >= 1 /\ Head(rest) = rest[1]
      /\ Len(Tail(rest)) = Len(rest) - 1
      /\ \A i \in 1..(Len(rest) - 1) : Tail(rest)[i] = rest[i + 1]
  BY <1>1, TailIs
<1>4. n + 1 \in DOMAIN s /\ Head(rest) = s[n + 1]
  BY <1>1, <1>2, <1>3
<1>5. ASSUME NEW i \in 1..(Len(s) - (n + 1)) PROVE Tail(rest)[i] = s[i + (n + 1)]
  <2>1. i \in 1..(Len(rest) - 1) /\ i + 1 \in 1..(Len(s) - n) /\ (i + 1) + n = i + (n + 1)
    BY <1>1
  <2>2. Tail(rest)[i] = rest[i + 1] /\ rest[i + 1] = s[(i + 1) + n]
    BY <1>2, <1>3, <2>1
  <2> QED
    BY <2>1, <2>2
<1>6. n + 1 \in 0..Len(s)
  BY <1>1, <1>4
<1>7. Len(Tail(rest)) = Len(s) - (n + 1)
  <2> DEFINE l == Len(s)
             k == Len(rest)
  <2>1. l \in Nat /\ n \in Nat /\ k = l - n /\ Len(Tail(rest)) = k - 1
    BY <1>1, <1>3
  <2> HIDE DEF l, k
  <2>2. Len(Tail(rest)) = l - (n + 1)
    BY <2>1
  <2> QED
    BY <2>2 DEF l
<1> QED
  BY <1>3, <1>4, <1>5, <1>6, <1>7 DEF Rest

\* The queue has become s, which keeps the order of the queue, without its first
\* n tasks, and these are taken on or leave a timer behind.
LEMMA HeadsGone ==
    ASSUME Inv, NEW K, listed' \cap automatic' \subseteq K,
           NEW s \in Seq(Task), InOrder(s, queue, K),
           NEW n, Rest(queue', s, n),
           \A m \in DOMAIN s : m <= n => s[m] \in {run'.current, run'.pending} \/ wake' = TRUE
    PROVE  QueueFate /\ Once(queue')
<1>1. /\ Len(s) \in Nat /\ DOMAIN s = 1..Len(s) /\ n \in Nat
      /\ DOMAIN queue = 1..Len(queue) /\ Len(queue) \in Nat
  BY LenProperties DEF Rest, Inv
<1>2. Once(s)
  BY DEF InOrder
<1>3. Once(queue') /\ \A t : InQueue(queue', t) <=> \E m \in DOMAIN s : n < m /\ s[m] = t
  BY <1>2, RestOnce
<1>4. ASSUME NEW i \in DOMAIN queue, queue[i] \in K, ~InQueue(queue', queue[i]),
             queue[i] \notin {run'.current, run'.pending}
      PROVE  wake' = TRUE /\ \A j \in 1..i : ~InQueue(queue', queue[j])
  <2>1. PICK m \in DOMAIN s : s[m] = queue[i]
    BY <1>4 DEF InOrder, InQueue
  <2>2. m <= n
    BY <1>1, <1>3, <1>4, <2>1
  <2>3. wake' = TRUE
    BY <1>4, <2>1, <2>2
  <2>4. ASSUME NEW j \in 1..i, InQueue(queue', queue[j]) PROVE FALSE
    <3>1. PICK k \in DOMAIN s : n < k /\ s[k] = queue[j]
      BY <1>3, <2>4
    <3>2. j \in DOMAIN queue /\ j <= i
      BY <1>1
    <3>3. k <= m
      BY <2>1, <3>1, <3>2 DEF InOrder
    <3> QED
      BY <1>1, <2>2, <3>1, <3>3
  <2> QED
    BY <2>3, <2>4
<1>5. QueueFate
  BY <1>4 DEF QueueFate
<1> QED
  BY <1>3, <1>5

\* A call of startTask with the head of what is left of s.
LEMMA StartTaskTakes ==
    ASSUME NEW fg \in BOOLEAN, NEW r, Free(r), NEW t \in Task, NEW w, StartTask(r, t, fg, w)
    PROVE  \/ t \in {run'.current, run'.pending} /\ wake' = w
           \/ wake' = TRUE /\ run'.status = "error"
<1>1. CASE run' = TakenOn(r, t, fg) /\ wake' = w
  BY <1>1, TakenOnGood DEF Idle
<1>2. CASE EndTask(r, mpv, "error")
  <2> DEFINE g == ItemStopped(NewGeneration(r), 0)
  <2>1. g \in Run
    BY GivenUpRun DEF Free, SameRun
  <2>2. Over(r, "error").status = "error"
    <3> HIDE DEF g
    <3>1. Over(r, "error") = [g EXCEPT !.current = NoTask, !.resume = FALSE, !.status = "error",
                                       !.completed = IF "error" = "completed" THEN Target ELSE @]
      BY DEF Over, g
    <3> QED
      BY <2>1, <3>1 DEF Run
  <2> QED
    BY <1>2, <2>2 DEF EndTask
<1> QED
  BY <1>1, <1>2 DEF StartTask

\* A call of startNextScheduledTask on what is left of s.
LEMMA StartNextTakes ==
    ASSUME Inv, NEW K, listed' \cap automatic' \subseteq K,
           NEW s \in Seq(Task), InOrder(s, queue, K),
           NEW n, NEW q, Rest(q, s, n),
           NEW r, Good(r, foreground), NEW w \in BOOLEAN, n > 0 => w = TRUE,
           StartNext(q, r, w)
    PROVE  QueueFate /\ Once(queue')
<1>1. n \in Nat /\ q \in Seq(Task) /\ foreground \in BOOLEAN /\ DOMAIN s = 1..Len(s) /\ Len(s) \in Nat
  BY LenProperties DEF Rest, Inv
<1>2. CASE ~Idle(r) \/ q = <<>>
  <2>1. queue' = q /\ wake' = w
    BY <1>2 DEF StartNext
  <2>2. \A m \in DOMAIN s : m <= n => wake' = TRUE
    BY <1>1, <2>1
  <2>3. Rest(queue', s, n)
    BY <2>1
  <2> QED
    BY <2>2, <2>3, HeadsGone
<1>3. CASE Idle(r) /\ q # <<>>
  <2>1. queue' = Tail(q) /\ StartTask(r, Head(q), foreground, w)
    BY <1>3 DEF StartNext
  <2>2. Rest(queue', s, n + 1) /\ n + 1 \in DOMAIN s /\ Head(q) = s[n + 1]
    BY <1>3, <2>1, RestTail
  <2>3. Head(q) \in Task /\ Free(r)
    BY <1>1, <1>3, TailIs, GoodIsFree
  <2>4. \/ Head(q) \in {run'.current, run'.pending} /\ wake' = w
        \/ wake' = TRUE
    BY <1>1, <2>1, <2>3, StartTaskTakes
  <2>5. ASSUME NEW m \in DOMAIN s, m <= n + 1
        PROVE  s[m] \in {run'.current, run'.pending} \/ wake' = TRUE
    <3>1. m = n + 1 \/ n > 0
      BY <1>1, <2>5
    <3> QED
      BY <2>2, <2>4, <3>1
  <2> QED
    BY <2>2, <2>5, HeadsGone
<1> QED
  BY <1>2, <1>3

\* The same on the whole of s.
LEMMA StartNextLossless ==
    ASSUME Inv, NEW K, listed' \cap automatic' \subseteq K,
           NEW s \in Seq(Task), InOrder(s, queue, K), NEW w \in BOOLEAN,
           StartNext(s, run, w) \/ StartNextAgain(s)
    PROVE  Lossless
<1>1. Good(run, foreground) /\ foreground \in BOOLEAN
  BY DEF Inv
<1>2. Len(s) \in Nat /\ Rest(s, s, 0)
  <2>1. Len(s) \in Nat
    BY LenProperties
  <2>2. \A i \in 1..(Len(s) - 0) : s[i] = s[i + 0]
    BY <2>1
  <2> QED
    BY <2>1, <2>2 DEF Rest
<1>3. CASE StartNext(s, run, w)
  <2>1. QueueFate /\ Once(queue')
    <3>1. ~(0 > 0)
      OBVIOUS
    <3> QED
      BY <1>1, <1>2, <1>3, <3>1, StartNextTakes
  <2>2. run' = run \/ run.pending = NoTask
    BY <1>3 DEF StartNext, Idle
  <2> QED
    BY <2>1, <2>2 DEF PendingFate, Lossless
<1>4. CASE StartNextAgain(s)
  <2> DEFINE r == Over(run, "error")
  <2>1. s # <<>> /\ Idle(run) /\ StartNext(Tail(s), r, TRUE)
    BY <1>4 DEF StartNextAgain
  <2>2. Good(r, foreground)
    BY <1>1, <2>1, OverGood DEF Good, Idle
  <2>3. Rest(Tail(s), s, 1)
    <3>1. Rest(Tail(s), s, 0 + 1)
      BY <1>2, <2>1, RestTail
    <3> QED
      BY <3>1
  <2> HIDE DEF r
  <2>4. QueueFate /\ Once(queue')
    BY <2>1, <2>2, <2>3, StartNextTakes
  <2> QED
    BY <2>1, <2>4 DEF PendingFate, Lossless, Idle
<1> QED
  BY <1>3, <1>4

\* The queue itself is in order, and so is what is kept of it.
LEMMA QueueInOrder ==
    ASSUME NEW q \in Seq(Task), Once(q)
    PROVE  InOrder(q, q, Task) /\ \A K : InOrder(Kept(q, K), q, K)
<1>1. DOMAIN q = 1..Len(q) /\ Len(q) \in Nat
  BY LenProperties
<1>2. InOrder(q, q, Task)
  BY <1>1 DEF InOrder, InQueue, Once
<1>3. \A K : InOrder(Kept(q, K), q, K)
  BY SubsequenceInOrder DEF Kept
<1> QED
  BY <1>2, <1>3

\* What follows a longer queue follows its beginning.
LEMMA PrefixInOrder ==
    ASSUME NEW q \in Seq(Task), NEW o \in Seq(Task), NEW s, NEW K, InOrder(s, q \o o, K)
    PROVE  InOrder(s, q, K)
<1> DEFINE c == q \o o
<1>1. /\ c \in Seq(Task) /\ Len(c) = Len(q) + Len(o)
      /\ \A i \in 1..Len(c) : c[i] = IF i <= Len(q) THEN q[i] ELSE o[i - Len(q)]
  BY ConcatProperties
<1>2. /\ DOMAIN c = 1..Len(c) /\ DOMAIN q = 1..Len(q) /\ Len(q) \in Nat /\ Len(o) \in Nat
  BY <1>1, LenProperties
<1>3. InOrder(s, c, K)
  OBVIOUS
<1> HIDE DEF c
<1>4. \A i \in DOMAIN q : i \in DOMAIN c /\ c[i] = q[i]
  BY <1>1, <1>2
<1> QED
  BY <1>3, <1>4 DEF InOrder

LEMMA UnchangedQueue ==
    ASSUME Inv, Once(queue), UNCHANGED queue, PendingFate
    PROVE  Lossless
<1>1. QueueFate
  BY DEF QueueFate, InQueue
<1> QED
  BY <1>1 DEF Lossless

LEMMA HaltLossless ==
    ASSUME Inv, Halt
    PROVE  Lossless
<1> DEFINE g == ItemStopped(NewGeneration(run), 0)
<1>1. g \in Run
  BY GivenUpRun DEF Inv, Good, SameRun
<1>2. run'.status = "idle"
  <2> HIDE DEF g
  <2>1. run' = [g EXCEPT !.current = NoTask, !.pending = NoTask, !.resume = FALSE, !.status = "idle",
                         !.candidates = 0, !.completed = 0, !.failures = 0]
    BY DEF Halt, Halted, g
  <2> QED
    BY <1>1, <2>1 DEF Run
<1>3. Once(queue')
  BY DEF Halt, Once
<1> QED
  BY <1>2, <1>3 DEF Lossless, QueueFate, PendingFate

LEMMA RefreshLossless ==
    ASSUME Inv, Once(queue), Refresh(queue, run, wake)
    PROVE  Lossless
<1>1. queue \in Seq(Task) /\ wake \in BOOLEAN
  BY DEF Inv
<1>2. CASE StartNext(Kept(queue, listed' \cap automatic'), run, wake)
  <2>1. /\ Kept(queue, listed' \cap automatic') \in Seq(Task)
        /\ InOrder(Kept(queue, listed' \cap automatic'), queue, listed' \cap automatic')
    BY <1>1, KeptType, QueueInOrder
  <2> QED
    BY <1>1, <1>2, <2>1, StartNextLossless
<1>3. CASE queue' = queue /\ run' = run
  BY <1>3, UnchangedQueue DEF PendingFate
<1> QED
  BY <1>2, <1>3 DEF Refresh

LEMMA EvaluateLossless ==
    ASSUME Inv, Once(queue), NEW D \in SUBSET (listed \cap automatic), Evaluate(D)
    PROVE  Lossless
<1> DEFINE new == D \ (QueuedTasks \cup {run.current, run.pending})
           now == Visible(saved, private, privacy)
           kept(o) == Kept(queue \o o, now \cap automatic)
<1>1. queue \in Seq(Task) /\ wake \in BOOLEAN /\ listed \subseteq Task /\ automatic' \subseteq Task
  BY DEF Inv, Evaluate
<1>2. PICK o \in Orders(new) :
        \/ listed' = listed /\ StartNext(queue \o o, run, wake)
        \/ /\ listed' = now
           /\ StartNext(kept(o), run, wake) \/ StartNextAgain(kept(o))
  BY DEF Evaluate
<1>3. o \in Seq(Task) /\ Elements(o) \subseteq new /\ Once(o)
  <2>1. new \in SUBSET Task
    BY <1>1
  <2>2. Once(o)
    BY <1>2 DEF Orders, Once
  <2> HIDE DEF new
  <2> QED
    BY <1>2, <2>1, <2>2, OrdersType
<1>4. \A t \in Task : InQueue(queue, t) => ~InQueue(o, t)
  BY <1>3 DEF Elements, InQueue, QueuedTasks
<1>5. queue \o o \in Seq(Task) /\ Once(queue \o o)
  BY <1>1, <1>3, <1>4, ConcatOnce, ConcatElements
<1>6. InOrder(queue \o o, queue, Task)
  BY <1>1, <1>3, <1>5, QueueInOrder, PrefixInOrder
<1>7. kept(o) \in Seq(Task) /\ InOrder(kept(o), queue, now \cap automatic)
  <2>1. InOrder(kept(o), queue \o o, now \cap automatic)
    BY <1>5, QueueInOrder
  <2> HIDE DEF now
  <2> QED
    BY <1>1, <1>3, <1>5, <2>1, KeptType, PrefixInOrder
<1>8. automatic' = automatic
  BY DEF Evaluate
<1> HIDE DEF now, new
<1>9. CASE listed' = listed /\ StartNext(queue \o o, run, wake)
  BY <1>1, <1>5, <1>6, <1>9, StartNextLossless
<1>10. CASE listed' = now /\ (StartNext(kept(o), run, wake) \/ StartNextAgain(kept(o)))
  <2>1. listed' \cap automatic' \subseteq now \cap automatic
    BY <1>8, <1>10
  <2> QED
    BY <1>1, <1>7, <1>10, <2>1, StartNextLossless
<1> QED
  BY <1>2, <1>9, <1>10

LEMMA SaveAndRunLossless ==
    ASSUME Inv, Once(queue), NEW t \in Task, NEW auto \in BOOLEAN, SaveAndRun(t, auto)
    PROVE  Lossless
<1> DEFINE kept == Kept(queue, listed' \cap automatic')
<1>1. Free(run) /\ Idle(run) /\ Free(Over(run, "error"))
  BY NotBusyIsFree DEF SaveAndRun
<1>2. PendingFate
  BY <1>1 DEF PendingFate, Idle
<1>3. foreground \in BOOLEAN /\ wake \in BOOLEAN /\ queue \in Seq(Task)
  BY DEF Inv
<1>4. \/ kept = <<>> /\ queue' = kept
      \/ /\ kept # <<>>
         /\ queue' = Tail(kept)
         /\ \/ run' = TakenOn(run, Head(kept), foreground)
            \/ StartTask(Over(run, "error"), t, foreground, TRUE)
      \/ UNCHANGED queue
  BY DEF SaveAndRun
<1>5. kept \in Seq(Task) /\ InOrder(kept, queue, listed' \cap automatic')
  BY <1>3, KeptType, QueueInOrder
<1> HIDE DEF kept
<1>6. Len(kept) \in Nat /\ DOMAIN kept = 1..Len(kept) /\ Rest(kept, kept, 0)
  <2>1. Len(kept) \in Nat /\ DOMAIN kept = 1..Len(kept)
    BY <1>5, LenProperties
  <2>2. \A i \in 1..(Len(kept) - 0) : kept[i] = kept[i + 0]
    BY <2>1
  <2> QED
    BY <1>5, <2>1, <2>2 DEF Rest
<1>7. CASE queue' = kept
  <2>1. \A m \in DOMAIN kept : ~(m <= 0)
    BY <1>6
  <2>2. Rest(queue', kept, 0)
    BY <1>6, <1>7
  <2> QED
    BY <1>2, <1>5, <2>1, <2>2, HeadsGone DEF Lossless
<1>8. CASE /\ kept # <<>> /\ queue' = Tail(kept)
           /\ \/ run' = TakenOn(run, Head(kept), foreground)
              \/ StartTask(Over(run, "error"), t, foreground, TRUE)
  <2>1. Rest(Tail(kept), kept, 0 + 1) /\ Head(kept) = kept[0 + 1] /\ Head(kept) \in Task
    BY <1>5, <1>6, <1>8, RestTail, TailIs
  <2>2. Rest(queue', kept, 1) /\ Head(kept) = kept[1]
    BY <1>8, <2>1
  <2>3. Head(kept) \in {run'.current, run'.pending} \/ wake' = TRUE
    <3>1. CASE run' = TakenOn(run, Head(kept), foreground)
      BY <1>1, <1>3, <2>1, <3>1, TakenOnGood DEF Idle
    <3>2. CASE StartTask(Over(run, "error"), t, foreground, TRUE)
      BY <1>1, <1>3, <3>2, StartTaskTakes
    <3> QED
      BY <1>8, <3>1, <3>2
  <2>4. \A m \in DOMAIN kept : m <= 1 => m = 1
    BY <1>6
  <2>5. \A m \in DOMAIN kept : m <= 1 => kept[m] \in {run'.current, run'.pending} \/ wake' = TRUE
    BY <2>2, <2>3, <2>4
  <2> QED
    BY <1>2, <1>5, <2>2, <2>5, HeadsGone DEF Lossless
<1>9. CASE UNCHANGED queue
  BY <1>2, <1>9, UnchangedQueue
<1> QED
  BY <1>4, <1>7, <1>8, <1>9

\* What the user does otherwise.
LEMMA UserLossless ==
    ASSUME Inv, Once(queue), User
    PROVE  Lossless
<1>1. ASSUME NEW t \in Task, NEW auto \in BOOLEAN, SaveTask(t, auto) PROVE Lossless
  BY <1>1, RefreshLossless DEF SaveTask
<1>2. ASSUME NEW t \in Task, DeleteTask(t) PROVE Lossless
  <2>1. CASE Halt
    BY <2>1, HaltLossless
  <2>2. CASE Refresh(queue, run, wake)
    BY <2>2, RefreshLossless
  <2>3. CASE UNCHANGED <<queue, run>>
    BY <2>3, UnchangedQueue DEF PendingFate
  <2> QED
    BY <1>2, <2>1, <2>2, <2>3 DEF DeleteTask
<1>3. ASSUME NEW t \in Task, RunNow(t) PROVE Lossless
  BY <1>3, UnchangedQueue DEF RunNow, PendingFate, Idle
<1>4. CASE UserStop \/ TogglePrivacy \/ (\E t \in Task : SetPrivate(t))
  BY <1>4, HaltLossless DEF UserStop, TogglePrivacy, SetPrivate
<1>5. ASSUME NEW t \in Task, RemoveService(t) PROVE Lossless
  BY <1>5, UnchangedQueue DEF RemoveService, PendingFate
<1>6. CASE OpenPage
  BY <1>6, RefreshLossless DEF OpenPage
<1>7. CASE ForegroundOn
  <2>1. run' = run \/ run.pending = NoTask
    BY <1>7 DEF ForegroundOn, Inv, Good
  <2> QED
    BY <1>7, <2>1, UnchangedQueue DEF ForegroundOn, PendingFate
<1>8. CASE ForegroundOff
  <2>1. UNCHANGED queue /\ Good(run, foreground) /\ run \in Run
    BY <1>8 DEF ForegroundOff, Inv, Good
  <2>2. CASE run.pending # NoTask
    <3> DEFINE r == [run EXCEPT !.pending = NoTask]
    <3>1. StartTask(r, run.pending, FALSE, wake) /\ run.pending \in Task
      BY <1>8, <2>1, <2>2 DEF ForegroundOff, Good, Run
    <3>2. /\ r \in Run /\ r.current = NoTask /\ r.pending = NoTask /\ r.item = run.item
          /\ r.resume = run.resume /\ r.fresh = run.fresh
      BY <2>1, <2>2 DEF Run, Good
    <3>3. Free(r)
      BY <2>1, <2>2, <3>2 DEF Free, Idle, Good, Silent, Unanswered
    <3> HIDE DEF r
    <3>4. \/ run.pending \in {run'.current, run'.pending}
          \/ wake' = TRUE /\ run'.status = "error"
      BY <3>1, <3>3, StartTaskTakes
    <3> QED
      BY <2>1, <3>4, UnchangedQueue DEF PendingFate
  <2> QED
    BY <2>1, <2>2, UnchangedQueue DEF PendingFate
<1> QED
  BY <1>1, <1>2, <1>3, <1>4, <1>5, <1>6, <1>7, <1>8, SaveAndRunLossless DEF User

\* The rest of the system leaves the queue and a postponed task alone.
LEMMA SystemLossless ==
    ASSUME Inv, Once(queue), System
    PROVE  Lossless
<1>1. Good(run, foreground) /\ run \in Run
  BY DEF Inv, Good
<1>2. CASE ZeroTimer
  <2>1. queue \in Seq(Task) /\ InOrder(queue, queue, Task) /\ listed' \cap automatic' \subseteq Task
    BY <1>2, QueueInOrder DEF Inv, ZeroTimer, listVars
  <2> QED
    BY <1>2, <2>1, StartNextLossless DEF ZeroTimer
<1>3. CASE ProgressTick
  <2>1. UNCHANGED queue /\ run.pending = NoTask
    BY <1>1, <1>3 DEF ProgressTick, Good
  <2> QED
    BY <2>1, UnchangedQueue DEF PendingFate
<1>4. CASE CandidatesArrive \/ UrlArrives
  <2>1. UNCHANGED queue /\ \E k \in Request : run.fresh[k] > 0
    BY <1>4 DEF CandidatesArrive, UrlArrives
  <2>2. PICK k \in Request : run.fresh[k] > 0
    BY <2>1
  <2>3. Searching(Taken(k)) /\ Taken(k).pending = run.pending
    BY <1>1, <2>2, TakenSearches DEF Taken, Run
  <2> QED
    BY <2>1, <2>3, UnchangedQueue DEF PendingFate, Searching
<1>5. ASSUME NEW k \in Request, StaleAnswer(k) PROVE Lossless
  <2>1. UNCHANGED queue /\ run'.pending = run.pending
    BY <1>1, <1>5 DEF StaleAnswer, Run
  <2> QED
    BY <2>1, UnchangedQueue DEF PendingFate
<1>6. CASE Core
  BY <1>6, UnchangedQueue DEF Core, PendingFate
<1>7. CASE DeliverEvent
  <2>1. UNCHANGED queue
    BY <1>7 DEF DeliverEvent
  <2>2. run'.pending = run.pending \/ run.pending = NoTask
    BY <1>1, <1>7 DEF DeliverEvent, Restarted, Ended, Good, Run
  <2> QED
    BY <2>1, <2>2, UnchangedQueue DEF PendingFate
<1> QED
  BY <1>2, <1>3, <1>4, <1>5, <1>6, <1>7, EvaluateLossless DEF System

LEMMA NextLossless ==
    ASSUME Inv, Once(queue), Next
    PROVE  Lossless
BY UserLossless, SystemLossless DEF Next

\* A task that is queued or postponed leaves its place only to run or to wait
\* for the foreground, or because its session or its policy is gone, or because
\* everything is stopped.
THEOREM DueTasksAreKept == Spec => NoDueTaskDropped
<1>1. Init => Once(queue)
  BY DEF Init, Once
<1>2. Inv /\ Once(queue) /\ [Next]_vars => Once(queue)'
  <2>1. ASSUME Inv, Once(queue), Next PROVE Once(queue')
    BY <2>1, NextLossless DEF Lossless
  <2>2. ASSUME Once(queue), UNCHANGED vars PROVE Once(queue')
    BY <2>2 DEF vars
  <2> QED
    BY <2>1, <2>2
<1>3. Inv /\ Once(queue) /\ [Next]_vars =>
        [LET still == {queue'[i] : i \in DOMAIN queue'} IN
         /\ \A i \in DOMAIN queue :
               \/ queue[i] \in still \cup {run'.current, run'.pending}
               \/ run'.status = "idle"
               \/ wake' /\ \A j \in 1..i : queue[j] \notin still
               \/ queue[i] \notin listed' \cap automatic'
         /\ run.pending # NoTask =>
               \/ run.pending \in {run'.current, run'.pending}
               \/ run'.status = "idle"
               \/ wake' /\ run'.status = "error"]_vars
  <2> SUFFICES ASSUME Inv, Once(queue), Next
               PROVE  LET still == {queue'[i] : i \in DOMAIN queue'} IN
                      /\ \A i \in DOMAIN queue :
                            \/ queue[i] \in still \cup {run'.current, run'.pending}
                            \/ run'.status = "idle"
                            \/ wake' /\ \A j \in 1..i : queue[j] \notin still
                            \/ queue[i] \notin listed' \cap automatic'
                      /\ run.pending # NoTask =>
                            \/ run.pending \in {run'.current, run'.pending}
                            \/ run'.status = "idle"
                            \/ wake' /\ run'.status = "error"
    OBVIOUS
  <2> DEFINE still == {queue'[i] : i \in DOMAIN queue'}
  <2>1. \A t : InQueue(queue', t) <=> t \in still
    BY DEF InQueue
  <2>2. QueueFate /\ PendingFate
    BY NextLossless DEF Lossless
  <2> HIDE DEF still
  <2>3. \A i \in DOMAIN queue :
          \/ queue[i] \in still \cup {run'.current, run'.pending}
          \/ run'.status = "idle"
          \/ wake' /\ \A j \in 1..i : queue[j] \notin still
          \/ queue[i] \notin listed' \cap automatic'
    BY <2>1, <2>2 DEF QueueFate
  <2>4. run.pending # NoTask =>
          \/ run.pending \in {run'.current, run'.pending}
          \/ run'.status = "idle"
          \/ wake' /\ run'.status = "error"
    BY <2>2 DEF PendingFate
  <2> QED
    BY <2>3, <2>4 DEF still
<1> QED
  BY <1>1, <1>2, <1>3, InvAlways, PTL DEF Spec, NoDueTaskDropped

=============================================================================
