----------------------------- MODULE PlaybackProofs -----------------------------
(***************************************************************************)
(* Proofs about what is played and what serves it.  First the foreground   *)
(* playback: the player with the events of libmpv and the capture of       *)
(* covers (PlayerController), and what the view model keeps beside it      *)
(* (PlaybackSession), for any number of attempts, timers, events and       *)
(* requests.  Then the local server of the encrypted HLS proxy and the     *)
(* queue of its identifier previews (PlaybackProxy), for every number of   *)
(* sessions, connections, packages, replacements on the server, jobs and   *)
(* retries.                                                                *)
(*                                                                         *)
(* Server and previews share no variable: the invariant of the server      *)
(* speaks of one connection and its session at a time, that of the         *)
(* previews of the queue and the slots.                                    *)
(***************************************************************************)
EXTENDS PlaybackSession, PlaybackProxy, SubsequenceLemmas

-----------------------------------------------------------------------------
(* The player *)

(***************************************************************************)
(* A capture is under way only while there is an audio player with a cover *)
(* among its tracks, and without a request it has an attempt left.  An     *)
(* event that starts the spinner has one behind it that ends it, or libmpv *)
(* has a file to start or to open.                                         *)
(***************************************************************************)
CoverGood(p) ==
    LET c == p.cover
    IN  /\ c.pending => (c.request \/ c.timers > 0) /\ p.mode = "audio" /\ c.track /\ ~c.exhausted /\ ~c.shown
        /\ c.pending /\ ~c.request => c.tries < MaxTries
        /\ c.track => c.shown \/ c.pending \/ c.exhausted

Enders == {"loaded", "restart", "eof", "error"}
EndsAfter(p, i) ==
    \/ p.next \/ p.file = "opening"
    \/ \E j \in DOMAIN p.events : j > i /\ p.events[j] \in Enders

SpinnerGood(p) ==
    /\ p.loading => EndsAfter(p, 0)
    /\ \A i \in DOMAIN p.events : p.events[i] = "start" => EndsAfter(p, i)

PlayerGood(p) == p \in Player /\ CoverGood(p) /\ SpinnerGood(p)

\* From p to q nothing changes but the cover, as far as these invariants see.
CoverMoves(p, q) ==
    /\ q \in Player /\ CoverGood(q) /\ q.mode = p.mode
    /\ q.loading = p.loading /\ q.next = p.next /\ q.file = p.file /\ q.events = p.events

LEMMA MovesGood == ASSUME NEW p, PlayerGood(p), NEW q, CoverMoves(p, q) PROVE PlayerGood(q)
BY DEF PlayerGood, CoverMoves, SpinnerGood, EndsAfter

LEMMA CoverOnly ==
    ASSUME NEW p, p \in Player, NEW c \in Cover, CoverGood([p EXCEPT !.cover = c])
    PROVE  CoverMoves(p, [p EXCEPT !.cover = c])
BY DEF CoverMoves, Player

LEMMA ResetMoves == ASSUME NEW p, p \in Player PROVE CoverMoves(p, resetAudioCover(p))
<1>1. NoCover \in Cover
  BY PlayerAssumption DEF NoCover, Cover
<1>2. CoverGood([p EXCEPT !.cover = NoCover])
  BY DEF CoverGood, NoCover, Player
<1>. QED  BY <1>1, <1>2, CoverOnly DEF resetAudioCover

\* One more attempt, while there may be one.
LEMMA ScheduleMoves ==
    ASSUME NEW p, p \in Player,
           LET c == p.cover
           IN  /\ c.pending => p.mode = "audio" /\ c.track /\ ~c.exhausted /\ ~c.shown
               /\ c.pending /\ ~c.request => c.tries < MaxTries
               /\ c.track => c.shown \/ c.pending \/ c.exhausted
    PROVE  CoverMoves(p, scheduleAudioCoverCapture(p))
<1> DEFINE q == scheduleAudioCoverCapture(p)
<1>1. p.cover \in Cover /\ q = [p EXCEPT !.cover.timers = IF p.cover.timers = MaxTimers THEN p.cover.timers ELSE p.cover.timers + 1]
  BY DEF scheduleAudioCoverCapture, Player
<1>2. q \in Player /\ q.cover.timers > 0 /\ q.cover.timers \in 0..MaxTimers
  BY <1>1, PlayerAssumption DEF Player, Cover
<1>3. /\ q.cover.pending = p.cover.pending /\ q.cover.request = p.cover.request /\ q.cover.track = p.cover.track
      /\ q.cover.exhausted = p.cover.exhausted /\ q.cover.shown = p.cover.shown /\ q.cover.tries = p.cover.tries
      /\ q.mode = p.mode /\ q.loading = p.loading /\ q.next = p.next /\ q.file = p.file /\ q.events = p.events
  BY <1>1 DEF Player, Cover
<1>. HIDE DEF q
<1>4. CoverGood(q)
  BY <1>2, <1>3 DEF CoverGood
<1>. QED  BY <1>2, <1>3, <1>4 DEF CoverMoves, q

\* An attempt has failed: another one, or none is left.
LEMMA FailureMoves ==
    ASSUME NEW p, p \in Player,
           LET c == p.cover
           IN  /\ c.pending => p.mode = "audio" /\ c.track /\ ~c.exhausted /\ ~c.shown
               /\ c.track => c.shown \/ c.pending \/ c.exhausted
    PROVE  CoverMoves(p, handleAudioCoverCaptureFailure(p))
<1>1. CASE p.cover.tries < MaxTries
  BY <1>1, ScheduleMoves DEF handleAudioCoverCaptureFailure
<1>2. CASE ~(p.cover.tries < MaxTries)
  <2> DEFINE q == [p EXCEPT !.cover.pending = FALSE, !.cover.exhausted = TRUE]
  <2>1. handleAudioCoverCaptureFailure(p) = q
    BY <1>2 DEF handleAudioCoverCaptureFailure
  <2>2. /\ q \in Player /\ q.cover.pending = FALSE /\ q.cover.exhausted = TRUE
        /\ q.mode = p.mode
        /\ q.loading = p.loading /\ q.next = p.next /\ q.file = p.file /\ q.events = p.events
    BY DEF Player, Cover
  <2>. HIDE DEF q
  <2>3. CoverGood(q)
    BY <2>2 DEF CoverGood
  <2>. QED  BY <2>1, <2>2, <2>3 DEF CoverMoves
<1>. QED  BY <1>1, <1>2

LEMMA CaptureMoves ==
    ASSUME NEW p, NEW queued \in BOOLEAN, p \in Player,
           LET c == p.cover
           IN  /\ c.pending => p.mode = "audio" /\ c.track /\ ~c.exhausted /\ ~c.shown
               /\ c.pending /\ ~c.request => c.tries < MaxTries
               /\ c.track => c.shown \/ c.pending \/ c.exhausted
    PROVE  CoverMoves(p, captureAudioCover(p, queued))
<1> DEFINE c == p.cover
           tried == [p EXCEPT !.cover.tries = @ + 1, !.cover.request = queued]
<1>1. CASE p.mode # "audio" \/ ~c.track \/ ~c.pending \/ c.exhausted \/ c.request
  BY <1>1 DEF captureAudioCover, CoverMoves, CoverGood
<1>2. CASE ~(p.mode # "audio" \/ ~c.track \/ ~c.pending \/ c.exhausted \/ c.request)
  <2>1. captureAudioCover(p, queued) = IF queued THEN tried ELSE handleAudioCoverCaptureFailure(tried)
    BY <1>2 DEF captureAudioCover
  <2>2. c.tries < MaxTries /\ c.tries \in Nat /\ c \in Cover
    BY <1>2 DEF Player, Cover
  <2> DEFINE d == [c EXCEPT !.tries = c.tries + 1, !.request = queued]
  <2>3. tried = [p EXCEPT !.cover = d]
    BY <2>2 DEF Player
  <2>9. c.tries + 1 \in 0..MaxTries
    BY <2>2, PlayerAssumption
  <2>. HIDE DEF c
  <2>8. /\ d \in Cover /\ d.pending = c.pending /\ d.request = queued
        /\ d.track = c.track /\ d.exhausted = c.exhausted /\ d.shown = c.shown
    BY <2>2, <2>9 DEF Cover
  <2>. USE DEF c
  <2>. HIDE DEF d
  <2>4. /\ tried \in Player /\ tried.cover = d
        /\ tried.mode = p.mode /\ tried.loading = p.loading /\ tried.next = p.next /\ tried.file = p.file
        /\ tried.events = p.events
    BY <2>3, <2>8 DEF Player
  <2>. HIDE DEF tried
  <2>6. queued => CoverGood(tried)
    BY <1>2, <2>4, <2>8 DEF CoverGood
  <2>7. CoverMoves(tried, handleAudioCoverCaptureFailure(tried))
    BY <1>2, <2>4, <2>8, FailureMoves
  <2>. QED  BY <2>1, <2>4, <2>6, <2>7 DEF CoverMoves
<1>. QED  BY <1>1, <1>2

LEMMA TracksMoves == ASSUME NEW p, p \in Player, CoverGood(p) PROVE CoverMoves(p, updateTracks(p))
<1> DEFINE c == p.cover
           arms == ~c.shown /\ ~c.pending /\ ~c.exhausted
           armed == [p EXCEPT !.cover.track = TRUE, !.cover.pending = @ \/ arms,
                              !.cover.tries = IF arms THEN 0 ELSE @]
<1>1. CASE p.mode # "audio" \/ ~p.art
  BY <1>1, ResetMoves DEF updateTracks, updateAudioCoverTrack, CoverMoves
<1>2. CASE p.mode = "audio" /\ p.art
  <2>1. updateTracks(p) = IF armed.cover.pending /\ armed.cover.tries = 0 THEN scheduleAudioCoverCapture(armed)
                          ELSE armed
    BY <1>2 DEF updateTracks, updateAudioCoverTrack
  <2>2. p \in Player /\ c \in Cover
    BY DEF Player
  <2> DEFINE d == [c EXCEPT !.track = TRUE, !.pending = c.pending \/ arms, !.tries = IF arms THEN 0 ELSE c.tries]
  <2>3. armed = [p EXCEPT !.cover = d]
    BY <2>2 DEF Player
  <2>9. d \in Cover
    <3>1. (c.pending \/ arms) \in BOOLEAN
      OBVIOUS
    <3>2. (IF arms THEN 0 ELSE c.tries) \in 0..MaxTries
      BY <2>2, PlayerAssumption DEF Cover
    <3>. HIDE DEF c, arms
    <3>. QED  BY <2>2, <3>1, <3>2 DEF Cover
  <2>10. /\ d.track /\ (d.pending <=> c.pending \/ arms) /\ (arms => d.tries = 0) /\ (~arms => d.tries = c.tries)
         /\ d.request = c.request /\ d.timers = c.timers /\ d.exhausted = c.exhausted /\ d.shown = c.shown
    BY <2>2 DEF Cover
  <2>. HIDE DEF d
  <2>4. /\ armed \in Player /\ armed.cover = d
        /\ armed.mode = p.mode /\ armed.loading = p.loading /\ armed.next = p.next /\ armed.file = p.file
        /\ armed.events = p.events
    BY <2>2, <2>3, <2>9 DEF Player
  <2>. HIDE DEF armed
  <2>6. /\ armed.cover.pending => armed.mode = "audio" /\ armed.cover.track /\ ~armed.cover.exhausted
                                  /\ ~armed.cover.shown
        /\ armed.cover.pending /\ ~armed.cover.request => armed.cover.tries < MaxTries
        /\ armed.cover.track => armed.cover.shown \/ armed.cover.pending \/ armed.cover.exhausted
    BY <1>2, <2>4, <2>10, PlayerAssumption DEF CoverGood
  <2>7. ~(armed.cover.pending /\ armed.cover.tries = 0) => CoverGood(armed)
    BY <1>2, <2>4, <2>6, <2>9, <2>10 DEF CoverGood, Cover
  <2>8. CoverMoves(armed, scheduleAudioCoverCapture(armed))
    BY <2>4, <2>6, ScheduleMoves
  <2>. QED  BY <2>1, <2>4, <2>7, <2>8 DEF CoverMoves
<1>. QED  BY <1>1, <1>2

\* The handle goes, and with it whatever was to be captured or said.
LEMMA ShutdownGood ==
    ASSUME NEW p, p \in Player
    PROVE  PlayerGood(shutdown(p)) /\ shutdown(p).deferred = p.deferred /\ shutdown(p).wake = p.wake
           /\ shutdown(p).source = p.source /\ shutdown(p).audioOnly = p.audioOnly
<1> DEFINE q == shutdown(p)
<1>1. NoCover \in Cover
  BY PlayerAssumption DEF NoCover, Cover
<1>2. <<>> \in Seq(Event)
  OBVIOUS
<1>3. /\ q \in Player /\ q.cover = NoCover /\ ~q.loading /\ q.events = <<>>
      /\ q.deferred = p.deferred /\ q.wake = p.wake /\ q.source = p.source /\ q.audioOnly = p.audioOnly
  BY <1>1, <1>2 DEF shutdown, resetPlaybackState, resetAudioCover, Player
<1>. HIDE DEF q
<1>4. CoverGood(q) /\ SpinnerGood(q)
  BY <1>3 DEF CoverGood, NoCover, SpinnerGood
<1>. QED  BY <1>3, <1>4 DEF PlayerGood, q

LEMMA StopGood == ASSUME NEW p, p \in Player PROVE PlayerGood(stop(p))
<1>1. [p EXCEPT !.deferred = FALSE, !.wake = FALSE] \in Player
  BY DEF Player
<1>. QED  BY <1>1, ShutdownGood DEF stop, destroyNativeWindow

\* What changes neither the cover and its mode nor what libmpv says.
LEMMA Unheard ==
    ASSUME NEW p, PlayerGood(p), NEW q, q \in Player, q.cover = p.cover, q.mode = p.mode,
           q.loading = p.loading, q.next = p.next, q.file = p.file, q.events = p.events
    PROVE  PlayerGood(q)
BY DEF PlayerGood, CoverGood, SpinnerGood, EndsAfter

LEMMA InitializeGood ==
    ASSUME NEW p, PlayerGood(p), NEW mode \in {"video", "audio"}, NEW made \in BOOLEAN
    PROVE  PlayerGood(initializeInternal(p, mode, made))
<1>1. CASE p.mode = "none" /\ made
  <2> DEFINE q == [p EXCEPT !.mode = mode]
  <2>1. initializeInternal(p, mode, made) = q
    BY <1>1 DEF initializeInternal
  <2>2. /\ q \in Player /\ q.cover = p.cover /\ q.loading = p.loading /\ q.next = p.next /\ q.file = p.file
        /\ q.events = p.events
    BY DEF PlayerGood, Player
  <2>. HIDE DEF q
  <2>3. CoverGood(q) /\ SpinnerGood(q)
    BY <1>1, <2>2 DEF PlayerGood, CoverGood, SpinnerGood, EndsAfter
  <2>. QED  BY <2>1, <2>2, <2>3 DEF PlayerGood
<1>2. CASE ~(p.mode = "none" /\ made)
  BY <1>2 DEF initializeInternal
<1>. QED  BY <1>1, <1>2

LEMMA PlayUrlGood == ASSUME NEW p, PlayerGood(p), NEW queued \in BOOLEAN PROVE PlayerGood(playUrl(p, queued))
<1> DEFINE r == resetAudioCover(p)
           q == playUrl(p, queued)
<1>1. PlayerGood(r)
  BY ResetMoves, MovesGood DEF PlayerGood
<1>2. q = [r EXCEPT !.begun = FALSE, !.loading = queued, !.next = r.next \/ queued]
  BY <1>1 DEF playUrl, PlayerGood, Player
<1>. HIDE DEF r, q
<1>3. (r.next \/ queued) \in BOOLEAN
  OBVIOUS
<1>4. q \in Player /\ q.cover = r.cover /\ q.mode = r.mode /\ q.file = r.file /\ q.events = r.events
  BY <1>1, <1>2, <1>3 DEF PlayerGood, Player
<1>5. (q.next <=> r.next \/ queued) /\ (q.loading <=> queued)
  BY <1>1, <1>2 DEF PlayerGood, Player
<1>6. CoverGood(q) /\ SpinnerGood(q)
  BY <1>1, <1>4, <1>5 DEF PlayerGood, CoverGood, SpinnerGood, EndsAfter
<1>. QED  BY <1>4, <1>6 DEF PlayerGood, q

LEMMA PlayGood ==
    ASSUME NEW p, PlayerGood(p), NEW visible \in BOOLEAN, NEW made \in BOOLEAN, NEW queued \in BOOLEAN
    PROVE  PlayerGood(play(p, visible, made, queued))
<1> DEFINE ready == IF p.audioOnly THEN initializeInternal(p, "audio", made) ELSE ensureNativeWindow(p, made)
<1>1. PlayerGood(ready)
  BY InitializeGood DEF ensureNativeWindow
<1>2. PlayerGood([p EXCEPT !.deferred = TRUE])
  <2>1. [p EXCEPT !.deferred = TRUE] \in Player
    BY DEF PlayerGood, Player
  <2>. QED  BY <2>1, Unheard DEF PlayerGood, Player
<1>. HIDE DEF ready
<1>3. PlayerGood([playUrl(ready, queued) EXCEPT !.deferred = FALSE, !.wake = FALSE])
  <2> DEFINE u == playUrl(ready, queued)
  <2>1. PlayerGood(u)
    BY <1>1, PlayUrlGood
  <2>. HIDE DEF u
  <2>2. [u EXCEPT !.deferred = FALSE, !.wake = FALSE] \in Player
    BY <2>1 DEF PlayerGood, Player
  <2>3. PlayerGood([u EXCEPT !.deferred = FALSE, !.wake = FALSE])
    BY <2>1, <2>2, Unheard DEF PlayerGood, Player
  <2>. QED  BY <2>3 DEF u
<1>. QED  BY <1>2, <1>3 DEF play, ready

LEMMA SourceGood ==
    ASSUME NEW p, PlayerGood(p), NEW playing \in BOOLEAN, NEW visible \in BOOLEAN, NEW made \in BOOLEAN,
           NEW queued \in BOOLEAN
    PROVE  PlayerGood(setSource(p, playing, visible, made, queued))
<1>1. PlayerGood([p EXCEPT !.source = TRUE, !.deferred = TRUE])
  <2>1. [p EXCEPT !.source = TRUE, !.deferred = TRUE] \in Player
    BY DEF PlayerGood, Player
  <2>. QED  BY <2>1, Unheard DEF PlayerGood, Player
<1>2. [p EXCEPT !.source = FALSE] \in Player
  BY DEF PlayerGood, Player
<1>3. PlayerGood(stop([p EXCEPT !.source = FALSE]))
  BY <1>2, StopGood
<1>4. PlayerGood(play([p EXCEPT !.source = TRUE, !.deferred = TRUE], visible, made, queued))
  BY <1>1, PlayGood
<1>. QED  BY <1>3, <1>4 DEF setSource

LEMMA AudioOnlyGood ==
    ASSUME NEW p, PlayerGood(p), NEW value \in BOOLEAN
    PROVE  PlayerGood(setAudioOnly(p, value))
<1> DEFINE a == [p EXCEPT !.audioOnly = value]
           s == stop(a)
<1>1. a \in Player /\ PlayerGood(a)
  <2>1. a \in Player
    BY DEF PlayerGood, Player
  <2>. QED  BY <2>1, Unheard DEF PlayerGood, Player
<1>2. PlayerGood(s)
  BY <1>1, StopGood
<1>. HIDE DEF s
<1>3. PlayerGood([s EXCEPT !.deferred = TRUE, !.wake = TRUE])
  <2>1. [s EXCEPT !.deferred = TRUE, !.wake = TRUE] \in Player
    BY <1>2 DEF PlayerGood, Player
  <2>. QED  BY <1>2, <2>1, Unheard DEF PlayerGood, Player
<1>. QED  BY <1>1, <1>3 DEF setAudioOnly, s

LEMMA ItemGood ==
    ASSUME NEW p, PlayerGood(p), NEW visible \in BOOLEAN, NEW made \in BOOLEAN, NEW queued \in BOOLEAN
    PROVE  PlayerGood(itemChange(p, visible, made, queued))
BY PlayGood, StopGood DEF itemChange, PlayerGood

\* The first event is taken from the queue and heard.
LEMMA HandledGood ==
    ASSUME NEW p, PlayerGood(p), p.events # <<>>, NEW queued \in BOOLEAN
    PROVE  PlayerGood(Handled([p EXCEPT !.events = Tail(@)], Head(p.events), queued))
<1> DEFINE event == Head(p.events)
           t == [p EXCEPT !.events = Tail(p.events)]
<1>1. p \in Player /\ p.events \in Seq(Event) /\ event \in Event /\ event = p.events[1]
  BY DEF PlayerGood, Player
<1>2. /\ t \in Player /\ t.events = Tail(p.events) /\ t.cover = p.cover /\ t.mode = p.mode
      /\ t.loading = p.loading /\ t.next = p.next /\ t.file = p.file
  BY <1>1 DEF Player
<1>3. /\ t.events \in Seq(Event) /\ Len(t.events) = Len(p.events) - 1
      /\ \A i \in 1..Len(t.events) : t.events[i] = p.events[i + 1]
  BY <1>1, <1>2, HeadTailProperties
<1>4. CoverGood(t)
  BY <1>2 DEF PlayerGood, CoverGood
<1>. HIDE DEF t
<1>5. ASSUME NEW i \in 0..Len(t.events), EndsAfter(p, i + 1) PROVE EndsAfter(t, i)
  <2>1. CASE p.next \/ p.file = "opening"
    BY <1>2, <2>1 DEF EndsAfter
  <2>2. ASSUME NEW j \in DOMAIN p.events, j > i + 1, p.events[j] \in Enders PROVE EndsAfter(t, i)
    <3>1. j \in 1..Len(p.events) /\ Len(p.events) \in Nat
      BY <1>1, <2>2
    <3>2. j - 1 \in 1..Len(t.events) /\ j - 1 > i /\ (j - 1) + 1 = j
      BY <1>3, <1>5, <2>2, <3>1
    <3>3. t.events[j - 1] = p.events[j]
      BY <1>3, <3>2
    <3>. QED  BY <1>3, <2>2, <3>2, <3>3 DEF EndsAfter
  <2>. QED  BY <1>5, <2>1, <2>2 DEF EndsAfter
<1>6. \A i \in DOMAIN t.events : t.events[i] = "start" => EndsAfter(t, i)
  <2>. SUFFICES ASSUME NEW i \in 1..Len(t.events), t.events[i] = "start" PROVE EndsAfter(t, i)
    BY <1>3
  <2>1. i + 1 \in DOMAIN p.events /\ p.events[i + 1] = "start"
    BY <1>1, <1>3
  <2>. QED  BY <1>5, <2>1 DEF PlayerGood, SpinnerGood
<1>7. event \notin Enders /\ EndsAfter(p, 0) => EndsAfter(t, 0)
  <2>. SUFFICES ASSUME event \notin Enders, EndsAfter(p, 0) PROVE EndsAfter(t, 0)
    OBVIOUS
  <2>1. EndsAfter(p, 1)
    BY <1>1 DEF EndsAfter
  <2>. QED  BY <1>3, <1>5, <2>1
<1>8. event = "start" => EndsAfter(t, 0)
  <2>. SUFFICES ASSUME event = "start" PROVE EndsAfter(t, 0)
    OBVIOUS
  <2>1. 1 \in DOMAIN p.events
    BY <1>1
  <2>2. EndsAfter(p, 1)
    BY <1>1, <2>1 DEF PlayerGood, SpinnerGood
  <2>. QED  BY <1>3, <1>5, <2>2
<1>9. event \notin Enders => PlayerGood(t)
  BY <1>2, <1>4, <1>6, <1>7 DEF PlayerGood, SpinnerGood
<1>10. ASSUME NEW q, CoverMoves(t, q) PROVE PlayerGood([q EXCEPT !.loading = FALSE])
  <2>1. [q EXCEPT !.loading = FALSE] \in Player
    BY <1>10 DEF CoverMoves, Player
  <2>2. CoverGood([q EXCEPT !.loading = FALSE])
    BY <1>10 DEF CoverMoves, CoverGood, Player
  <2>3. SpinnerGood([q EXCEPT !.loading = FALSE])
    BY <1>6, <1>10 DEF CoverMoves, SpinnerGood, EndsAfter, Player
  <2>. QED  BY <2>1, <2>2, <2>3 DEF PlayerGood
<1>11. CoverMoves(t, updateTracks(t)) /\ CoverMoves(t, captureAudioCover(updateTracks(t), queued))
  <2>1. CoverMoves(t, updateTracks(t))
    BY <1>2, <1>4, TracksMoves
  <2>2. CoverMoves(updateTracks(t), captureAudioCover(updateTracks(t), queued))
    BY <2>1, CaptureMoves DEF CoverMoves, CoverGood
  <2>. QED  BY <2>1, <2>2 DEF CoverMoves
<1>12. Handled([p EXCEPT !.events = Tail(@)], Head(p.events), queued) = Handled(t, event, queued)
  BY DEF t
<1>13. CASE event = "start"
  <2>1. [t EXCEPT !.loading = TRUE, !.begun = FALSE] \in Player
    BY <1>2 DEF Player
  <2>2. CoverGood([t EXCEPT !.loading = TRUE, !.begun = FALSE])
    BY <1>2, <1>4 DEF CoverGood, Player
  <2>3. SpinnerGood([t EXCEPT !.loading = TRUE, !.begun = FALSE])
    BY <1>2, <1>6, <1>8, <1>13 DEF SpinnerGood, EndsAfter, Player
  <2>. QED  BY <1>12, <1>13, <2>1, <2>2, <2>3 DEF Handled, PlayerGood
<1>14. CASE event \in {"loaded", "restart"}
  BY <1>10, <1>11, <1>12, <1>14 DEF Handled
<1>15. CASE event = "reconfig"
  BY <1>9, <1>11, <1>12, <1>15, MovesGood DEF Handled, Enders
<1>16. CASE event \in {"eof", "error"}
  <2>1. CoverMoves(t, t)
    BY <1>2, <1>4 DEF CoverMoves
  <2>2. Ended(t, event) = [t EXCEPT !.loading = FALSE]
    BY <1>2, <1>16 DEF Ended, Player
  <2>. QED  BY <1>10, <1>12, <1>16, <2>1, <2>2 DEF Handled
<1>17. CASE event = "stop"
  <2>1. Ended(t, event) = t
    BY <1>2, <1>17 DEF Ended, Player
  <2>. QED  BY <1>9, <1>12, <1>17, <2>1 DEF Handled, Enders
<1>. QED  BY <1>1, <1>13, <1>14, <1>15, <1>16, <1>17 DEF Event

\* libmpv queues what takes the spinner away, or has a file to start or to open.
LEMMA EmitsGood ==
    ASSUME NEW p, PlayerGood(p), NEW es \in Seq(Event), NEW q, q \in Player,
           q.cover = p.cover, q.mode = p.mode, q.loading = p.loading, q.events = p.events \o es,
           \/ q.next \/ q.file = "opening"
           \/ es # <<>> /\ es[Len(es)] \in Enders /\ \A i \in 1..Len(es) : es[i] # "start"
    PROVE  PlayerGood(q)
<1>1. CoverGood(q)
  BY DEF PlayerGood, CoverGood
<1>2. CASE q.next \/ q.file = "opening"
  BY <1>1, <1>2 DEF PlayerGood, SpinnerGood, EndsAfter
<1>3. CASE es # <<>> /\ es[Len(es)] \in Enders /\ \A i \in 1..Len(es) : es[i] # "start"
  <2>1. /\ p.events \in Seq(Event) /\ Len(es) \in Nat /\ Len(es) > 0 /\ Len(p.events) \in Nat
        /\ Len(q.events) = Len(p.events) + Len(es)
        /\ \A i \in 1..Len(q.events) :
              q.events[i] = IF i <= Len(p.events) THEN p.events[i] ELSE es[i - Len(p.events)]
    <3>1. p.events \in Seq(Event)
      BY DEF PlayerGood, Player
    <3>. QED  BY <1>3, <3>1, ConcatProperties, EmptySeq
  <2>2. DOMAIN q.events = 1..Len(q.events) /\ Len(q.events) \in Nat
    BY <2>1 DEF Player
  <2>3. q.events[Len(q.events)] \in Enders /\ Len(q.events) \in DOMAIN q.events
    <3>1. Len(q.events) \in 1..Len(q.events) /\ ~(Len(q.events) <= Len(p.events))
          /\ Len(q.events) - Len(p.events) = Len(es)
      BY <2>1
    <3>. QED  BY <1>3, <2>1, <2>2, <3>1
  <2>4. ASSUME NEW i \in Nat, i <= Len(p.events) PROVE EndsAfter(q, i)
    <3>1. Len(q.events) > i
      BY <2>1, <2>4
    <3>. QED  BY <2>3, <3>1 DEF EndsAfter
  <2>5. EndsAfter(q, 0)
    BY <2>1, <2>4
  <2>6. ASSUME NEW i \in DOMAIN q.events, q.events[i] = "start" PROVE EndsAfter(q, i)
    <3>1. i \in 1..Len(q.events) /\ i \in Nat
      BY <2>2
    <3>2. CASE i <= Len(p.events)
      BY <2>4, <3>1, <3>2
    <3>3. CASE ~(i <= Len(p.events))
      <4>1. i - Len(p.events) \in 1..Len(es)
        BY <2>1, <3>1, <3>3
      <4>. QED  BY <1>3, <2>1, <2>6, <3>1, <3>3, <4>1
    <3>. QED  BY <3>2, <3>3
  <2>. QED  BY <1>1, <2>5, <2>6 DEF PlayerGood, SpinnerGood
<1>. QED  BY <1>2, <1>3

\* Every step of the core, of a timer and of a reply.
LEMMA PlayerStepGood == PlayerGood(player) /\ PlayerStep => PlayerGood(player')
<1>. SUFFICES ASSUME PlayerGood(player), PlayerStep PROVE PlayerGood(player')
  OBVIOUS
<1> DEFINE p == player
<1>0. p \in Player /\ CoverGood(p) /\ p.cover \in Cover /\ p.events \in Seq(Event)
  BY DEF PlayerGood, Player
<1>1. CASE CoverReply
  <2> DEFINE a == [p EXCEPT !.cover.request = FALSE]
             d == [p.cover EXCEPT !.request = FALSE]
  <2>1. a = [p EXCEPT !.cover = d]
    BY <1>0 DEF Player
  <2>2. /\ d \in Cover /\ d.request = FALSE /\ d.pending = p.cover.pending /\ d.track = p.cover.track
        /\ d.exhausted = p.cover.exhausted /\ d.shown = p.cover.shown
    BY <1>0 DEF Cover
  <2>. HIDE DEF d
  <2>3. /\ a \in Player /\ a.cover = d /\ a.mode = p.mode /\ a.loading = p.loading /\ a.next = p.next
        /\ a.file = p.file /\ a.events = p.events
    BY <1>0, <2>1, <2>2 DEF Player
  <2>4. player' \in {receiveAudioCover(a), handleAudioCoverCaptureFailure(a)}
    BY <1>1 DEF CoverReply
  <2>. HIDE DEF a
  <2>5. CoverMoves(a, handleAudioCoverCaptureFailure(a))
    BY <1>0, <1>1, <2>2, <2>3, FailureMoves DEF CoverGood, CoverReply
  <2>6. CoverMoves(a, receiveAudioCover(a))
    <3> DEFINE e == [d EXCEPT !.shown = TRUE, !.pending = FALSE, !.exhausted = FALSE]
    <3>1. receiveAudioCover(a) = [a EXCEPT !.cover = e]
      BY <2>3 DEF receiveAudioCover, Player
    <3>2. e \in Cover /\ e.shown /\ e.pending = FALSE
      BY <2>2 DEF Cover
    <3>. HIDE DEF e
    <3>3. CoverGood([a EXCEPT !.cover = e])
      BY <2>3, <3>2 DEF CoverGood, Player
    <3>. QED  BY <2>3, <3>1, <3>2, <3>3, CoverOnly
  <2>7. CoverMoves(p, player')
    BY <2>3, <2>4, <2>5, <2>6 DEF CoverMoves
  <2>. QED  BY <2>7, MovesGood
<1>2. CASE CoverTimer
  <2> DEFINE a == [p EXCEPT !.cover.timers = @ - 1]
             d == [p.cover EXCEPT !.timers = @ - 1]
  <2>1. a = [p EXCEPT !.cover = d]
    BY <1>0 DEF Player
  <2>0. p.cover.timers - 1 \in 0..MaxTimers
    BY <1>0, <1>2, PlayerAssumption DEF CoverTimer, Cover
  <2>2. /\ d \in Cover /\ d.request = p.cover.request /\ d.pending = p.cover.pending /\ d.track = p.cover.track
        /\ d.exhausted = p.cover.exhausted /\ d.shown = p.cover.shown /\ d.tries = p.cover.tries
    BY <1>0, <2>0 DEF Cover
  <2>. HIDE DEF d
  <2>3. /\ a \in Player /\ a.cover = d /\ a.mode = p.mode /\ a.loading = p.loading /\ a.next = p.next
        /\ a.file = p.file /\ a.events = p.events
    BY <1>0, <2>1, <2>2 DEF Player
  <2>4. PICK queued \in BOOLEAN : player' = captureAudioCover(a, queued)
    BY <1>2 DEF CoverTimer
  <2>. HIDE DEF a
  <2>5. CoverMoves(a, captureAudioCover(a, queued))
    BY <1>0, <2>2, <2>3, CaptureMoves DEF CoverGood
  <2>7. CoverMoves(p, player')
    BY <2>3, <2>4, <2>5 DEF CoverMoves
  <2>. QED  BY <2>7, MovesGood
<1>3. CASE TracksChanged
  BY <1>0, <1>3, TracksMoves, MovesGood DEF TracksChanged
<1>4. CASE CoreReplaces
  <2> DEFINE es == <<"stop">>
             evs == p.events \o es
  <2>1. es \in Seq(Event) /\ evs \in Seq(Event)
    BY <1>0 DEF Event
  <2>2. player' = [p EXCEPT !.file = "none", !.art = FALSE, !.events = evs] /\ p.next
    BY <1>4 DEF CoreReplaces, Emits
  <2>. HIDE DEF es, evs
  <2>3. /\ player' \in Player /\ player'.cover = p.cover /\ player'.mode = p.mode
        /\ player'.loading = p.loading /\ player'.events = evs /\ player'.next = p.next
    BY <1>0, <2>1, <2>2 DEF Player
  <2>. QED  BY <2>1, <2>2, <2>3, EmitsGood DEF evs
<1>5. CASE CoreStarts
  <2> DEFINE es == <<"start">>
             evs == p.events \o es
  <2>1. es \in Seq(Event) /\ evs \in Seq(Event)
    BY <1>0 DEF Event
  <2>2. player' = [p EXCEPT !.file = "opening", !.next = FALSE, !.events = evs]
    BY <1>5 DEF CoreStarts, Emits
  <2>. HIDE DEF es, evs
  <2>3. /\ player' \in Player /\ player'.cover = p.cover /\ player'.mode = p.mode
        /\ player'.loading = p.loading /\ player'.events = evs /\ player'.file = "opening"
    BY <1>0, <2>1, <2>2 DEF Player
  <2>. QED  BY <2>1, <2>2, <2>3, EmitsGood DEF evs
<1>6. CASE CoreLoads
  <2>1. PICK es \in {<<"loaded", "restart">>, <<"loaded", "reconfig", "restart">>} :
            player' = [player EXCEPT !.file = "playing", !.events = Emits(es)]
    BY <1>6 DEF CoreLoads
  <2>2. /\ es \in Seq(Event) /\ es # <<>> /\ es[Len(es)] \in Enders
        /\ \A i \in 1..Len(es) : es[i] # "start"
    <3>1. CASE es = <<"loaded", "restart">>
      BY <3>1 DEF Event, Enders
    <3>2. CASE es = <<"loaded", "reconfig", "restart">>
      <4>1. Len(es) = 3 /\ es[1] = "loaded" /\ es[2] = "reconfig" /\ es[3] = "restart" /\ es # <<>>
        BY <3>2
      <4>2. <<"loaded", "reconfig", "restart">> \in Seq(Event)
        BY DEF Event
      <4>3. \A i \in 1..3 : i = 1 \/ i = 2 \/ i = 3
        OBVIOUS
      <4>. QED  BY <3>2, <4>1, <4>2, <4>3 DEF Enders
    <3>. QED  BY <3>1, <3>2
  <2> DEFINE evs == p.events \o es
  <2>3. evs \in Seq(Event) /\ player' = [p EXCEPT !.file = "playing", !.events = evs]
    BY <1>0, <2>1, <2>2 DEF Emits
  <2>. HIDE DEF evs
  <2>4. /\ player' \in Player /\ player'.cover = p.cover /\ player'.mode = p.mode
        /\ player'.loading = p.loading /\ player'.events = evs
    BY <1>0, <2>3 DEF Player
  <2>. QED  BY <2>2, <2>4, EmitsGood DEF evs
<1>7. CASE CoreFails \/ CoreReachesEnd
  <2>1. PICK es \in {<<"error">>, <<"eof">>} :
            player' = [player EXCEPT !.file = "none", !.art = FALSE, !.events = Emits(es)]
    BY <1>7 DEF CoreFails, CoreReachesEnd
  <2>2. /\ es \in Seq(Event) /\ es # <<>> /\ es[Len(es)] \in Enders
        /\ \A i \in 1..Len(es) : es[i] # "start"
    BY DEF Event, Enders
  <2> DEFINE evs == p.events \o es
  <2>3. evs \in Seq(Event) /\ player' = [p EXCEPT !.file = "none", !.art = FALSE, !.events = evs]
    BY <1>0, <2>1, <2>2 DEF Emits
  <2>. HIDE DEF evs
  <2>4. /\ player' \in Player /\ player'.cover = p.cover /\ player'.mode = p.mode
        /\ player'.loading = p.loading /\ player'.events = evs
    BY <1>0, <2>3 DEF Player
  <2>. QED  BY <2>2, <2>4, EmitsGood DEF evs
<1>8. CASE CoreFindsArt
  <2>1. /\ player' \in Player /\ player'.cover = p.cover /\ player'.mode = p.mode /\ player'.next = p.next
        /\ player'.loading = p.loading /\ player'.events = p.events /\ player'.file = p.file
    BY <1>0, <1>8 DEF CoreFindsArt, Player
  <2>. QED  BY <2>1, Unheard
<1>. QED  BY <1>1, <1>2, <1>3, <1>4, <1>5, <1>6, <1>7, <1>8 DEF PlayerStep

-----------------------------------------------------------------------------
(* What comes and goes with a playback *)

(***************************************************************************)
(* The handle in the address is the one that is remembered, and it is the  *)
(* only one the proxies know.  Nothing is left when nothing is played.     *)
(***************************************************************************)
Served(v) ==
    /\ v.url.kind = "stream" => v.url.handle = v.stream /\ v.stream # 0
    /\ v.url.kind = "session" => v.url.handle = v.session /\ v.session # 0
    /\ v.streams = {v.stream} \ {0}
    /\ v.sessions = {v.session} \ {0}

Clean(v) ==
    /\ ~Playing(v) =>
          /\ v.origin = "none" /\ ~v.record /\ ~v.usage /\ ~v.started /\ ~v.audio
          /\ v.foreground => v.asks # {}
    /\ Playing(v) => v.origin # "none" /\ (v.usage => v.origin \notin {"local", "link"})

SessionGood(v) == v \in Session /\ Served(v) /\ Clean(v)

Inv == PlayerGood(player) /\ SessionGood(vm)

LEMMA InitInv == Init => Inv
<1>. SUFFICES ASSUME Init PROVE Inv
  OBVIOUS
<1>1. NoCover \in Cover
  BY PlayerAssumption DEF NoCover, Cover
<1>2. <<>> \in Seq(Event)
  OBVIOUS
<1>3. player \in Player /\ player.cover = NoCover /\ ~player.loading /\ player.events = <<>>
  BY <1>1, <1>2 DEF Init, NoPlayer, Player
<1>4. PlayerGood(player)
  BY <1>3 DEF PlayerGood, CoverGood, SpinnerGood, NoCover
<1>5. NoUrl \in Url
  BY SessionAssumption DEF NoUrl, Url, Handle
<1>6. vm \in Session
  BY <1>5, SessionAssumption DEF Init, NoSession, Session, Handle, Origin
<1>7. Served(vm) /\ Clean(vm)
  BY DEF Init, NoSession, NoUrl, Served, Clean, Playing
<1>. QED  BY <1>4, <1>6, <1>7 DEF Inv, SessionGood

\* A proxy gives a handle that is not in use.
LEMMA FreshIsNew ==
    ASSUME NEW live, NEW h \in Handle, live = {h} \ {0}
    PROVE  Fresh(live) \in 1..MaxHandles /\ Fresh(live) \notin live
<1>1. 1 \in 1..MaxHandles /\ 2 \in 1..MaxHandles
  BY SessionAssumption
<1>2. \E k \in 1..MaxHandles : k \notin live
  BY <1>1
<1>. QED  BY <1>2 DEF Fresh

LEMMA StreamIsNew ==
    ASSUME NEW v, v \in Session, Served(v)
    PROVE  /\ StreamOf(v) \in Url /\ StreamOf(v).kind = "stream" /\ StreamOf(v).handle = Fresh(v.streams)
           /\ Fresh(v.streams) \in 1..MaxHandles /\ Fresh(v.streams) \notin v.streams
<1>1. Fresh(v.streams) \in 1..MaxHandles /\ Fresh(v.streams) \notin v.streams
  BY FreshIsNew DEF Session, Served
<1>2. Fresh(v.streams) \in Handle
  BY <1>1, SessionAssumption DEF Handle
<1>. QED  BY <1>1, <1>2 DEF StreamOf, Url

LEMMA SessionIsNew ==
    ASSUME NEW v, v \in Session, Served(v)
    PROVE  /\ SessionOf(v) \in Url /\ SessionOf(v).kind = "session" /\ SessionOf(v).handle = Fresh(v.sessions)
           /\ Fresh(v.sessions) \in 1..MaxHandles /\ Fresh(v.sessions) \notin v.sessions
<1>1. Fresh(v.sessions) \in 1..MaxHandles /\ Fresh(v.sessions) \notin v.sessions
  BY FreshIsNew DEF Session, Served
<1>2. Fresh(v.sessions) \in Handle
  BY <1>1, SessionAssumption DEF Handle
<1>. QED  BY <1>1, <1>2 DEF SessionOf, Url

-----------------------------------------------------------------------------
(* Reports *)

\* A report opens a record or a clock only for something that has an origin.
Told(v, w) == SessionGood(w) /\ w.audio = v.audio /\ w.url = v.url /\ w.origin = v.origin

LEMMA MarksTold ==
    ASSUME NEW v, SessionGood(v), NEW w, w \in Session,
           w.url = v.url, w.origin = v.origin, w.stream = v.stream, w.session = v.session, w.audio = v.audio,
           w.asks = v.asks, w.foreground = v.foreground, w.streams = v.streams, w.sessions = v.sessions,
           v.origin = "none" => ~w.record /\ ~w.usage /\ ~w.started,
           w.usage => v.usage \/ v.origin \in {"server", "iptv", "webdav"}
    PROVE  Told(v, w)
<1>1. Served(w)
  BY DEF SessionGood, Served
<1>2. Clean(w)
  BY DEF SessionGood, Clean, Playing
<1>. QED  BY <1>1, <1>2 DEF Told, SessionGood

LEMMA RecordTold ==
    ASSUME NEW v, SessionGood(v), NEW able \in BOOLEAN PROVE Told(v, recordGlobalPlaybackStarted(v, able))
<1> DEFINE r == v.record \/ (able /\ v.origin # "none")
           w == recordGlobalPlaybackStarted(v, able)
<1>1. w = [v EXCEPT !.record = r] /\ v \in Session
  BY DEF recordGlobalPlaybackStarted, SessionGood, Session
<1>2. r \in BOOLEAN /\ (v.origin = "none" => ~r)
  BY DEF SessionGood, Clean
<1>. HIDE DEF r, w
<1>3. w \in Session
  BY <1>1, <1>2 DEF Session
<1>4. /\ w.url = v.url /\ w.origin = v.origin /\ w.stream = v.stream /\ w.session = v.session /\ w.audio = v.audio
      /\ w.asks = v.asks /\ w.foreground = v.foreground /\ w.streams = v.streams /\ w.sessions = v.sessions
      /\ w.record = r /\ w.usage = v.usage /\ w.started = v.started
  BY <1>1 DEF Session
<1>5. v.origin = "none" => ~v.usage /\ ~v.started
  BY DEF SessionGood, Clean
<1>. QED  BY <1>2, <1>3, <1>4, <1>5, MarksTold DEF w

LEMMA UsageTold ==
    ASSUME NEW v, SessionGood(v), NEW able \in BOOLEAN PROVE Told(v, beginPlaybackUsageTracking(v, able))
<1> DEFINE u == v.usage \/ (able /\ v.origin \in {"server", "iptv", "webdav"})
           w == beginPlaybackUsageTracking(v, able)
<1>1. w = [v EXCEPT !.usage = u] /\ v \in Session
  BY DEF beginPlaybackUsageTracking, SessionGood, Session
<1>2. u \in BOOLEAN /\ (v.origin = "none" => ~u) /\ (u => v.usage \/ v.origin \in {"server", "iptv", "webdav"})
  BY DEF SessionGood, Clean
<1>. HIDE DEF u, w
<1>3. w \in Session
  BY <1>1, <1>2 DEF Session
<1>4. /\ w.url = v.url /\ w.origin = v.origin /\ w.stream = v.stream /\ w.session = v.session /\ w.audio = v.audio
      /\ w.asks = v.asks /\ w.foreground = v.foreground /\ w.streams = v.streams /\ w.sessions = v.sessions
      /\ w.record = v.record /\ w.usage = u /\ w.started = v.started
  BY <1>1 DEF Session
<1>5. v.origin = "none" => ~v.record /\ ~v.started
  BY DEF SessionGood, Clean
<1>. QED  BY <1>2, <1>3, <1>4, <1>5, MarksTold DEF w

LEMMA StartedTold ==
    ASSUME NEW v, SessionGood(v), NEW able \in BOOLEAN PROVE Told(v, reportPlaybackStarted(v, able))
<1> DEFINE b == beginPlaybackUsageTracking(recordGlobalPlaybackStarted(v, able), able)
           s == b.started \/ (able /\ v.origin = "server")
           w == reportPlaybackStarted(v, able)
<1>1. Told(v, b)
  BY RecordTold, UsageTold DEF Told
<1>2. w = [b EXCEPT !.started = s]
  BY <1>1 DEF reportPlaybackStarted, Told, SessionGood, Session
<1>3. s \in BOOLEAN /\ (b.origin = "none" => ~s)
  BY <1>1 DEF Told, SessionGood, Clean
<1>. HIDE DEF b, s, w
<1>4. w \in Session
  BY <1>1, <1>2, <1>3 DEF Told, SessionGood, Session
<1>5. /\ w.url = b.url /\ w.origin = b.origin /\ w.stream = b.stream /\ w.session = b.session /\ w.audio = b.audio
      /\ w.asks = b.asks /\ w.foreground = b.foreground /\ w.streams = b.streams /\ w.sessions = b.sessions
      /\ w.record = b.record /\ w.usage = b.usage /\ w.started = s
  BY <1>1, <1>2 DEF Told, SessionGood, Session
<1>6. b.origin = "none" => ~b.record /\ ~b.usage
  BY <1>1 DEF Told, SessionGood, Clean
<1>7. Told(b, w)
  BY <1>1, <1>3, <1>4, <1>5, <1>6, MarksTold DEF Told
<1>. QED  BY <1>1, <1>7 DEF Told, w

LEMMA StateTold ==
    ASSUME NEW v, SessionGood(v), NEW begun \in BOOLEAN, NEW able \in BOOLEAN
    PROVE  Told(v, StateReported(v, begun, able))
<1> DEFINE s == IF begun THEN reportPlaybackStarted(v, able) ELSE v
           both == begun /\ able
           r == recordGlobalPlaybackStarted(s, both)
<1>1. Told(v, s)
  BY StartedTold DEF Told
<1>2. both \in BOOLEAN
  OBVIOUS
<1>. HIDE DEF s, both
<1>3. Told(s, r)
  BY <1>1, <1>2, RecordTold DEF Told
<1>4. Told(r, beginPlaybackUsageTracking(r, able))
  BY <1>3, UsageTold DEF Told
<1>5. StateReported(v, begun, able) = beginPlaybackUsageTracking(r, able)
  BY DEF StateReported, reportPlaybackProgress, s, both
<1>. HIDE DEF r
<1>. QED  BY <1>1, <1>3, <1>4, <1>5 DEF Told

\* The end of a file closes the record and the clock, and the playback stays.
LEMMA EndedTold == ASSUME NEW v, SessionGood(v) PROVE Told(v, reportPlaybackEnded(v))
<1> DEFINE w == reportPlaybackEnded(v)
<1>1. v \in Session
  BY DEF SessionGood
<1>2. w = [v EXCEPT !.record = FALSE, !.usage = FALSE, !.started = FALSE]
  BY <1>1 DEF reportPlaybackEnded, reportPlaybackStopped, finishPlaybackUsageTracking, finishGlobalPlaybackHistory,
              Session
<1>. HIDE DEF w
<1>3. w \in Session
  BY <1>1, <1>2 DEF Session
<1>4. /\ w.url = v.url /\ w.origin = v.origin /\ w.stream = v.stream /\ w.session = v.session /\ w.audio = v.audio
      /\ w.asks = v.asks /\ w.foreground = v.foreground /\ w.streams = v.streams /\ w.sessions = v.sessions
      /\ ~w.record /\ ~w.usage /\ ~w.started
  BY <1>1, <1>2 DEF Session
<1>. QED  BY <1>3, <1>4, MarksTold DEF w

-----------------------------------------------------------------------------
(* Opening and clearing *)

Blank(c) ==
    /\ c \in Session /\ c.url = NoUrl /\ c.origin = "none" /\ c.stream = 0 /\ c.session = 0 /\ ~c.audio
    /\ ~c.record /\ ~c.usage /\ ~c.started /\ ~c.foreground

\* Clearing revokes what was served, whatever else has been opened meanwhile.
LEMMA ClearedIs ==
    ASSUME NEW v, v \in Session
    PROVE  LET c == clearCurrentPlayback(v)
           IN  Blank(c) /\ c.streams = v.streams \ {v.stream} /\ c.sessions = v.sessions \ {v.session}
<1> DEFINE c == clearCurrentPlayback(v)
           late == v.late \/ v.prepare # "none"
           streams == v.streams \ {v.stream}
           left == v.sessions \ {v.session}
<1>1. c = [v EXCEPT !.record = FALSE, !.usage = FALSE, !.started = FALSE, !.late = late, !.prepare = "none",
                    !.url = NoUrl, !.origin = "none", !.stream = 0, !.session = 0, !.audio = FALSE,
                    !.foreground = FALSE, !.streams = streams, !.sessions = left]
  BY DEF clearCurrentPlayback, reportPlaybackStopped, finishPlaybackUsageTracking, finishGlobalPlaybackHistory,
         Session
<1>2. /\ late \in BOOLEAN /\ NoUrl \in Url /\ 0 \in Handle
      /\ streams \in SUBSET (1..MaxHandles) /\ left \in SUBSET (1..MaxHandles)
  BY SessionAssumption DEF Session, NoUrl, Url, Handle
<1>. HIDE DEF c, late, streams, left
<1>3. c \in Session
  <2> DEFINE a == [v EXCEPT !.record = FALSE, !.usage = FALSE, !.started = FALSE, !.late = late, !.prepare = "none",
                            !.audio = FALSE, !.foreground = FALSE]
             b == [a EXCEPT !.origin = "none", !.url = NoUrl, !.stream = 0, !.session = 0]
  <2>1. a \in Session
    BY <1>2 DEF Session
  <2>2. "none" \in Origin
    BY DEF Origin
  <2>3. c = [b EXCEPT !.streams = streams, !.sessions = left]
    BY <1>1 DEF Session
  <2>. HIDE DEF a
  <2>4. b \in Session
    BY <1>2, <2>1, <2>2 DEF Session
  <2>. HIDE DEF b
  <2>. QED  BY <1>2, <2>3, <2>4 DEF Session
<1>4. /\ c.url = NoUrl /\ c.origin = "none" /\ c.stream = 0 /\ c.session = 0 /\ c.audio = FALSE
      /\ c.record = FALSE /\ c.usage = FALSE /\ c.started = FALSE /\ c.foreground = FALSE
      /\ c.streams = streams /\ c.sessions = left
  BY <1>1 DEF Session
<1>. QED  BY <1>3, <1>4 DEF Blank, c, streams, left

LEMMA ClearedGood ==
    ASSUME NEW v, SessionGood(v)
    PROVE  LET c == clearCurrentPlayback(v)
           IN  SessionGood(c) /\ Blank(c) /\ c.streams = {} /\ c.sessions = {}
<1> DEFINE c == clearCurrentPlayback(v)
<1>1. Blank(c) /\ c.streams = v.streams \ {v.stream} /\ c.sessions = v.sessions \ {v.session}
  BY ClearedIs DEF SessionGood
<1>. HIDE DEF c
<1>2. c.streams = {} /\ c.sessions = {}
  BY <1>1 DEF SessionGood, Served
<1>3. Served(c) /\ Clean(c)
  BY <1>1, <1>2 DEF Blank, Served, Clean, Playing, NoUrl
<1>. QED  BY <1>1, <1>2, <1>3 DEF SessionGood, Blank, c

\* Nothing but who waits for what has changed.
LEMMA QuietGood ==
    ASSUME NEW v, SessionGood(v), NEW w, w \in Session,
           w.url = v.url, w.origin = v.origin, w.stream = v.stream, w.session = v.session, w.audio = v.audio,
           w.record = v.record, w.usage = v.usage, w.started = v.started,
           w.streams = v.streams, w.sessions = v.sessions,
           ~Playing(v) /\ w.foreground => w.asks # {}
    PROVE  SessionGood(w)
<1>1. Served(w)
  BY DEF SessionGood, Served
<1>2. Clean(w)
  BY DEF SessionGood, Clean, Playing
<1>. QED  BY <1>1, <1>2 DEF SessionGood

\* The address that begins is the only one that is served, beside what is remembered.
LEMMA BeginsGood ==
    ASSUME NEW c, c \in Session, NEW origin \in Origin \ {"none"}, NEW url \in Url, url.kind # "none",
           c.usage => origin \notin {"local", "link"},
           url.kind = "stream" => url.handle # 0 /\ c.streams = {url.handle},
           url.kind # "stream" => c.streams = {c.stream} \ {0},
           url.kind = "session" => url.handle # 0 /\ c.sessions = {url.handle},
           url.kind # "session" => c.sessions = {c.session} \ {0}
    PROVE  SessionGood(Begins(c, origin, url)) /\ Playing(Begins(c, origin, url))
<1> DEFINE stream == IF url.kind = "stream" THEN url.handle ELSE c.stream
           opened == IF url.kind = "session" THEN url.handle ELSE c.session
           w == Begins(c, origin, url)
<1>1. w = [c EXCEPT !.origin = origin, !.url = url, !.foreground = TRUE, !.started = FALSE, !.view = "player",
                    !.stream = stream, !.session = opened]
  BY DEF Begins, Session
<1>2. stream \in Handle /\ opened \in Handle
  BY DEF Session, Url
<1>3. /\ url.kind = "stream" => url.handle = stream /\ stream # 0
      /\ url.kind = "session" => url.handle = opened /\ opened # 0
      /\ c.streams = {stream} \ {0} /\ c.sessions = {opened} \ {0}
  BY DEF Url
<1>. HIDE DEF stream, opened, w
<1>4. w \in Session
  BY <1>1, <1>2 DEF Session
<1>5. /\ w.origin = origin /\ w.url = url /\ w.stream = stream /\ w.session = opened
      /\ w.streams = c.streams /\ w.sessions = c.sessions /\ w.usage = c.usage
  BY <1>1 DEF Session
<1>6. Served(w)
  BY <1>3, <1>5 DEF Served
<1>7. Clean(w) /\ Playing(w)
  BY <1>5 DEF Clean, Playing
<1>. QED  BY <1>4, <1>6, <1>7 DEF SessionGood, w

LEMMA DirectIs == Direct \in Url /\ Direct.kind = "direct"
BY SessionAssumption DEF Direct, Url, Handle

LEMMA DirectBegins ==
    ASSUME NEW v, SessionGood(v), NEW origin \in Origin \ {"none"}
    PROVE  SessionGood(Begins(clearCurrentPlayback(v), origin, Direct))
<1> DEFINE c == clearCurrentPlayback(v)
<1>1. SessionGood(c) /\ Blank(c)
  BY ClearedGood
<1>. HIDE DEF c
<1>2. SessionGood(Begins(c, origin, Direct))
  BY <1>1, DirectIs, BeginsGood DEF SessionGood, Served, Blank
<1>. QED  BY <1>2 DEF c

LEMMA StreamBegins ==
    ASSUME NEW v, SessionGood(v), NEW origin \in Origin \ {"none"}
    PROVE  LET b == Begins(clearCurrentPlayback(OpensStream(v)), origin, StreamOf(v)) IN SessionGood(b) /\ Playing(b)
<1> DEFINE o == OpensStream(v)
           c == clearCurrentPlayback(o)
           h == Fresh(v.streams)
           url == StreamOf(v)
<1>1. /\ url \in Url /\ url.kind = "stream" /\ url.handle = h /\ h \in 1..MaxHandles /\ h \notin v.streams
      /\ v \in Session
  BY StreamIsNew DEF SessionGood
<1>. HIDE DEF h, url
<1>2. o = [v EXCEPT !.streams = v.streams \cup {h}]
  BY <1>1 DEF OpensStream, h, Session
<1>. HIDE DEF o
<1>3. /\ o \in Session /\ o.streams = v.streams \cup {h} /\ o.stream = v.stream
      /\ o.sessions = v.sessions /\ o.session = v.session
  BY <1>1, <1>2 DEF Session
<1>4. Blank(c) /\ c.streams = o.streams \ {o.stream} /\ c.sessions = o.sessions \ {o.session}
  BY <1>3, ClearedIs
<1>. HIDE DEF c
<1>5. c.streams = {h} /\ c.sessions = {} /\ h # 0
  <2>1. h # 0 /\ h # v.stream
    BY <1>1 DEF SessionGood, Served
  <2>2. v.streams = {v.stream} \ {0} /\ v.sessions = {v.session} \ {0}
    BY DEF SessionGood, Served
  <2>. QED  BY <1>3, <1>4, <2>1, <2>2
<1>6. SessionGood(Begins(c, origin, url)) /\ Playing(Begins(c, origin, url))
  BY <1>1, <1>4, <1>5, BeginsGood DEF Blank
<1>. QED  BY <1>6 DEF o, c, url

LEMMA SessionBegins ==
    ASSUME NEW v, SessionGood(v), NEW origin \in Origin \ {"none"}
    PROVE  LET b == Begins(clearCurrentPlayback(OpensSession(v)), origin, SessionOf(v)) IN SessionGood(b) /\ Playing(b)
<1> DEFINE o == OpensSession(v)
           c == clearCurrentPlayback(o)
           h == Fresh(v.sessions)
           url == SessionOf(v)
<1>1. /\ url \in Url /\ url.kind = "session" /\ url.handle = h /\ h \in 1..MaxHandles /\ h \notin v.sessions
      /\ v \in Session
  BY SessionIsNew DEF SessionGood
<1>. HIDE DEF h, url
<1>2. o = [v EXCEPT !.sessions = v.sessions \cup {h}]
  BY <1>1 DEF OpensSession, h, Session
<1>. HIDE DEF o
<1>3. /\ o \in Session /\ o.sessions = v.sessions \cup {h} /\ o.stream = v.stream
      /\ o.streams = v.streams /\ o.session = v.session
  BY <1>1, <1>2 DEF Session
<1>4. Blank(c) /\ c.streams = o.streams \ {o.stream} /\ c.sessions = o.sessions \ {o.session}
  BY <1>3, ClearedIs
<1>. HIDE DEF c
<1>5. c.sessions = {h} /\ c.streams = {} /\ h # 0
  <2>1. h # 0 /\ h # v.session
    BY <1>1 DEF SessionGood, Served
  <2>2. v.streams = {v.stream} \ {0} /\ v.sessions = {v.session} \ {0}
    BY DEF SessionGood, Served
  <2>. QED  BY <1>3, <1>4, <2>1, <2>2
<1>6. SessionGood(Begins(c, origin, url)) /\ Playing(Begins(c, origin, url))
  BY <1>1, <1>4, <1>5, BeginsGood DEF Blank
<1>. QED  BY <1>6 DEF o, c, url

\* What plays may belong to the audio queue or not, be shown or not, and claim the foreground or not.
LEMMA DressGood ==
    ASSUME NEW v, SessionGood(v), Playing(v), NEW w, w \in Session,
           w.url = v.url, w.origin = v.origin, w.stream = v.stream, w.session = v.session,
           w.usage = v.usage, w.streams = v.streams, w.sessions = v.sessions
    PROVE  SessionGood(w) /\ Playing(w)
BY DEF SessionGood, Served, Clean, Playing

LEMMA ClaimedGood ==
    ASSUME NEW v, SessionGood(v), Playing(v), NEW foreground \in BOOLEAN
    PROVE  SessionGood([v EXCEPT !.foreground = foreground])
<1>1. [v EXCEPT !.foreground = foreground] \in Session
  BY DEF SessionGood, Session
<1>. QED  BY <1>1, DressGood DEF SessionGood, Session

LEMMA ShownGood ==
    ASSUME NEW v, SessionGood(v), Playing(v), NEW audio \in BOOLEAN
    PROVE  SessionGood([v EXCEPT !.audio = audio])
<1>1. [v EXCEPT !.audio = audio] \in Session
  BY DEF SessionGood, Session
<1>. QED  BY <1>1, DressGood DEF SessionGood, Session

\* A stream that is opened in the place of the last one.
LEMMA SwapGood ==
    ASSUME NEW v, v \in Session, Served(v), NEW origin \in Origin \ {"none"},
           v.usage => origin \notin {"local", "link"}
    PROVE  LET url == StreamOf(v)
               w == [Begins(v, origin, url) EXCEPT !.streams = (@ \ {v.stream}) \cup {url.handle}]
           IN  SessionGood(w) /\ Playing(w)
<1> DEFINE h == Fresh(v.streams)
           url == StreamOf(v)
           streams == (v.streams \ {v.stream}) \cup {h}
           c == [v EXCEPT !.streams = streams]
           w == [Begins(v, origin, url) EXCEPT !.streams = (@ \ {v.stream}) \cup {url.handle}]
<1>1. url \in Url /\ url.kind = "stream" /\ url.handle = h /\ h \in 1..MaxHandles
  BY StreamIsNew
<1>2. streams = {h} /\ h # 0
  BY <1>1 DEF Served
<1>. HIDE DEF h, url
<1>3. w = Begins(c, origin, url)
  BY <1>1 DEF Begins, Session
<1>4. c \in Session /\ c.streams = {h} /\ c.sessions = v.sessions /\ c.session = v.session /\ c.usage = v.usage
  BY <1>1, <1>2 DEF Session
<1>. HIDE DEF c, w
<1>5. SessionGood(w) /\ Playing(w)
  BY <1>1, <1>2, <1>3, <1>4, BeginsGood DEF Served
<1>. QED  BY <1>5 DEF w, url

\* The next track takes the place of the last one, and its stream that of the last one.
LEMMA TrackGood ==
    ASSUME NEW v, v \in Session, Served(v)
    PROVE  SessionGood(playWebDavAudioTrack(v)) /\ Playing(playWebDavAudioTrack(v))
<1> DEFINE closed == finishPlaybackUsageTracking(finishGlobalPlaybackHistory(v))
           url == StreamOf(v)
           w == [Begins(closed, "webdav", url) EXCEPT !.streams = (@ \ {closed.stream}) \cup {url.handle}]
           t == playWebDavAudioTrack(v)
<1>1. /\ closed \in Session /\ closed.usage = FALSE /\ closed.url = v.url /\ closed.stream = v.stream
      /\ closed.session = v.session /\ closed.streams = v.streams /\ closed.sessions = v.sessions
      /\ closed.view = v.view
  BY DEF finishPlaybackUsageTracking, finishGlobalPlaybackHistory, Session
<1>2. t = [w EXCEPT !.view = v.view]
  <2> DEFINE b == Begins(closed, "webdav", url)
  <2>1. t = [b EXCEPT !.view = v.view, !.streams = (@ \ {v.stream}) \cup {url.handle}]
    BY DEF playWebDavAudioTrack
  <2>2. w = [b EXCEPT !.streams = (@ \ {v.stream}) \cup {url.handle}]
    BY <1>1
  <2>3. b \in Session
    <3>1. url \in Url /\ url.kind = "stream"
      BY StreamIsNew
    <3>. HIDE DEF url, closed
    <3>2. url.handle \in Handle
      BY <3>1 DEF Url
    <3>. QED  BY <1>1, <3>1, <3>2 DEF Begins, Session, Origin
  <2>. HIDE DEF b, t, w
  <2>. QED  BY <2>1, <2>2, <2>3 DEF Session
<1>. HIDE DEF closed
<1>3. StreamOf(closed) = url /\ Served(closed)
  BY <1>1 DEF StreamOf, Served
<1>4. SessionGood(w) /\ Playing(w)
  BY <1>1, <1>3, SwapGood DEF Origin
<1>. HIDE DEF w, t
<1>5. /\ t \in Session /\ t.url = w.url /\ t.origin = w.origin /\ t.stream = w.stream /\ t.session = w.session
      /\ t.usage = w.usage /\ t.streams = w.streams /\ t.sessions = w.sessions
  BY <1>2, <1>4 DEF SessionGood, Session
<1>. QED  BY <1>4, <1>5, DressGood DEF t

-----------------------------------------------------------------------------
(* What a handler leaves *)

LEMMA SourcesGood ==
    ASSUME NEW p, PlayerGood(p), NEW v, NEW same \in BOOLEAN, NEW queued \in BOOLEAN
    PROVE  PlayerGood(Sources(p, v, same, queued))
<1> DEFINE playing == Playing(v)
           visible == vm.view = "player"
<1>1. playing \in BOOLEAN /\ visible \in BOOLEAN
  BY DEF Playing
<1>. HIDE DEF playing, visible
<1>2. PlayerGood(setSource(p, playing, visible, queued, queued))
  BY <1>1, SourceGood
<1>. QED  BY <1>2 DEF Sources, playing, visible

LEMMA ShowsGood ==
    ASSUME NEW p, PlayerGood(p), NEW v, NEW queued \in BOOLEAN
    PROVE  PlayerGood(Shows(p, v, queued))
<1> DEFINE visible == v.view = "player"
<1>1. visible \in BOOLEAN
  OBVIOUS
<1>. HIDE DEF visible
<1>2. PlayerGood(itemChange(p, visible, queued, queued))
  BY <1>1, ItemGood
<1>. QED  BY <1>2 DEF Shows, visible

LEMMA BecomesGood ==
    ASSUME NEW v, SessionGood(v), NEW p, PlayerGood(p), Becomes(v, p) PROVE Inv'
<1>1. PICK queued \in BOOLEAN, same \in BOOLEAN, able \in BOOLEAN :
          /\ player' = Shows(Sources(p, v, same, queued), v, queued)
          /\ vm' = IF player' = p THEN v ELSE StateReported(v, player'.begun, able)
  BY DEF Becomes
<1>2. PlayerGood(Sources(p, v, same, queued))
  BY SourcesGood
<1>3. PlayerGood(player')
  BY <1>1, <1>2, ShowsGood
<1>4. player'.begun \in BOOLEAN
  BY <1>3 DEF PlayerGood, Player
<1>5. SessionGood(vm')
  BY <1>1, <1>4, StateTold DEF Told
<1>. QED  BY <1>3, <1>5 DEF Inv

LEMMA TurnsGood ==
    ASSUME NEW v, SessionGood(v), PlayerGood(player), Turns(v) PROVE Inv'
<1>1. PICK queued \in BOOLEAN, able \in BOOLEAN :
          /\ player' = Shows(player, v, queued)
          /\ vm' = IF player' = player THEN v ELSE StateReported(v, player'.begun, able)
  BY DEF Turns
<1>2. PlayerGood(player')
  BY <1>1, ShowsGood
<1>3. player'.begun \in BOOLEAN
  BY <1>2 DEF PlayerGood, Player
<1>4. SessionGood(vm')
  BY <1>1, <1>3, StateTold DEF Told
<1>. QED  BY <1>2, <1>4 DEF Inv

\* Nobody plays anything else: an answer that was awaited, or the view.
LEMMA CancelsGood ==
    ASSUME NEW v, SessionGood(v) PROVE SessionGood(cancelPendingHistoryReplay(v))
<1> DEFINE asks == IF "replay" \in v.asks THEN (v.asks \ {"replay"}) \cup {"outdated"} ELSE v.asks
           w == cancelPendingHistoryReplay(v)
<1>1. w = [v EXCEPT !.fetch = FALSE, !.asks = asks]
  BY DEF cancelPendingHistoryReplay, SessionGood, Session
<1>2. asks \in SUBSET {"plain", "replay", "outdated"} /\ (v.asks # {} => asks # {})
  BY DEF SessionGood, Session
<1>. HIDE DEF asks, w
<1>3. /\ w \in Session
      /\ w.url = v.url /\ w.origin = v.origin /\ w.stream = v.stream /\ w.session = v.session /\ w.audio = v.audio
      /\ w.record = v.record /\ w.usage = v.usage /\ w.started = v.started
      /\ w.streams = v.streams /\ w.sessions = v.sessions /\ w.foreground = v.foreground /\ w.asks = asks
  BY <1>1, <1>2 DEF SessionGood, Session
<1>4. ~Playing(v) /\ w.foreground => w.asks # {}
  BY <1>2, <1>3 DEF SessionGood, Clean
<1>. QED  BY <1>3, <1>4, QuietGood DEF w

LEMMA ViewGood ==
    ASSUME NEW v, SessionGood(v), NEW view \in {"page", "history", "player"}
    PROVE  SessionGood([v EXCEPT !.view = view])
<1> DEFINE w == [v EXCEPT !.view = view]
<1>3. /\ w \in Session
      /\ w.url = v.url /\ w.origin = v.origin /\ w.stream = v.stream /\ w.session = v.session /\ w.audio = v.audio
      /\ w.record = v.record /\ w.usage = v.usage /\ w.started = v.started
      /\ w.streams = v.streams /\ w.sessions = v.sessions /\ w.foreground = v.foreground /\ w.asks = v.asks
  BY DEF SessionGood, Session
<1>. HIDE DEF w
<1>4. ~Playing(v) /\ w.foreground => w.asks # {}
  BY <1>3 DEF SessionGood, Clean
<1>. QED  BY <1>3, <1>4, QuietGood DEF w

LEMMA TurnedGood ==
    ASSUME NEW v, SessionGood(v), NEW view \in {"page", "player"} PROVE SessionGood(setCurrentView(v, view))
BY CancelsGood, ViewGood DEF setCurrentView

LEMMA PrepareGood ==
    ASSUME NEW v, SessionGood(v), NEW how \in {"none", "local", "webdav", "history"}, NEW late \in BOOLEAN,
           NEW fetch \in BOOLEAN
    PROVE  SessionGood([v EXCEPT !.late = late, !.prepare = how, !.fetch = fetch])
<1> DEFINE w == [v EXCEPT !.late = late, !.prepare = how, !.fetch = fetch]
<1>3. /\ w \in Session
      /\ w.url = v.url /\ w.origin = v.origin /\ w.stream = v.stream /\ w.session = v.session /\ w.audio = v.audio
      /\ w.record = v.record /\ w.usage = v.usage /\ w.started = v.started
      /\ w.streams = v.streams /\ w.sessions = v.sessions /\ w.foreground = v.foreground /\ w.asks = v.asks
  BY DEF SessionGood, Session
<1>. HIDE DEF w
<1>4. ~Playing(v) /\ w.foreground => w.asks # {}
  BY <1>3 DEF SessionGood, Clean
<1>. QED  BY <1>3, <1>4, QuietGood DEF w

LEMMA PreparesGood ==
    ASSUME NEW v, SessionGood(v), NEW how \in {"local", "webdav", "history"}
    PROVE  SessionGood(Prepares(v, how))
<1> DEFINE late == v.late \/ v.prepare # "none"
           fetch == v.fetch
<1>1. Prepares(v, how) = [v EXCEPT !.late = late, !.prepare = how, !.fetch = fetch]
  BY DEF Prepares, SessionGood, Session
<1>2. late \in BOOLEAN /\ fetch \in BOOLEAN /\ how \in {"none", "local", "webdav", "history"}
  BY DEF SessionGood, Session
<1>. HIDE DEF late, fetch
<1>3. SessionGood([v EXCEPT !.late = late, !.prepare = how, !.fetch = fetch])
  BY <1>2, PrepareGood
<1>. QED  BY <1>1, <1>3

\* A claim on the foreground comes with the request it is for.
LEMMA AskGood == ASSUME NEW v, SessionGood(v) PROVE SessionGood(playSelectedItem(v))
<1> DEFINE asks == v.asks \cup {IF v.view = "history" THEN "replay" ELSE "plain"}
           w == playSelectedItem(v)
<1>1. w = [v EXCEPT !.foreground = TRUE, !.asks = asks]
  BY DEF playSelectedItem, SessionGood, Session
<1>2. asks \in SUBSET {"plain", "replay", "outdated"} /\ asks # {}
  BY DEF SessionGood, Session
<1>. HIDE DEF asks, w
<1>3. /\ w \in Session
      /\ w.url = v.url /\ w.origin = v.origin /\ w.stream = v.stream /\ w.session = v.session /\ w.audio = v.audio
      /\ w.record = v.record /\ w.usage = v.usage /\ w.started = v.started
      /\ w.streams = v.streams /\ w.sessions = v.sessions /\ w.asks = asks
  BY <1>1, <1>2 DEF SessionGood, Session
<1>. QED  BY <1>2, <1>3, QuietGood DEF w

-----------------------------------------------------------------------------
(* Every action *)

LEMMA LocalGood ==
    ASSUME NEW v, SessionGood(v), PlayerGood(player), startLocalVideoPlayback(v) PROVE Inv'
<1>1. CASE Becomes(finishLocalVideoPlayback(v, Direct), player)
  <2>1. SessionGood(finishLocalVideoPlayback(v, Direct))
    BY DirectBegins DEF finishLocalVideoPlayback, Origin
  <2>. QED  BY <1>1, <2>1, BecomesGood
<1>2. CASE vm' = Prepares(v, "local") /\ player' = player
  BY <1>2, PreparesGood DEF Inv
<1>. QED  BY <1>1, <1>2 DEF startLocalVideoPlayback

LEMMA LinkGood == ASSUME NEW v, SessionGood(v) PROVE SessionGood(startLinkPlayback(v))
BY DirectBegins DEF startLinkPlayback, Origin

LEMMA ChannelGood ==
    ASSUME NEW v, SessionGood(v), PlayerGood(player), startIptvChannelPlayback(v) PROVE Inv'
<1>1. CASE Becomes(Begins(clearCurrentPlayback(v), "iptv", Direct), player)
  <2>1. SessionGood(Begins(clearCurrentPlayback(v), "iptv", Direct))
    BY DirectBegins DEF Origin
  <2>. QED  BY <1>1, <2>1, BecomesGood
<1>2. CASE vm' = clearCurrentPlayback(v) /\ player' = player
  BY <1>2, ClearedGood DEF Inv
<1>. QED  BY <1>1, <1>2 DEF startIptvChannelPlayback

LEMMA FromHistoryGood ==
    ASSUME NEW v, SessionGood(v), PlayerGood(player), startWebDavHistoryPlayback(v) PROVE Inv'
<1>1. CASE vm' = Prepares(v, "history") /\ player' = player
  BY <1>1, PreparesGood DEF Inv
<1>2. ASSUME NEW audio \in BOOLEAN,
             Becomes(finishWebDavHistoryPlayback(OpensStream(v), StreamOf(v), audio), setAudioOnly(player, audio))
      PROVE  Inv'
  <2> DEFINE b == Begins(clearCurrentPlayback(OpensStream(v)), "webdav", StreamOf(v))
  <2>1. SessionGood(b) /\ Playing(b)
    BY StreamBegins DEF Origin
  <2>3. finishWebDavHistoryPlayback(OpensStream(v), StreamOf(v), audio) = [b EXCEPT !.audio = audio]
    BY DEF finishWebDavHistoryPlayback
  <2>. HIDE DEF b
  <2>4. SessionGood([b EXCEPT !.audio = audio])
    BY <2>1, ShownGood
  <2>. QED  BY <1>2, <2>3, <2>4, AudioOnlyGood, BecomesGood
<1>. QED  BY <1>1, <1>2 DEF startWebDavHistoryPlayback

LEMMA PreparedGood == Inv /\ Prepared => Inv'
<1>. SUFFICES ASSUME Inv, Prepared PROVE Inv'
  OBVIOUS
<1> DEFINE v == [vm EXCEPT !.prepare = "none"]
           open == OpensSession(v)
           url == SessionOf(v)
           b == Begins(clearCurrentPlayback(open), "webdav", url)
<1>1. SessionGood(v) /\ PlayerGood(player)
  <2>1. v = [vm EXCEPT !.late = vm.late, !.prepare = "none", !.fetch = vm.fetch] /\ SessionGood(vm)
    BY DEF Inv, SessionGood, Session
  <2>2. vm.late \in BOOLEAN /\ vm.fetch \in BOOLEAN
    BY <2>1 DEF SessionGood, Session
  <2>3. SessionGood([vm EXCEPT !.late = vm.late, !.prepare = "none", !.fetch = vm.fetch])
    BY <2>1, <2>2, PrepareGood
  <2>. QED  BY <2>1, <2>3 DEF Inv
<1>2. \/ vm' = v /\ player' = player
      \/ Becomes(finishLocalVideoPlayback(open, url), player)
      \/ Becomes(startWebDavVideoPlayback(open, url), player)
      \/ \E audio \in BOOLEAN :
            Becomes(finishWebDavHistoryPlayback(open, url, audio), setAudioOnly(player, audio))
  BY DEF Prepared
<1>. HIDE DEF v
<1>3. SessionGood(Begins(clearCurrentPlayback(open), "local", url)) /\ SessionGood(b) /\ Playing(b)
  BY <1>1, SessionBegins DEF Origin
<1>5. CASE vm' = v /\ player' = player
  BY <1>1, <1>5 DEF Inv
<1>6. CASE Becomes(finishLocalVideoPlayback(open, url), player)
  <2>1. SessionGood(finishLocalVideoPlayback(open, url))
    BY <1>3 DEF finishLocalVideoPlayback
  <2>. QED  BY <1>1, <1>6, <2>1, BecomesGood
<1>7. CASE Becomes(startWebDavVideoPlayback(open, url), player)
  <2>1. SessionGood(startWebDavVideoPlayback(open, url))
    BY <1>3 DEF startWebDavVideoPlayback
  <2>. QED  BY <1>1, <1>7, <2>1, BecomesGood
<1>8. ASSUME NEW audio \in BOOLEAN,
             Becomes(finishWebDavHistoryPlayback(open, url, audio), setAudioOnly(player, audio))
      PROVE  Inv'
  <2>1. finishWebDavHistoryPlayback(open, url, audio) = [b EXCEPT !.audio = audio]
    BY DEF finishWebDavHistoryPlayback
  <2>. HIDE DEF b
  <2>2. SessionGood([b EXCEPT !.audio = audio])
    BY <1>3, ShownGood
  <2>3. PlayerGood(setAudioOnly(player, audio))
    BY <1>1, AudioOnlyGood
  <2>. QED  BY <1>8, <2>1, <2>2, <2>3, BecomesGood
<1>. QED  BY <1>2, <1>5, <1>6, <1>7, <1>8

LEMMA WebDavGood == Inv /\ openWebDavItem => Inv'
<1>. SUFFICES ASSUME Inv, openWebDavItem PROVE Inv'
  OBVIOUS
<1>1. SessionGood(vm) /\ PlayerGood(player)
  BY DEF Inv
<1>2. \/ Becomes(clearWebDavAudioPlayback(vm), player)
      \/ vm' = Prepares(vm, "webdav") /\ player' = player
      \/ Becomes(startWebDavVideoPlayback(OpensStream(vm), StreamOf(vm)), player)
  BY DEF openWebDavItem
<1>3. CASE Becomes(clearWebDavAudioPlayback(vm), player)
  <2>1. SessionGood(clearWebDavAudioPlayback(vm))
    BY <1>1, ClearedGood DEF clearWebDavAudioPlayback
  <2>. QED  BY <1>1, <1>3, <2>1, BecomesGood
<1>4. CASE vm' = Prepares(vm, "webdav") /\ player' = player
  BY <1>1, <1>4, PreparesGood DEF Inv
<1>5. CASE Becomes(startWebDavVideoPlayback(OpensStream(vm), StreamOf(vm)), player)
  <2>1. SessionGood(startWebDavVideoPlayback(OpensStream(vm), StreamOf(vm)))
    BY <1>1, StreamBegins DEF startWebDavVideoPlayback, Origin
  <2>. QED  BY <1>1, <1>5, <2>1, BecomesGood
<1>. QED  BY <1>2, <1>3, <1>4, <1>5

LEMMA QueueGood == Inv /\ startWebDavAudioPlayback => Inv'
<1>. SUFFICES ASSUME Inv, startWebDavAudioPlayback PROVE Inv'
  OBVIOUS
<1> DEFINE a == [vm EXCEPT !.audio = TRUE]
           v == playWebDavAudioTrack(a)
           yes == TRUE
<1>1. a \in Session /\ Served(a) /\ PlayerGood(player)
  BY DEF Inv, SessionGood, Served, Session
<1>2. SessionGood(v)
  BY <1>1, TrackGood
<1>3. Becomes([v EXCEPT !.view = "player"], setAudioOnly(player, yes))
  BY DEF startWebDavAudioPlayback
<1>. HIDE DEF v
<1>4. SessionGood([v EXCEPT !.view = "player"])
  BY <1>2, ViewGood
<1>5. yes \in BOOLEAN
  OBVIOUS
<1>. HIDE DEF yes
<1>. QED  BY <1>1, <1>3, <1>4, <1>5, AudioOnlyGood, BecomesGood

LEMMA CloseGood == Inv /\ closePlayerToDetails => Inv'
<1>. SUFFICES ASSUME Inv, closePlayerToDetails PROVE Inv'
  OBVIOUS
<1>1. SessionGood(vm) /\ PlayerGood(player)
  BY DEF Inv
<1> DEFINE c == clearCurrentPlayback(vm)
<1>2. PICK view \in {"page", "history"} :
          \/ Becomes([c EXCEPT !.view = view], player)
          \/ Becomes(cancelPendingHistoryReplay([c EXCEPT !.view = view]), player)
  BY DEF closePlayerToDetails
<1>3. SessionGood(c)
  BY <1>1, ClearedGood
<1>. HIDE DEF c
<1>4. SessionGood([c EXCEPT !.view = view])
  BY <1>3, ViewGood
<1>. QED  BY <1>1, <1>2, <1>4, CancelsGood, BecomesGood

LEMMA AnsweredGood == Inv /\ PlaybackUrlAnswered => Inv'
<1>. SUFFICES ASSUME Inv, PlaybackUrlAnswered PROVE Inv'
  OBVIOUS
<1>1. SessionGood(vm) /\ PlayerGood(player)
  BY DEF Inv
<1>2. PICK ask \in vm.asks :
        LET v == [vm EXCEPT !.asks = @ \ {ask}]
            direct == [Begins(v, "server", Direct) EXCEPT !.foreground = vm.foreground]
            url == StreamOf(v)
            proxied == [Begins(v, "server", url) EXCEPT
                            !.foreground = vm.foreground,
                            !.streams = (@ \ {v.stream}) \cup {url.handle}]
        IN  \/ vm' = [v EXCEPT !.foreground = FALSE] /\ UNCHANGED player
            \/ ask # "outdated" /\ Becomes(direct, player)
            \/ ask # "outdated" /\ Becomes(proxied, player)
  BY DEF PlaybackUrlAnswered
<1> DEFINE asks == vm.asks \ {ask}
           v == [vm EXCEPT !.asks = asks]
           direct == [Begins(v, "server", Direct) EXCEPT !.foreground = vm.foreground]
           url == StreamOf(v)
           swapped == [Begins(v, "server", url) EXCEPT !.streams = (@ \ {v.stream}) \cup {url.handle}]
           proxied == [Begins(v, "server", url) EXCEPT !.foreground = vm.foreground,
                                                       !.streams = (@ \ {v.stream}) \cup {url.handle}]
           closed == [v EXCEPT !.foreground = FALSE]
<1>3. \/ vm' = closed /\ player' = player
      \/ Becomes(direct, player)
      \/ Becomes(proxied, player)
  BY <1>2
<1>4. /\ v \in Session /\ v.url = vm.url /\ v.origin = vm.origin /\ v.stream = vm.stream /\ v.session = vm.session
      /\ v.audio = vm.audio /\ v.record = vm.record /\ v.usage = vm.usage /\ v.started = vm.started
      /\ v.streams = vm.streams /\ v.sessions = vm.sessions /\ v.foreground = vm.foreground
  BY <1>1 DEF SessionGood, Session
<1>5. SessionGood(closed)
  <2>1. /\ closed \in Session /\ closed.foreground = FALSE
        /\ closed.url = vm.url /\ closed.origin = vm.origin /\ closed.stream = vm.stream
        /\ closed.session = vm.session
        /\ closed.audio = vm.audio /\ closed.record = vm.record /\ closed.usage = vm.usage
        /\ closed.started = vm.started
        /\ closed.streams = vm.streams /\ closed.sessions = vm.sessions
    BY <1>1 DEF SessionGood, Session
  <2>. HIDE DEF closed
  <2>. QED  BY <1>1, <2>1, QuietGood
<1>. HIDE DEF v
<1>6. Served(v) /\ vm.foreground \in BOOLEAN
  BY <1>1, <1>4 DEF SessionGood, Served, Session
<1>7. SessionGood(direct)
  <2> DEFINE b == Begins(v, "server", Direct)
  <2>1. SessionGood(b) /\ Playing(b)
    BY <1>4, <1>6, DirectIs, BeginsGood DEF Served, Origin
  <2>. HIDE DEF b
  <2>3. SessionGood([b EXCEPT !.foreground = vm.foreground])
    BY <1>6, <2>1, ClaimedGood
  <2>. QED  BY <2>3 DEF b
<1>8. SessionGood(proxied)
  <2>1. SessionGood(swapped) /\ Playing(swapped)
    BY <1>4, <1>6, SwapGood DEF Origin
  <2>2. proxied = [swapped EXCEPT !.foreground = vm.foreground]
    <3> DEFINE b == Begins(v, "server", url)
               more == (b.streams \ {v.stream}) \cup {url.handle}
    <3>1. swapped = [b EXCEPT !.streams = more]
      OBVIOUS
    <3>2. DOMAIN b = DOMAIN v
      BY DEF Begins
    <3>3. proxied = [b EXCEPT !.foreground = vm.foreground, !.streams = more]
      BY <1>4, <3>2 DEF Session
    <3>. HIDE DEF b, more
    <3>. QED  BY <3>1, <3>3
  <2>. HIDE DEF swapped, proxied
  <2>. QED  BY <1>6, <2>1, <2>2, ClaimedGood
<1>. HIDE DEF direct, proxied, closed
<1>. QED  BY <1>1, <1>3, <1>5, <1>7, <1>8, BecomesGood DEF Inv

LEMMA AdvanceGood ==
    ASSUME NEW v, SessionGood(v), NEW p, PlayerGood(p), advanceWebDavAudioPlayback(v, p), v.audio PROVE Inv'
<1>1. CASE Becomes(playWebDavAudioTrack(v), p)
  BY <1>1, TrackGood, BecomesGood DEF SessionGood
<1> DEFINE done == clearWebDavAudioPlayback(v)
           no == FALSE
<1>2. ASSUME NEW able \in BOOLEAN,
             player' = setAudioOnly(setSource(p, no, no, no, no), no),
             vm' = [StateReported(done, no, able) EXCEPT !.view = "page"]
      PROVE  Inv'
  <2>1. no \in BOOLEAN
    OBVIOUS
  <2>2. SessionGood(done)
    BY ClearedGood DEF clearWebDavAudioPlayback
  <2>. HIDE DEF done, no
  <2>3. PlayerGood(setSource(p, no, no, no, no))
    BY <2>1, SourceGood
  <2>4. PlayerGood(player')
    BY <1>2, <2>1, <2>3, AudioOnlyGood
  <2>5. SessionGood(StateReported(done, no, able))
    BY <2>1, <2>2, StateTold DEF Told
  <2>6. SessionGood(vm')
    BY <1>2, <2>5, ViewGood
  <2>. QED  BY <2>4, <2>6 DEF Inv
<1>. QED  BY <1>1, <1>2 DEF advanceWebDavAudioPlayback

LEMMA EventsGood == Inv /\ processEvents => Inv'
<1>. SUFFICES ASSUME Inv, processEvents PROVE Inv'
  OBVIOUS
<1>1. SessionGood(vm) /\ PlayerGood(player) /\ player.events # <<>>
  BY DEF Inv, processEvents
<1> DEFINE event == Head(player.events)
<1>2. PICK queued \in BOOLEAN, able \in BOOLEAN :
          LET p == Handled([player EXCEPT !.events = Tail(@)], event, queued)
              heard == StateReported(vm, p.begun, able)
              ended == reportPlaybackEnded(heard)
          IN  CASE event = "reconfig" -> vm' = vm /\ player' = p
                [] event \in {"start", "loaded"} -> vm' = heard /\ player' = p
                [] event = "restart" -> vm' = reportPlaybackStarted(heard, able) /\ player' = p
                [] event = "stop" -> vm' = ended /\ player' = p
                [] event \in {"eof", "error"} ->
                      IF vm.audio THEN advanceWebDavAudioPlayback(ended, p)
                      ELSE vm' = ended /\ player' = p
  BY DEF processEvents
<1> DEFINE p == Handled([player EXCEPT !.events = Tail(@)], event, queued)
           heard == StateReported(vm, p.begun, able)
           ended == reportPlaybackEnded(heard)
<1>3. event \in Event
  BY <1>1 DEF PlayerGood, Player
<1>4. PlayerGood(p)
  BY <1>1, HandledGood
<1>5. p.begun \in BOOLEAN
  BY <1>4 DEF PlayerGood, Player
<1>. HIDE DEF p, event
<1>6. Told(vm, heard)
  BY <1>1, <1>5, StateTold
<1>. HIDE DEF heard
<1>7. Told(heard, ended) /\ SessionGood(ended) /\ ended.audio = vm.audio
  BY <1>6, EndedTold DEF Told
<1>8. Told(heard, reportPlaybackStarted(heard, able))
  BY <1>6, StartedTold DEF Told
<1>. HIDE DEF ended
<1>9. \/ player' = p /\ vm' \in {vm, heard, ended, reportPlaybackStarted(heard, able)}
      \/ advanceWebDavAudioPlayback(ended, p) /\ ended.audio
  BY <1>2, <1>3, <1>7 DEF Event, p, heard, ended
<1>10. CASE player' = p /\ vm' \in {vm, heard, ended, reportPlaybackStarted(heard, able)}
  BY <1>1, <1>4, <1>6, <1>7, <1>8, <1>10 DEF Inv, Told
<1>11. CASE advanceWebDavAudioPlayback(ended, p) /\ ended.audio
  BY <1>4, <1>7, <1>11, AdvanceGood
<1>. QED  BY <1>9, <1>10, <1>11

LEMMA ChangeGood == Inv /\ handlePropertyChange => Inv'
<1>. SUFFICES ASSUME Inv, handlePropertyChange PROVE Inv'
  OBVIOUS
<1> DEFINE begun == player.begun \/ player.file = "playing"
<1>1. PICK able \in BOOLEAN :
          player' = [player EXCEPT !.begun = begun] /\ vm' = StateReported(vm, player'.begun, able)
  BY DEF handlePropertyChange, Inv, PlayerGood, Player
<1>2. begun \in BOOLEAN
  BY DEF Inv, PlayerGood, Player
<1>. HIDE DEF begun
<1>3. /\ player' \in Player /\ player'.cover = player.cover /\ player'.mode = player.mode
      /\ player'.loading = player.loading /\ player'.next = player.next /\ player'.file = player.file
      /\ player'.events = player.events /\ player'.begun \in BOOLEAN
  BY <1>1, <1>2 DEF Inv, PlayerGood, Player
<1>4. PlayerGood(player')
  BY <1>3, Unheard DEF Inv
<1>5. SessionGood(vm')
  BY <1>1, <1>3, StateTold DEF Inv, Told
<1>. QED  BY <1>4, <1>5 DEF Inv

LEMMA FollowsGood == Inv /\ audioOnlyChanged => Inv'
<1>. SUFFICES ASSUME Inv, audioOnlyChanged PROVE Inv'
  OBVIOUS
<1> DEFINE no == FALSE
<1>1. PICK able \in BOOLEAN :
          /\ player' = setAudioOnly(player, vm.audio)
          /\ vm' = IF player.source THEN StateReported(vm, no, able) ELSE vm
  BY DEF audioOnlyChanged
<1>2. no \in BOOLEAN /\ vm.audio \in BOOLEAN
  BY DEF Inv, SessionGood, Session
<1>. HIDE DEF no
<1>3. PlayerGood(player')
  BY <1>1, <1>2, AudioOnlyGood DEF Inv
<1>4. SessionGood(vm')
  BY <1>1, <1>2, StateTold DEF Inv, Told
<1>. QED  BY <1>3, <1>4 DEF Inv

LEMMA TimerGood == Inv /\ PlayTimer => Inv'
<1>. SUFFICES ASSUME Inv, PlayTimer PROVE Inv'
  OBVIOUS
<1> DEFINE p == [player EXCEPT !.wake = FALSE]
           visible == vm.view = "player"
<1>1. PICK queued \in BOOLEAN, able \in BOOLEAN :
          /\ player' = IF p.deferred THEN play(p, visible, queued, queued) ELSE p
          /\ vm' = IF player' = p THEN vm ELSE StateReported(vm, player'.begun, able)
  BY DEF PlayTimer
<1>2. /\ p \in Player /\ p.cover = player.cover /\ p.mode = player.mode /\ p.loading = player.loading
      /\ p.next = player.next /\ p.file = player.file /\ p.events = player.events
  BY DEF Inv, PlayerGood, Player
<1>3. visible \in BOOLEAN
  OBVIOUS
<1>. HIDE DEF p, visible
<1>4. PlayerGood(p)
  BY <1>2, Unheard DEF Inv
<1>5. PlayerGood(player')
  BY <1>1, <1>3, <1>4, PlayGood
<1>6. player'.begun \in BOOLEAN
  BY <1>5 DEF PlayerGood, Player
<1>7. SessionGood(vm')
  BY <1>1, <1>6, StateTold DEF Inv, Told
<1>. QED  BY <1>5, <1>7 DEF Inv

LEMMA NextInv == Inv /\ [Next]_vars => Inv'
<1>. SUFFICES ASSUME Inv, [Next]_vars PROVE Inv'
  OBVIOUS
<1>0. SessionGood(vm) /\ PlayerGood(player) /\ vm \in Session
  BY DEF Inv, SessionGood
<1>1. CASE openLocalMediaItem
  BY <1>0, <1>1, LocalGood DEF openLocalMediaItem
<1>2. CASE playLink
  BY <1>0, <1>2, LinkGood, BecomesGood DEF playLink
<1>3. CASE playIptvChannel
  BY <1>0, <1>3, ChannelGood DEF playIptvChannel
<1>4. CASE playGlobalHistory
  <2> DEFINE v == cancelPendingHistoryReplay(vm)
  <2>1. SessionGood(v)
    BY <1>0, CancelsGood
  <2>2. \/ startLocalVideoPlayback(v)
        \/ Becomes(startLinkPlayback(v), player)
        \/ startIptvChannelPlayback(v)
        \/ startWebDavHistoryPlayback(v)
        \/ replayMediaServerHistory(v)
    BY <1>4 DEF playGlobalHistory
  <2>. HIDE DEF v
  <2>3. CASE replayMediaServerHistory(v)
    <3> DEFINE yes == TRUE
    <3>1. vm' = [v EXCEPT !.late = v.late, !.prepare = v.prepare, !.fetch = yes] /\ player' = player
      BY <2>1, <2>3 DEF replayMediaServerHistory, SessionGood, Session
    <3>2. v.late \in BOOLEAN /\ yes \in BOOLEAN /\ v.prepare \in {"none", "local", "webdav", "history"}
      BY <2>1 DEF SessionGood, Session
    <3>. HIDE DEF yes
    <3>3. SessionGood([v EXCEPT !.late = v.late, !.prepare = v.prepare, !.fetch = yes])
      BY <2>1, <3>2, PrepareGood
    <3>. QED  BY <1>0, <3>1, <3>3 DEF Inv
  <2>. QED  BY <1>0, <2>1, <2>2, <2>3, LocalGood, LinkGood, ChannelGood, FromHistoryGood, BecomesGood
<1>5. CASE openWebDavItem
  BY <1>5, WebDavGood
<1>6. CASE startWebDavAudioPlayback
  BY <1>6, QueueGood
<1>7. CASE Prepared
  BY <1>7, PreparedGood
<1>8. CASE PreparedLate
  <2> DEFINE no == FALSE
  <2>1. vm' = [vm EXCEPT !.late = no, !.prepare = vm.prepare, !.fetch = vm.fetch] /\ player' = player
    BY <1>0, <1>8 DEF PreparedLate, LateAnswered, Session
  <2>2. vm.fetch \in BOOLEAN /\ no \in BOOLEAN /\ vm.prepare \in {"none", "local", "webdav", "history"}
    BY <1>0 DEF Session
  <2>. HIDE DEF no
  <2>3. SessionGood([vm EXCEPT !.late = no, !.prepare = vm.prepare, !.fetch = vm.fetch])
    BY <1>0, <2>2, PrepareGood
  <2>. QED  BY <1>0, <2>1, <2>3 DEF Inv
<1>9. CASE closePlayerToDetails
  BY <1>9, CloseGood
<1>10. CASE PageAnswers
  BY <1>0, <1>10, TurnedGood, TurnsGood DEF PageAnswers
<1>11. CASE Ask
  BY <1>0, <1>11, AskGood DEF Ask, Inv
<1>12. CASE HistoryFetched
  <2> DEFINE no == FALSE
             v == [vm EXCEPT !.fetch = FALSE]
  <2>1. v = [vm EXCEPT !.late = vm.late, !.prepare = vm.prepare, !.fetch = no] /\ player' = player
        /\ vm' \in {v, playSelectedItem(v)}
    BY <1>0, <1>12 DEF HistoryFetched, Session
  <2>2. vm.late \in BOOLEAN /\ no \in BOOLEAN /\ vm.prepare \in {"none", "local", "webdav", "history"}
    BY <1>0 DEF Session
  <2>. HIDE DEF no, v
  <2>3. SessionGood([vm EXCEPT !.late = vm.late, !.prepare = vm.prepare, !.fetch = no])
    BY <1>0, <2>2, PrepareGood
  <2>. QED  BY <1>0, <2>1, <2>3, AskGood DEF Inv
<1>13. CASE PlaybackUrlAnswered
  BY <1>13, AnsweredGood
<1>14. CASE skipWebDavAudioTrack
  BY <1>0, <1>14, TrackGood, BecomesGood DEF skipWebDavAudioTrack, SessionGood
<1>15. CASE minimizeWebDavAudioPlayer
  BY <1>0, <1>15, TurnedGood, TurnsGood DEF minimizeWebDavAudioPlayer
<1>16. CASE restoreWebDavAudioPlayer
  BY <1>0, <1>16, TurnedGood, TurnsGood DEF restoreWebDavAudioPlayer
<1>17. CASE processEvents
  BY <1>17, EventsGood
<1>18. CASE handlePropertyChange
  BY <1>18, ChangeGood
<1>19. CASE audioOnlyChanged
  BY <1>19, FollowsGood
<1>20. CASE PlayTimer
  BY <1>20, TimerGood
<1>21. CASE PlayerStep /\ UNCHANGED vm
  BY <1>0, <1>21, PlayerStepGood DEF Inv
<1>22. CASE UNCHANGED vars
  BY <1>0, <1>22 DEF vars, Inv
<1>. QED  BY <1>1, <1>2, <1>3, <1>4, <1>5, <1>6, <1>7, <1>8, <1>9, <1>10, <1>11, <1>12, <1>13, <1>14, <1>15,
             <1>16, <1>17, <1>18, <1>19, <1>20, <1>21, <1>22 DEF Next

-----------------------------------------------------------------------------
(* Theorems *)

LEMMA InvHolds == Spec => []Inv
BY InitInv, NextInv, PTL DEF Spec

(***************************************************************************)
(* Whoever waits for a cover has a reply or a timer of its own, or knows   *)
(* that there is none, whatever events of libmpv pass meanwhile.           *)
(***************************************************************************)
THEOREM CoverIsSettled == Spec => []CoverSettles
<1>1. Inv => CoverSettles
  BY DEF Inv, PlayerGood, CoverGood, CoverSettles
<1>. QED  BY <1>1, InvHolds, PTL

(***************************************************************************)
(* What is played is served and nothing else is, whatever was opened for a *)
(* playback that another one has replaced.                                 *)
(***************************************************************************)
THEOREM PlaybackIsServed == Spec => []PlayedIsServed
<1>1. Inv => PlayedIsServed
  <2>. SUFFICES ASSUME Inv PROVE PlayedIsServed
    OBVIOUS
  <2>1. Served(vm) /\ vm \in Session
    BY DEF Inv, SessionGood
  <2>. QED  BY <2>1 DEF Served, PlayedIsServed
<1>. QED  BY <1>1, InvHolds, PTL

(***************************************************************************)
(* A playback that has ended leaves nothing behind, and the spinner turns  *)
(* only while libmpv has something to say that takes it away.              *)
(***************************************************************************)
THEOREM PlaybackIsSound == Spec => []PlaybackInv
<1>1. Inv => PlaybackInv
  <2>. SUFFICES ASSUME Inv PROVE PlaybackInv
    OBVIOUS
  <2>1. TypeOK
    BY DEF Inv, PlayerGood, SessionGood, TypeOK
  <2>2. NothingLeft
    BY DEF Inv, SessionGood, Clean, NothingLeft
  <2>3. SpinnerHonest
    BY DEF Inv, PlayerGood, SpinnerGood, EndsAfter, Enders, SpinnerHonest
  <2>. QED  BY <2>1, <2>2, <2>3 DEF PlaybackInv
<1>. QED  BY <1>1, InvHolds, PTL

-----------------------------------------------------------------------------
(* The server *)

SessionsTyped ==
    /\ remote \in 0..MaxChanges
    /\ session \in [Sess -> {"none", "index", "manifest", "live", "gone"}]
    /\ kind \in [Sess -> Kinds] /\ told \subseteq Sess
    /\ etag \in [Sess -> 0..NoRevision] /\ package \in [Sess -> 0..NoRevision]

SocketsTyped ==
    /\ conn \in [Sockets -> {"none", "header", "request", "writing", "closed"}]
    /\ job \in [Sockets -> {"none", "fetch", "decrypt"}]
    /\ owner \in [Sockets -> Sess] /\ what \in [Sockets -> Whats \cup {"nothing"}]
    /\ got \in [Sockets -> 0..NoRevision] /\ body \in [Sockets -> 0..NoRevision]
    /\ answers \in [Sockets -> Nat] /\ plain \subseteq Sockets

\* One connection: nothing was answered before its request was read; it is
\* served for a live session only, with the package of that session; decrypted
\* bytes are kept while they are written; and what it could not be given was told.
ServedWell(c) ==
    /\ conn[c] \in {"none", "header"} => job[c] = "none" /\ what[c] = "nothing"
    /\ conn[c] \in {"none", "header", "request"} => answers[c] = 0 /\ body[c] = NoRevision
    /\ conn[c] = "writing" => job[c] = "none" /\ body[c] # NoRevision
    /\ answers[c] <= 1
    /\ body[c] # NoRevision => body[c] = package[owner[c]]
    /\ body[c] # NoRevision \/ what[c] # "nothing" => session[owner[c]] \in {"live", "gone"}
    /\ conn[c] \in {"request", "writing"} => Live(owner[c])
    /\ c \in plain => conn[c] = "writing"
    /\ conn[c] = "closed" /\ answers[c] > 0 /\ body[c] = NoRevision /\ what[c] # "nothing"
         /\ Live(owner[c]) => owner[c] \in told

\* A live session has the keys of a package.
Keyed == \A s \in Sess : Live(s) => package[s] # NoRevision

ServerInv == SessionsTyped /\ SocketsTyped /\ Keyed /\ \A c \in Sockets : ServedWell(c)

LEMMA RevisionFacts ==
    /\ NoRevision \in Nat /\ NoRevision > 0 /\ MaxChanges \in Nat
    /\ 0..MaxChanges \subseteq 0..NoRevision /\ NoRevision \in 0..NoRevision
BY ProxyAssumption DEF NoRevision

LEMMA FetchedRevision ==
    ASSUME SessionsTyped, NEW s \in Sess
    PROVE  fetchSessionBytes(s) \subseteq 0..NoRevision
BY RevisionFacts
   DEF SessionsTyped, fetchSessionBytes, fetchRemoteRange, fetchRemoteBytes, readBoundedLocalFile, Kinds

\* A step of one connection.
LEMMA OneConnection ==
    ASSUME ServerInv, NEW c \in Sockets,
           UNCHANGED <<remote, session, kind, etag, package, owner>>,
           told \subseteq told', told' \subseteq Sess,
           SocketsTyped',
           \A d \in Sockets \ {c} : /\ UNCHANGED <<conn[d], job[d], what[d], answers[d], body[d]>>
                                    /\ d \in plain' => d \in plain,
           ServedWell(c)'
    PROVE  ServerInv'
<1>1. SessionsTyped' /\ Keyed'
  BY DEF ServerInv, SessionsTyped, Keyed, Live
<1>2. ASSUME NEW d \in Sockets \ {c} PROVE ServedWell(d)'
  BY <1>2 DEF ServerInv, ServedWell, Live
<1> QED
  BY <1>1, <1>2 DEF ServerInv

\* A step that tells nothing and keeps nothing more, of one session.
LEMMA OneSession ==
    ASSUME ServerInv, NEW s \in Sess, SessionsTyped', Keyed',
           UNCHANGED <<told, sockets>>,
           \A r \in Sess \ {s} : UNCHANGED <<session[r], package[r]>>,
           session[s] \notin {"live", "gone"}
    PROVE  ServerInv'
<1>1. SocketsTyped'
  BY DEF ServerInv, SocketsTyped, sockets
<1>2. ASSUME NEW c \in Sockets PROVE ServedWell(c)'
  <2>1. ServedWell(c) /\ UNCHANGED <<conn[c], job[c], what[c], answers[c], body[c], owner[c], plain, told>>
    BY DEF ServerInv, sockets
  <2>2. CASE owner[c] = s
    BY <2>1, <2>2 DEF ServedWell, Live
  <2>3. CASE owner[c] # s
    <3>1. owner[c] \in Sess
      BY DEF ServerInv, SocketsTyped
    <3> QED
      BY <2>1, <2>3, <3>1 DEF ServedWell, Live
  <2> QED
    BY <2>2, <2>3
<1> QED
  BY <1>1, <1>2 DEF ServerInv

LEMMA PrepareStreamStep ==
    ASSUME ServerInv, NEW s \in Sess, PrepareStream(s)
    PROVE  ServerInv'
<1>1. session[s] = "none" /\ UNCHANGED <<told, sockets, package>>
  BY DEF PrepareStream
<1>2. SessionsTyped' /\ \A r \in Sess : /\ r # s => session'[r] = session[r]
                                        /\ session'[s] # "live"
  BY DEF PrepareStream, ServerInv, SessionsTyped
<1>3. Keyed'
  BY <1>1, <1>2 DEF ServerInv, Keyed, Live
<1> QED
  BY <1>1, <1>2, <1>3, OneSession

LEMMA IndexReadStep ==
    ASSUME ServerInv, NEW s \in Sess, IndexRead(s)
    PROVE  ServerInv'
<1>1. session[s] = "index" /\ UNCHANGED <<told, sockets, package>>
  BY DEF IndexRead
<1>2. SessionsTyped' /\ \A r \in Sess : /\ r # s => session'[r] = session[r]
                                        /\ session'[s] # "live"
  BY RevisionFacts DEF IndexRead, ServerInv, SessionsTyped
<1>3. Keyed'
  BY <1>1, <1>2 DEF ServerInv, Keyed, Live
<1> QED
  BY <1>1, <1>2, <1>3, OneSession

LEMMA ManifestReadStep ==
    ASSUME ServerInv, NEW s \in Sess, ManifestRead(s)
    PROVE  ServerInv'
<1>1. session[s] = "manifest" /\ UNCHANGED <<told, sockets, remote, kind, etag>>
  BY DEF ManifestRead
<1>2. PICK manifest \in fetchSessionBytes(s) : \E revision \in resolvePackageBytes(manifest) :
        IF revision # NoRevision THEN FinishPreparingStream(s, revision)
        ELSE session' = [session EXCEPT ![s] = "gone"] /\ UNCHANGED package
  BY DEF ManifestRead
<1>3. PICK revision \in resolvePackageBytes(manifest) :
        IF revision # NoRevision THEN FinishPreparingStream(s, revision)
        ELSE session' = [session EXCEPT ![s] = "gone"] /\ UNCHANGED package
  BY <1>2
<1>4. revision \in 0..NoRevision
  <2>1. manifest \in 0..NoRevision
    BY FetchedRevision DEF ServerInv
  <2> QED
    BY <1>3, <2>1, RevisionFacts DEF resolvePackageBytes, packageForRootDigest
<1>5. session \in [Sess -> {"none", "index", "manifest", "live", "gone"}] /\ package \in [Sess -> 0..NoRevision]
  BY DEF ServerInv, SessionsTyped
<1>6. /\ session' \in [Sess -> {"none", "index", "manifest", "live", "gone"}]
      /\ package' \in [Sess -> 0..NoRevision]
      /\ \A r \in Sess \ {s} : session'[r] = session[r] /\ package'[r] = package[r]
      /\ session'[s] = "live" => package'[s] # NoRevision
  <2>1. CASE revision # NoRevision
    <3>1. /\ package' = [package EXCEPT ![s] = revision]
          /\ \E how \in {"live", "gone"} : session' = [session EXCEPT ![s] = how]
      BY <1>3, <2>1 DEF FinishPreparingStream
    <3> QED
      BY <1>4, <1>5, <2>1, <3>1
  <2>2. CASE revision = NoRevision
    BY <1>3, <1>5, <2>2
  <2> QED
    BY <2>1, <2>2
<1>7. SessionsTyped' /\ Keyed'
  <2>1. SessionsTyped'
    BY <1>1, <1>6 DEF ServerInv, SessionsTyped
  <2>2. Keyed'
    BY <1>6 DEF ServerInv, Keyed, Live
  <2> QED
    BY <2>1, <2>2
<1> QED
  BY <1>1, <1>6, <1>7, OneSession

\* revoke: every connection that is served for the session goes with it.
LEMMA RevokeStep ==
    ASSUME ServerInv, NEW s \in Sess, Revoke(s)
    PROVE  ServerInv'
<1>1. /\ session[s] = "live" /\ session' = [session EXCEPT ![s] = "gone"]
      /\ UNCHANGED <<remote, kind, etag, package, told, owner, what, got, answers, body>>
  BY DEF Revoke, Live
<1>2. \A c \in Sockets : c \in AbortedBy(s) <=> owner[c] = s /\ conn[c] \in {"request", "writing"}
  BY DEF AbortedBy, Connected
<1>3. /\ conn' = [c \in Sockets |-> IF c \in AbortedBy(s) THEN "closed" ELSE conn[c]]
      /\ job' = [c \in Sockets |-> IF c \in AbortedBy(s) THEN JobAfterAbort(c) ELSE job[c]]
      /\ plain' = {c \in plain : c \notin AbortedBy(s) \/ job[c] = "decrypt"}
  BY DEF Revoke, CloseAll
<1>4. \A c \in Sockets : JobAfterAbort(c) \in {"none", "fetch", "decrypt"}
  BY DEF JobAfterAbort, ServerInv, SocketsTyped
<1>5. SessionsTyped' /\ SocketsTyped'
  <2>1. SessionsTyped'
    BY <1>1 DEF ServerInv, SessionsTyped
  <2>2. conn' \in [Sockets -> {"none", "header", "request", "writing", "closed"}]
    BY <1>3 DEF ServerInv, SocketsTyped
  <2>3. job' \in [Sockets -> {"none", "fetch", "decrypt"}]
    BY <1>3, <1>4 DEF ServerInv, SocketsTyped
  <2> QED
    BY <1>1, <1>3, <2>1, <2>2, <2>3 DEF ServerInv, SocketsTyped
<1>6. Keyed'
  BY <1>1 DEF ServerInv, Keyed, Live, SessionsTyped
<1>7. ASSUME NEW c \in Sockets PROVE ServedWell(c)'
  <2>1. ServedWell(c) /\ owner[c] \in Sess /\ UNCHANGED <<owner[c], what[c], answers[c], body[c], package, told>>
    BY <1>1 DEF ServerInv, SocketsTyped
  <2>2. CASE c \in AbortedBy(s)
    <3>1. conn'[c] = "closed" /\ owner[c] = s /\ session'[owner[c]] = "gone"
      BY <1>1, <1>2, <1>3, <2>1, <2>2 DEF ServerInv, SessionsTyped
    <3>2. c \notin plain'
      BY <1>3, <2>1, <2>2 DEF ServedWell
    <3> QED
      BY <2>1, <3>1, <3>2 DEF ServedWell, Live
  <2>3. CASE c \notin AbortedBy(s)
    <3>1. conn'[c] = conn[c] /\ job'[c] = job[c] /\ (c \in plain' => c \in plain)
      BY <1>3, <2>3
    <3>2. /\ session'[owner[c]] = IF owner[c] = s THEN "gone" ELSE session[owner[c]]
          /\ conn[c] \in {"request", "writing"} => owner[c] # s
      BY <1>1, <1>2, <2>1, <2>3 DEF ServerInv, SessionsTyped
    <3> QED
      BY <2>1, <3>1, <3>2 DEF ServedWell, Live
  <2> QED
    BY <2>2, <2>3
<1> QED
  BY <1>5, <1>6, <1>7 DEF ServerInv

\* Nobody is connected yet; a client connects; the deadline or a bad header
\* ends it before its request is known.
LEMMA HeaderStep ==
    ASSUME ServerInv, NEW c \in Sockets, Connect(c) \/ Deadline(c) \/ BadRequest(c)
    PROVE  ServerInv'
<1>1. /\ UNCHANGED <<remote, session, kind, etag, package, owner, told, what, got, body, plain>>
      /\ conn[c] \in {"none", "header"}
  BY DEF Connect, Deadline, HeaderMissing, BadRequest, sessions
<1>2. /\ conn \in [Sockets -> {"none", "header", "request", "writing", "closed"}]
      /\ job \in [Sockets -> {"none", "fetch", "decrypt"}] /\ answers \in [Sockets -> Nat]
      /\ ServedWell(c)
  BY DEF ServerInv, SocketsTyped
<1>3. \/ conn' = [conn EXCEPT ![c] = "header"] /\ UNCHANGED <<job, answers>> /\ conn[c] = "none"
      \/ /\ conn' = [conn EXCEPT ![c] = "closed"]
         /\ answers' = [answers EXCEPT ![c] = @ + 1]
         /\ job' = [job EXCEPT ![c] = "none"] \/ job' = job
  BY <1>2 DEF Connect, Deadline, HeaderMissing, BadRequest, WriteError, Respond
<1>4. SocketsTyped'
  <2>1. conn' \in [Sockets -> {"none", "header", "request", "writing", "closed"}]
    BY <1>2, <1>3
  <2>2. job' \in [Sockets -> {"none", "fetch", "decrypt"}] /\ answers' \in [Sockets -> Nat]
    BY <1>2, <1>3
  <2> QED
    BY <1>1, <2>1, <2>2 DEF ServerInv, SocketsTyped
<1>5. \A d \in Sockets \ {c} : UNCHANGED <<conn[d], job[d], answers[d]>>
  BY <1>2, <1>3
<1>6. conn'[c] \in {"header", "closed"} /\ job'[c] = "none"
      /\ answers'[c] \in {0, 1} /\ (conn'[c] = "header" => answers'[c] = 0)
  BY <1>1, <1>2, <1>3 DEF ServedWell
<1>7. ServedWell(c)'
  BY <1>1, <1>2, <1>6 DEF ServedWell, Live
<1> QED
  BY <1>1, <1>4, <1>5, <1>7, OneConnection DEF ServerInv, SessionsTyped

\* The connection of a request that is read is answered with an error.
LEMMA WriteErrorServed ==
    ASSUME ServerInv, NEW c \in Sockets, conn[c] \in {"header", "request"}, WriteError(c),
           UNCHANGED <<session, package, owner, body, plain>>,
           what' \in [Sockets -> Whats \cup {"nothing"}],
           told' = told \cup {owner[c]}, Live(owner[c])
    PROVE  /\ conn' \in [Sockets -> {"none", "header", "request", "writing", "closed"}]
           /\ job' \in [Sockets -> {"none", "fetch", "decrypt"}] /\ answers' \in [Sockets -> Nat]
           /\ \A d \in Sockets \ {c} : UNCHANGED <<conn[d], job[d], answers[d]>>
           /\ ServedWell(c)'
<1>1. /\ conn \in [Sockets -> {"none", "header", "request", "writing", "closed"}]
      /\ job \in [Sockets -> {"none", "fetch", "decrypt"}] /\ answers \in [Sockets -> Nat]
      /\ ServedWell(c)
  BY DEF ServerInv, SocketsTyped
<1>2. /\ conn' = [conn EXCEPT ![c] = "closed"]
      /\ answers' = [answers EXCEPT ![c] = @ + 1]
      /\ job' = [job EXCEPT ![c] = "none"]
  BY DEF WriteError, Respond
<1>3. conn'[c] = "closed" /\ job'[c] = "none" /\ answers'[c] = 1
  BY <1>1, <1>2 DEF ServedWell
<1>4. ServedWell(c)'
  BY <1>1, <1>3 DEF ServedWell, Live
<1> QED
  BY <1>1, <1>2, <1>4

\* Or with contents of the session's package.
LEMMA WriteBytesServed ==
    ASSUME ServerInv, NEW c \in Sockets, conn[c] \in {"header", "request"},
           NEW sensitive \in BOOLEAN, WriteVerifiedBytes(c, package[owner[c]], sensitive),
           UNCHANGED <<session, package, owner, what, told>>, Live(owner[c])
    PROVE  /\ conn' \in [Sockets -> {"none", "header", "request", "writing", "closed"}]
           /\ job' \in [Sockets -> {"none", "fetch", "decrypt"}] /\ answers' \in [Sockets -> Nat]
           /\ body' \in [Sockets -> 0..NoRevision] /\ plain' \subseteq Sockets
           /\ \A d \in Sockets \ {c} : /\ UNCHANGED <<conn[d], job[d], answers[d], body[d]>>
                                       /\ d \in plain' => d \in plain
           /\ ServedWell(c)'
<1>1. /\ conn \in [Sockets -> {"none", "header", "request", "writing", "closed"}]
      /\ job \in [Sockets -> {"none", "fetch", "decrypt"}] /\ answers \in [Sockets -> Nat]
      /\ body \in [Sockets -> 0..NoRevision] /\ plain \subseteq Sockets
      /\ owner[c] \in Sess /\ package[owner[c]] \in 0..NoRevision
      /\ package[owner[c]] # NoRevision
      /\ ServedWell(c)
  BY DEF ServerInv, SocketsTyped, SessionsTyped, Keyed
<1>2. /\ answers' = [answers EXCEPT ![c] = @ + 1]
      /\ job' = [job EXCEPT ![c] = "none"]
      /\ body' = [body EXCEPT ![c] = package[owner[c]]]
      /\ \/ /\ conn' = [conn EXCEPT ![c] = "writing"]
            /\ plain' = IF sensitive THEN plain \cup {c} ELSE plain
         \/ conn' = [conn EXCEPT ![c] = "closed"] /\ plain' = plain \ {c}
  BY DEF WriteVerifiedBytes, Respond
<1>3. /\ conn'[c] \in {"writing", "closed"} /\ job'[c] = "none" /\ answers'[c] = 1
      /\ body'[c] = package[owner[c]]
      /\ c \in plain' => conn'[c] = "writing"
  BY <1>1, <1>2 DEF ServedWell
<1>4. ServedWell(c)'
  BY <1>1, <1>3 DEF ServedWell, Live
<1>5. /\ conn' \in [Sockets -> {"none", "header", "request", "writing", "closed"}]
      /\ plain' \subseteq Sockets
      /\ \A d \in Sockets \ {c} : conn'[d] = conn[d] /\ (d \in plain' => d \in plain)
  BY <1>1, <1>2
<1>6. /\ job' \in [Sockets -> {"none", "fetch", "decrypt"}] /\ answers' \in [Sockets -> Nat]
      /\ body' \in [Sockets -> 0..NoRevision]
      /\ \A d \in Sockets \ {c} : UNCHANGED <<job[d], answers[d], body[d]>>
  BY <1>1, <1>2
<1> QED
  BY <1>4, <1>5, <1>6

LEMMA HandleRequestStep ==
    ASSUME ServerInv, NEW c \in Sockets, NEW s \in Sess, HandleRequest(c, s)
    PROVE  ServerInv'
<1>1. /\ conn[c] = "header" /\ Live(owner[c]) /\ owner[c] = s
      /\ UNCHANGED <<remote, session, kind, etag, package, owner, got>>
  BY DEF HandleRequest
<1>2. /\ conn \in [Sockets -> {"none", "header", "request", "writing", "closed"}]
      /\ job \in [Sockets -> {"none", "fetch", "decrypt"}]
      /\ what \in [Sockets -> Whats \cup {"nothing"}]
      /\ ServedWell(c) /\ told \subseteq Sess
  BY DEF ServerInv, SocketsTyped, SessionsTyped
<1>3. CASE WriteVerifiedBytes(c, package[s], FALSE) /\ UNCHANGED <<told, what>>
  <2>1. PICK sensitive \in BOOLEAN : WriteVerifiedBytes(c, package[owner[c]], sensitive)
    BY <1>1, <1>3
  <2>2. /\ conn' \in [Sockets -> {"none", "header", "request", "writing", "closed"}]
        /\ job' \in [Sockets -> {"none", "fetch", "decrypt"}] /\ answers' \in [Sockets -> Nat]
        /\ body' \in [Sockets -> 0..NoRevision] /\ plain' \subseteq Sockets
        /\ \A d \in Sockets \ {c} : /\ UNCHANGED <<conn[d], job[d], answers[d], body[d]>>
                                    /\ d \in plain' => d \in plain
        /\ ServedWell(c)'
    BY <1>1, <1>3, <2>1, WriteBytesServed
  <2>3. SocketsTyped'
    BY <1>1, <1>3, <2>2 DEF ServerInv, SocketsTyped
  <2> QED
    BY <1>1, <1>2, <1>3, <2>2, <2>3, OneConnection
<1>4. CASE /\ Refused(c) /\ what' = [what EXCEPT ![c] = "absent"] /\ UNCHANGED <<body, plain>>
  <2>1. what' \in [Sockets -> Whats \cup {"nothing"}] /\ \A d \in Sockets \ {c} : what'[d] = what[d]
    BY <1>2, <1>4 DEF Whats
  <2>2. told' = told \cup {owner[c]} /\ WriteError(c)
    BY <1>4 DEF Refused
  <2>3. /\ conn' \in [Sockets -> {"none", "header", "request", "writing", "closed"}]
        /\ job' \in [Sockets -> {"none", "fetch", "decrypt"}] /\ answers' \in [Sockets -> Nat]
        /\ \A d \in Sockets \ {c} : UNCHANGED <<conn[d], job[d], answers[d]>>
        /\ ServedWell(c)'
    BY <1>1, <1>4, <2>1, <2>2, WriteErrorServed
  <2>4. SocketsTyped'
    BY <1>1, <1>4, <2>1, <2>3 DEF ServerInv, SocketsTyped
  <2> QED
    BY <1>1, <1>2, <1>4, <2>1, <2>2, <2>3, <2>4, OneConnection
<1>5. CASE /\ conn' = [conn EXCEPT ![c] = "request"] /\ job' = [job EXCEPT ![c] = "fetch"]
           /\ \E w \in Whats \ {"absent"} : what' = [what EXCEPT ![c] = w]
           /\ UNCHANGED <<told, answers, body, plain>>
  <2>1. /\ conn' \in [Sockets -> {"none", "header", "request", "writing", "closed"}]
        /\ job' \in [Sockets -> {"none", "fetch", "decrypt"}]
        /\ what' \in [Sockets -> Whats \cup {"nothing"}]
        /\ \A d \in Sockets \ {c} : UNCHANGED <<conn[d], job[d], what[d]>>
        /\ conn'[c] = "request" /\ job'[c] = "fetch"
    BY <1>2, <1>5
  <2>2. SocketsTyped'
    BY <1>1, <1>5, <2>1 DEF ServerInv, SocketsTyped
  <2>3. ServedWell(c)'
    BY <1>1, <1>2, <1>5, <2>1 DEF ServedWell, Live
  <2> QED
    BY <1>1, <1>2, <1>5, <2>1, <2>2, <2>3, OneConnection
<1> QED
  BY <1>3, <1>4, <1>5 DEF HandleRequest

\* What the callbacks of serveManifest, serveSegment and serveResource end in.
LEMMA RefusedStep ==
    ASSUME ServerInv, NEW c \in Sockets, StillWanted(c), Refused(c),
           UNCHANGED <<remote, session, kind, etag, package, owner, what, got, body, plain>>
    PROVE  ServerInv'
<1>1. conn[c] = "request" /\ Live(owner[c]) /\ owner[c] \in Sess
  BY DEF StillWanted, ServerInv, SocketsTyped
<1>2. told' = told \cup {owner[c]} /\ WriteError(c) /\ told \subseteq Sess
  BY DEF Refused, ServerInv, SessionsTyped
<1>3. /\ conn' \in [Sockets -> {"none", "header", "request", "writing", "closed"}]
      /\ job' \in [Sockets -> {"none", "fetch", "decrypt"}] /\ answers' \in [Sockets -> Nat]
      /\ \A d \in Sockets \ {c} : UNCHANGED <<conn[d], job[d], answers[d]>>
      /\ ServedWell(c)'
  <2>1. what' \in [Sockets -> Whats \cup {"nothing"}]
    BY DEF ServerInv, SocketsTyped
  <2> QED
    BY <1>1, <1>2, <2>1, WriteErrorServed
<1>4. SocketsTyped'
  BY <1>3 DEF ServerInv, SocketsTyped
<1> QED
  BY <1>1, <1>2, <1>3, <1>4, OneConnection

LEMMA AnsweredStep ==
    ASSUME ServerInv, NEW c \in Sockets, StillWanted(c), NEW sensitive \in BOOLEAN,
           WriteVerifiedBytes(c, package[owner[c]], sensitive),
           UNCHANGED <<remote, session, kind, etag, package, owner, what, got, told>>
    PROVE  ServerInv'
<1>1. conn[c] = "request" /\ Live(owner[c])
  BY DEF StillWanted
<1>2. /\ conn' \in [Sockets -> {"none", "header", "request", "writing", "closed"}]
      /\ job' \in [Sockets -> {"none", "fetch", "decrypt"}] /\ answers' \in [Sockets -> Nat]
      /\ body' \in [Sockets -> 0..NoRevision] /\ plain' \subseteq Sockets
      /\ \A d \in Sockets \ {c} : /\ UNCHANGED <<conn[d], job[d], answers[d], body[d]>>
                                  /\ d \in plain' => d \in plain
      /\ ServedWell(c)'
  BY <1>1, WriteBytesServed
<1>3. SocketsTyped'
  BY <1>2 DEF ServerInv, SocketsTyped
<1>4. told' \subseteq Sess
  BY DEF ServerInv, SessionsTyped
<1> QED
  BY <1>2, <1>3, <1>4, OneConnection

\* Nobody waits for the job's result any more, or it only goes on.
LEMMA JobStep ==
    ASSUME ServerInv, NEW c \in Sockets, conn[c] \in {"request", "closed"},
           NEW j \in {"none", "fetch", "decrypt"},
           job' = [job EXCEPT ![c] = j], got' \in [Sockets -> 0..NoRevision],
           plain' = plain \/ plain' = plain \ {c},
           UNCHANGED <<remote, session, kind, etag, package, owner, what, told, conn, answers, body>>
    PROVE  ServerInv'
<1>1. job \in [Sockets -> {"none", "fetch", "decrypt"}] /\ ServedWell(c) /\ told' \subseteq Sess
  BY DEF ServerInv, SocketsTyped, SessionsTyped
<1>2. SocketsTyped'
  BY <1>1 DEF ServerInv, SocketsTyped
<1>3. ServedWell(c)'
  BY <1>1 DEF ServedWell, Live
<1>4. \A d \in Sockets \ {c} : job'[d] = job[d]
  BY <1>1
<1> QED
  BY <1>1, <1>2, <1>3, <1>4, OneConnection

\* A job belongs to a connection whose request was read.
LEMMA JobOf ==
    ASSUME ServerInv, NEW c \in Sockets, job[c] # "none"
    PROVE  conn[c] \in {"request", "closed"}
BY DEF ServerInv, SocketsTyped, ServedWell

LEMMA PartFetchedStep ==
    ASSUME ServerInv, NEW c \in Sockets, NEW acceptable, PartFetched(c, acceptable)
    PROVE  ServerInv'
<1>1. /\ job[c] = "fetch"
      /\ UNCHANGED <<remote, session, kind, etag, package, owner, what, got>>
  BY DEF PartFetched
<1>2. CASE ~StillWanted(c)
  <2>1. job' = [job EXCEPT ![c] = "none"] /\ UNCHANGED <<told, conn, answers, body, plain>>
    BY <1>2 DEF PartFetched
  <2>2. conn[c] \in {"request", "closed"}
    BY <1>1, JobOf
  <2>3. got' \in [Sockets -> 0..NoRevision]
    BY <1>1 DEF ServerInv, SocketsTyped
  <2> QED
    BY <1>1, <2>1, <2>2, <2>3, JobStep
<1>3. CASE StillWanted(c)
  <2>1. PICK revision \in fetchSessionBytes(owner[c]), ok \in acceptable :
           IF ok /\ Verified(c, revision)
           THEN WriteVerifiedBytes(c, revision, FALSE) /\ UNCHANGED told
           ELSE Refused(c) /\ UNCHANGED <<body, plain>>
    BY <1>3 DEF PartFetched
  <2>2. CASE ok /\ Verified(c, revision)
    <3>1. PICK sensitive \in BOOLEAN : WriteVerifiedBytes(c, package[owner[c]], sensitive)
      BY <2>1, <2>2 DEF Verified
    <3> QED
      BY <1>1, <1>3, <2>1, <2>2, <3>1, AnsweredStep
  <2>3. CASE ~(ok /\ Verified(c, revision))
    BY <1>1, <1>3, <2>1, <2>3, RefusedStep
  <2> QED
    BY <2>2, <2>3
<1> QED
  BY <1>2, <1>3

LEMMA SegmentFetchedStep ==
    ASSUME ServerInv, NEW c \in Sockets, SegmentFetched(c)
    PROVE  ServerInv'
<1>1. /\ job[c] = "fetch"
      /\ UNCHANGED <<remote, session, kind, etag, package, owner, what, body, plain>>
  BY DEF SegmentFetched
<1>2. conn[c] \in {"request", "closed"} /\ owner[c] \in Sess /\ got \in [Sockets -> 0..NoRevision]
  BY <1>1, JobOf DEF ServerInv, SocketsTyped
<1>3. CASE ~StillWanted(c)
  <2>1. job' = [job EXCEPT ![c] = "none"] /\ UNCHANGED <<told, conn, answers, got>>
    BY <1>3 DEF SegmentFetched
  <2> QED
    BY <1>1, <1>2, <2>1, JobStep
<1>4. CASE StillWanted(c)
  <2>1. PICK revision \in fetchSessionBytes(owner[c]) :
           IF revision # NoRevision
           THEN /\ job' = [job EXCEPT ![c] = "decrypt"]
                /\ got' = [got EXCEPT ![c] = revision]
                /\ UNCHANGED <<told, conn, answers>>
           ELSE Refused(c) /\ UNCHANGED got
    BY <1>4 DEF SegmentFetched
  <2>2. CASE revision # NoRevision
    <3>1. revision \in 0..NoRevision
      BY <1>2, FetchedRevision DEF ServerInv
    <3>2. got' \in [Sockets -> 0..NoRevision]
      BY <1>2, <2>1, <2>2, <3>1
    <3> QED
      BY <1>1, <1>2, <2>1, <2>2, <3>2, JobStep
  <2>3. CASE revision = NoRevision
    BY <1>1, <1>4, <2>1, <2>3, RefusedStep
  <2> QED
    BY <2>2, <2>3
<1> QED
  BY <1>3, <1>4

\* The worker comes back, to a client that waits or to none.
LEMMA DecryptedStep ==
    ASSUME ServerInv, NEW c \in Sockets, Decrypted(c)
    PROVE  ServerInv'
<1>1. /\ job[c] = "decrypt"
      /\ UNCHANGED <<remote, session, kind, etag, package, owner, what, got>>
  BY DEF Decrypted
<1>2. PICK ok \in decryptTsSegment(c) :
        IF StillWanted(c)
        THEN IF ok THEN WriteVerifiedBytes(c, got[c], TRUE) /\ UNCHANGED told
             ELSE Refused(c) /\ UNCHANGED <<body, plain>>
        ELSE /\ job' = [job EXCEPT ![c] = "none"] /\ Wiped(c)
             /\ UNCHANGED <<told, conn, answers, body>>
  BY DEF Decrypted
<1>3. CASE ~StillWanted(c)
  <2>1. conn[c] \in {"request", "closed"} /\ got' \in [Sockets -> 0..NoRevision]
    BY <1>1, JobOf DEF ServerInv, SocketsTyped
  <2>2. plain' = plain \ {c}
    BY <1>2, <1>3 DEF Wiped
  <2> QED
    BY <1>1, <1>2, <1>3, <2>1, <2>2, JobStep
<1>4. CASE StillWanted(c) /\ ok
  <2>1. got[c] = package[owner[c]]
    BY <1>4 DEF decryptTsSegment, Verified
  <2>2. PICK sensitive \in BOOLEAN : WriteVerifiedBytes(c, package[owner[c]], sensitive)
    BY <1>2, <1>4, <2>1
  <2> QED
    BY <1>1, <1>2, <1>4, <2>2, AnsweredStep
<1>5. CASE StillWanted(c) /\ ~ok
  BY <1>1, <1>2, <1>5, RefusedStep
<1> QED
  BY <1>3, <1>4, <1>5

\* The last chunk is written, or the client goes away.
LEMMA ClosingStep ==
    ASSUME ServerInv, NEW c \in Sockets, Written(c) \/ Disconnect(c)
    PROVE  ServerInv'
<1>1. /\ UNCHANGED <<remote, session, kind, etag, package, owner, what, got, answers, body>>
      /\ conn[c] \in {"header", "request", "writing"} /\ conn'[c] = "closed"
      /\ \A d \in Sockets \ {c} : UNCHANGED <<conn[d], job[d]>>
      /\ conn' \in [Sockets -> {"none", "header", "request", "writing", "closed"}]
      /\ plain' \subseteq plain
  BY DEF Written, Disconnect, Connected, CloseAll, sessions, ServerInv, SocketsTyped
<1>2. told' = told \/ told' = told \cup {owner[c]}
  BY DEF Written, Disconnect, sessions
<1>3. told' \subseteq Sess /\ told \subseteq told'
  BY <1>2 DEF ServerInv, SessionsTyped, SocketsTyped
<1>4. job' \in [Sockets -> {"none", "fetch", "decrypt"}]
  BY DEF Written, Disconnect, CloseAll, JobAfterAbort, ServerInv, SocketsTyped
<1>5. c \notin plain'
  BY DEF Written, Disconnect, CloseAll, ServerInv, ServedWell
<1>6. SocketsTyped'
  BY <1>1, <1>4 DEF ServerInv, SocketsTyped
<1>7. ServedWell(c)'
  BY <1>1, <1>3, <1>5 DEF ServerInv, ServedWell, Live, SocketsTyped
<1> QED
  BY <1>1, <1>3, <1>6, <1>7, OneConnection

\* Nothing of the server changes but what can be read from afar.
LEMMA ElsewhereStep ==
    ASSUME ServerInv, remote' \in 0..MaxChanges,
           UNCHANGED <<session, kind, etag, package, told, sockets>>
    PROVE  ServerInv'
<1>1. SessionsTyped' /\ SocketsTyped' /\ Keyed'
  BY DEF ServerInv, SessionsTyped, SocketsTyped, sockets, Keyed, Live
<1>2. ASSUME NEW c \in Sockets PROVE ServedWell(c)'
  BY <1>2 DEF ServerInv, sockets, ServedWell, Live
<1> QED
  BY <1>1, <1>2 DEF ServerInv

LEMMA ServerInductive ==
    ASSUME ServerInv, [ProxyNext]_proxyVars
    PROVE  ServerInv'
<1>1. remote \in 0..MaxChanges
  BY DEF ServerInv, SessionsTyped
<1>2. CASE UNCHANGED <<sessions, sockets>>
  BY <1>1, <1>2, ElsewhereStep DEF sessions
<1>3. CASE Replaced
  <2>1. remote' \in 0..MaxChanges
    BY <1>1, <1>3, RevisionFacts DEF Replaced
  <2> QED
    BY <1>3, <2>1, ElsewhereStep DEF Replaced
<1>4. ASSUME NEW s \in Sess, PrepareStream(s) \/ IndexRead(s) \/ ManifestRead(s) \/ Revoke(s)
      PROVE  ServerInv'
  BY <1>4, PrepareStreamStep, IndexReadStep, ManifestReadStep, RevokeStep
<1>5. ASSUME NEW c \in Sockets, Connect(c) \/ Deadline(c) \/ BadRequest(c) \/ Written(c) \/ Disconnect(c)
      PROVE  ServerInv'
  BY <1>5, HeaderStep, ClosingStep
<1>6. ASSUME NEW c \in Sockets, ManifestFetched(c) \/ ResourceFetched(c)
      PROVE  ServerInv'
  BY <1>6, PartFetchedStep DEF ManifestFetched, ResourceFetched
<1>7. ASSUME NEW c \in Sockets, SegmentFetched(c) \/ Decrypted(c) \/ \E s \in Sess : HandleRequest(c, s)
      PROVE  ServerInv'
  BY <1>7, SegmentFetchedStep, DecryptedStep, HandleRequestStep
<1>8. ASSUME NEW p \in Previews, (\E u \in Urls : ResolveIdentifierPreview(p, u)) \/ HitDelivered(p)
                                   \/ PreviewEnds(p) \/ PreviewRetried(p)
      PROVE  ServerInv'
  BY <1>2, <1>8 DEF ResolveIdentifierPreview, HitDelivered, PreviewEnds, PreviewRetried
<1>9. ASSUME NEW u \in Urls, Expires(u) PROVE ServerInv'
  BY <1>2, <1>9 DEF Expires
<1>10. CASE UNCHANGED proxyVars
  BY <1>2, <1>10 DEF proxyVars
<1> QED
  BY <1>3, <1>4, <1>5, <1>6, <1>7, <1>8, <1>9, <1>10 DEF ProxyNext

LEMMA ServerStarts == ProxyInit => ServerInv
<1> SUFFICES ASSUME ProxyInit PROVE ServerInv
  OBVIOUS
<1>1. SessionsTyped
  BY RevisionFacts DEF ProxyInit, SessionsTyped, Kinds
<1>2. SocketsTyped
  BY RevisionFacts DEF ProxyInit, SocketsTyped
<1>3. Keyed /\ \A c \in Sockets : ServedWell(c)
  BY <1>1, <1>2 DEF ProxyInit, Keyed, ServedWell, Live, SocketsTyped
<1> QED
  BY <1>1, <1>2, <1>3 DEF ServerInv

-----------------------------------------------------------------------------
(* The previews *)

PreviewState == {"none", "hit", "queued", "active", "backoff", "answered"}

\* The previews that hold a slot.
Busy(states) == {p \in Previews : states[p] \in {"active", "backoff"}}

CachedPreviews(cache) == {u \in Urls : cache[u] # Uncached}

PreviewsTyped ==
    /\ pv \in [Previews -> PreviewState]
    /\ asked \in [Previews -> {None} \cup (Urls \X Nat)] /\ attempt \in [Previews -> 0..MaxRetries]
    /\ shown \in [Previews -> Nat] /\ previewCache \in [Urls -> Nat]
    /\ previewQueue \in Seq(Previews) /\ activePreviewJobs \in 0..MaxJobs

\* The queue and the slots, in the middle of an operation: the previews that
\* wait are in the queue once each, and the counter counts those that hold a slot.
Waiting(states, queue, active) ==
    /\ states \in [Previews -> PreviewState]
    /\ queue \in Seq(Previews) /\ Once(queue)
    /\ \A p \in Previews : (states[p] = "queued") <=> InQueue(queue, p)
    /\ active \in 0..MaxJobs /\ active = Cardinality(Busy(states))

\* A preview that was asked for knows its package and its revision, and shows
\* nothing else.
PreviewsShown ==
    \A p \in Previews :
        /\ pv[p] # "none" => asked[p] \in Urls \X Nat
        /\ pv[p] = "none" => shown[p] = Uncached
        /\ shown[p] # Uncached => shown[p] = Revision(p)

PreviewsInv ==
    /\ PreviewsTyped /\ PreviewsShown
    /\ Waiting(pv, previewQueue, activePreviewJobs)
    /\ previewQueue # <<>> => activePreviewJobs = MaxJobs
    /\ Cardinality(CachedPreviews(previewCache)) <= CacheMax

LEMMA BusyFinite ==
    ASSUME NEW states
    PROVE  /\ IsFiniteSet(Busy(states)) /\ Cardinality(Busy(states)) \in Nat
           /\ Busy(states) \subseteq Previews
<1>1. IsFiniteSet(Previews)
  BY ProxyAssumption, FS_Interval DEF Previews
<1>2. Busy(states) \subseteq Previews
  BY DEF Busy
<1> QED
  BY <1>1, <1>2, FS_Subset, FS_CardinalityType

\* startNextPreviewJobs fills the free slots from the head of the queue.
\* HeadCount, of a queue of previews.
LEMMA FirstWaiting ==
    ASSUME NEW queue \in Seq(Previews), Once(queue), NEW n \in 0..Len(queue)
    PROVE  LET first == {queue[m] : m \in 1..n}
           IN  first \subseteq Previews /\ IsFiniteSet(first) /\ Cardinality(first) = n
<1>1. \A S : \A q \in Seq(S) : Once(q) => \A k \in 0..Len(q) :
        LET T == {q[m] : m \in 1..k} IN T \subseteq S /\ IsFiniteSet(T) /\ Cardinality(T) = k
  BY HeadCount
<1> QED
  BY <1>1

LEMMA StartJobs ==
    ASSUME NEW states, NEW queue, NEW active, Waiting(states, queue, active),
           StartNextPreviewJobs(states, queue, active)
    PROVE  /\ Waiting(pv', previewQueue', activePreviewJobs')
           /\ previewQueue' # <<>> => activePreviewJobs' = MaxJobs
           /\ \A p \in Previews : \/ pv'[p] = states[p]
                                  \/ states[p] = "queued" /\ pv'[p] = "active"
<1> DEFINE n == IF Len(queue) < MaxJobs - active THEN Len(queue) ELSE MaxJobs - active
           now == Started(queue, active)
           ids == {now[i] : i \in 1..Len(now)}
           first == {queue[m] : m \in 1..n}
<1>1. /\ Len(queue) \in Nat /\ DOMAIN queue = 1..Len(queue)
      /\ \A i \in DOMAIN queue : queue[i] \in Previews
      /\ MaxJobs \in Nat /\ active \in Nat /\ active <= MaxJobs
  BY DomainIs, ProxyAssumption DEF Waiting
<1>2. n \in Nat /\ n <= Len(queue) /\ n <= MaxJobs - active /\ n \in 0..Len(queue)
      /\ (n < Len(queue) => n = MaxJobs - active)
  <2>1. \A l, m \in Nat : l - m \in Int
    OBVIOUS
  <2> QED
    BY <1>1
<1>3. now = SubSeq(queue, 1, n)
  BY DEF Started
<1>4. Len(now) = n /\ \A i \in 1..n : now[i] = queue[i]
  <2> HIDE DEF n, now
  <2>1. \A i \in 1..n : queue[i] \in Previews
    BY <1>1, <1>2
  <2>2. Len(now) = IF 1 <= n THEN n - 1 + 1 ELSE 0
    BY <1>2, <1>3, <2>1, SubSeqProperties
  <2>3. \A i \in 1..n - 1 + 1 : now[i] = queue[1 + i - 1]
    BY <1>2, <1>3, <2>1, SubSeqProperties
  <2>4. \A i \in 1..n : i \in 1..n - 1 + 1 /\ 1 + i - 1 = i
    BY <1>2
  <2> QED
    BY <1>2, <2>2, <2>3, <2>4
<1>5. ids = first
  <2> HIDE DEF n, now
  <2> QED
    BY <1>4
<1>6. /\ pv' = [p \in Previews |-> IF p \in first THEN "active" ELSE states[p]]
      /\ previewQueue' = SubSeq(queue, n + 1, Len(queue))
      /\ activePreviewJobs' = active + n
  <2>1. /\ pv' = [p \in Previews |-> IF p \in ids THEN "active" ELSE states[p]]
        /\ previewQueue' = SubSeq(queue, Len(now) + 1, Len(queue))
        /\ activePreviewJobs' = active + Len(now)
    BY DEF StartNextPreviewJobs
  <2> HIDE DEF n, now, ids, first
  <2> QED
    BY <1>4, <1>5, <2>1
<1> HIDE DEF n, now, ids
<1>7. first \subseteq Previews /\ IsFiniteSet(first) /\ Cardinality(first) = n
  <2>1. queue \in Seq(Previews) /\ Once(queue) /\ n \in 0..Len(queue)
    BY <1>2 DEF Waiting
  <2> HIDE DEF n
  <2> QED
    BY <2>1, FirstWaiting
<1>8. /\ previewQueue' \in Seq(Previews) /\ Once(previewQueue')
      /\ \A p \in Previews : InQueue(previewQueue', p) <=> InQueue(queue, p) /\ p \notin first
  <2>1. queue \in Seq(Previews) /\ Once(queue) /\ n \in 0..Len(queue)
    BY <1>2 DEF Waiting
  <2>2. previewQueue' = SubSeq(queue, n + 1, Len(queue))
    BY <1>6
  <2> HIDE DEF first
  <2> QED
    BY <2>1, <2>2, TailOnce DEF first
<1>9. \A p \in first : states[p] = "queued"
  <2>1. \A m \in 1..n : m \in DOMAIN queue
    BY <1>1, <1>2
  <2> QED
    BY <1>7, <2>1 DEF Waiting, InQueue
<1> HIDE DEF first
<1>10. Busy(pv') = Busy(states) \cup first /\ Busy(states) \cap first = {}
  BY <1>6, <1>7, <1>9 DEF Busy
<1>11. Cardinality(Busy(pv')) = active + n
  <2>1. /\ IsFiniteSet(Busy(states)) /\ Cardinality(Busy(states)) = active
    BY BusyFinite DEF Waiting
  <2>2. Cardinality(Busy(states) \cup first)
          = Cardinality(Busy(states)) + Cardinality(first) - Cardinality(Busy(states) \cap first)
    BY <1>7, <2>1, FS_Union
  <2>3. Cardinality(Busy(states) \cap first) = 0
    BY <1>10, FS_EmptySet
  <2> QED
    BY <1>1, <1>2, <1>7, <1>10, <2>1, <2>2, <2>3
<1>12. previewQueue' # <<>> => active + n = MaxJobs
  <2>1. CASE n < Len(queue)
    BY <1>1, <1>2, <2>1
  <2>2. CASE n = Len(queue)
    <3>1. previewQueue' = <<>>
      BY <1>1, <1>6, <2>2, SubSeqEmpty DEF Waiting
    <3> QED
      BY <3>1
  <2>3. n < Len(queue) \/ n = Len(queue)
    <3>1. Len(queue) \in Nat /\ n \in Nat /\ n <= Len(queue)
      BY <1>1, <1>2
    <3> QED
      BY <3>1
  <2> QED
    BY <2>1, <2>2, <2>3
<1>13. pv' \in [Previews -> PreviewState]
  BY <1>6 DEF Waiting, PreviewState
<1>14. \A p \in Previews : (pv'[p] = "queued") <=> InQueue(previewQueue', p)
  BY <1>6, <1>8 DEF Waiting
<1>15. activePreviewJobs' \in 0..MaxJobs
  BY <1>1, <1>2, <1>6
<1>16. Waiting(pv', previewQueue', activePreviewJobs')
  BY <1>6, <1>8, <1>11, <1>13, <1>14, <1>15 DEF Waiting
<1> QED
  BY <1>6, <1>9, <1>12, <1>16

\* cachePreviewResult: a full cache is emptied before a preview is kept.
LEMMA CacheBounded ==
    ASSUME PreviewsInv, NEW p \in Previews, asked[p] \in Urls \X Nat
    PROVE  /\ CachePreviewResult(p) \in [Urls -> Nat]
           /\ Cardinality(CachedPreviews(CachePreviewResult(p))) <= CacheMax
<1> DEFINE full == Cardinality(CachedPreviews(previewCache)) >= CacheMax
           kept == IF full THEN [u \in Urls |-> Uncached] ELSE previewCache
           cache == [kept EXCEPT ![PackageUrl(p)] = Revision(p)]
<1>1. PackageUrl(p) \in Urls /\ Revision(p) \in Nat
  BY DEF PackageUrl, Revision
<1>2. cache = CachePreviewResult(p)
  BY DEF CachePreviewResult, CachedPreviews
<1>3. kept \in [Urls -> Nat]
  BY DEF PreviewsInv, PreviewsTyped, Uncached
<1>4. cache \in [Urls -> Nat]
  <2> HIDE DEF kept
  <2> QED
    BY <1>1, <1>3
<1>5. CachedPreviews(cache) \subseteq CachedPreviews(kept) \cup {PackageUrl(p)}
  <2> HIDE DEF kept
  <2> QED
    BY <1>1, <1>3 DEF CachedPreviews
<1>6. IsFiniteSet(CachedPreviews(kept)) /\ IsFiniteSet(CachedPreviews(kept) \cup {PackageUrl(p)})
  <2>1. CachedPreviews(kept) \subseteq Urls /\ IsFiniteSet(Urls)
    BY ProxyAssumption DEF CachedPreviews
  <2>2. IsFiniteSet(CachedPreviews(kept))
    BY <2>1, FS_Subset
  <2> QED
    BY <2>2, FS_AddElement
<1>7. Cardinality(CachedPreviews(kept)) < CacheMax
  <2>1. CASE full
    <3>1. CachedPreviews(kept) = {}
      BY <2>1 DEF CachedPreviews
    <3>2. Cardinality(CachedPreviews(kept)) = 0
      BY <3>1, FS_EmptySet
    <3> QED
      BY <3>2, ProxyAssumption
  <2>2. CASE ~full
    <3>1. kept = previewCache
      BY <2>2
    <3>2. Cardinality(CachedPreviews(kept)) \in Nat /\ CacheMax \in Nat
      BY <1>6, FS_CardinalityType, ProxyAssumption
    <3> QED
      BY <2>2, <3>1, <3>2
  <2> QED
    BY <2>1, <2>2
<1> HIDE DEF kept, full, cache
<1>8. Cardinality(CachedPreviews(kept) \cup {PackageUrl(p)}) <= CacheMax
  <2>1. Cardinality(CachedPreviews(kept) \cup {PackageUrl(p)}) =
          IF PackageUrl(p) \in CachedPreviews(kept) THEN Cardinality(CachedPreviews(kept))
                                             ELSE Cardinality(CachedPreviews(kept)) + 1
    BY <1>6, FS_AddElement
  <2>2. Cardinality(CachedPreviews(kept)) \in Nat /\ CacheMax \in Nat
    BY <1>6, FS_CardinalityType, ProxyAssumption
  <2> QED
    BY <1>7, <2>1, <2>2
<1>9. Cardinality(CachedPreviews(cache)) <= CacheMax
  <2>1. /\ IsFiniteSet(CachedPreviews(cache))
        /\ Cardinality(CachedPreviews(cache)) <= Cardinality(CachedPreviews(kept) \cup {PackageUrl(p)})
    BY <1>5, <1>6, FS_Subset
  <2>2. /\ Cardinality(CachedPreviews(cache)) \in Nat /\ CacheMax \in Nat
        /\ Cardinality(CachedPreviews(kept) \cup {PackageUrl(p)}) \in Nat
    BY <1>6, <2>1, FS_CardinalityType, ProxyAssumption
  <2> QED
    BY <1>8, <2>1, <2>2
<1> QED
  BY <1>2, <1>4, <1>9

\* Entries only leave the cache.
LEMMA CacheShrinks ==
    ASSUME PreviewsInv, NEW u \in Urls
    PROVE  LET cache == [previewCache EXCEPT ![u] = Uncached]
           IN  cache \in [Urls -> Nat] /\ Cardinality(CachedPreviews(cache)) <= CacheMax
<1> DEFINE cache == [previewCache EXCEPT ![u] = Uncached]
<1>1. previewCache \in [Urls -> Nat] /\ Cardinality(CachedPreviews(previewCache)) <= CacheMax
  BY DEF PreviewsInv, PreviewsTyped
<1>2. cache \in [Urls -> Nat] /\ CachedPreviews(cache) \subseteq CachedPreviews(previewCache)
  BY <1>1 DEF CachedPreviews, Uncached
<1>3. IsFiniteSet(CachedPreviews(previewCache))
  <2>1. CachedPreviews(previewCache) \subseteq Urls /\ IsFiniteSet(Urls)
    BY ProxyAssumption DEF CachedPreviews
  <2> QED
    BY <2>1, FS_Subset
<1> HIDE DEF cache
<1>4. /\ Cardinality(CachedPreviews(cache)) <= Cardinality(CachedPreviews(previewCache))
      /\ Cardinality(CachedPreviews(cache)) \in Nat /\ CacheMax \in Nat
      /\ Cardinality(CachedPreviews(previewCache)) \in Nat
  BY <1>2, <1>3, FS_Subset, FS_CardinalityType, ProxyAssumption
<1>5. Cardinality(CachedPreviews(cache)) <= CacheMax
  BY <1>1, <1>4
<1> QED
  BY <1>2, <1>5 DEF cache

LEMMA ResolveStep ==
    ASSUME PreviewsInv, remote \in Nat, NEW p \in Previews, NEW u \in Urls,
           ResolveIdentifierPreview(p, u)
    PROVE  PreviewsInv'
<1>1. /\ pv[p] = "none" /\ asked' = [asked EXCEPT ![p] = <<u, remote + 1>>]
      /\ UNCHANGED <<attempt, previewCache>>
  BY DEF ResolveIdentifierPreview
<1>2. /\ PreviewsTyped /\ PreviewsShown /\ Waiting(pv, previewQueue, activePreviewJobs)
      /\ pv \in [Previews -> PreviewState]
      /\ asked \in [Previews -> {None} \cup (Urls \X Nat)]
  BY DEF PreviewsInv, PreviewsTyped
<1>3. /\ asked' \in [Previews -> {None} \cup (Urls \X Nat)]
      /\ asked'[p] \in Urls \X Nat /\ asked'[p][2] = remote + 1
      /\ \A o \in Previews \ {p} : asked'[o] = asked[o]
  BY <1>1, <1>2
<1>4. CASE Cached(u, remote + 1)
  <2>1. /\ pv' = [pv EXCEPT ![p] = "hit"]
        /\ shown' = [shown EXCEPT ![p] = remote + 1]
        /\ UNCHANGED <<previewQueue, activePreviewJobs>>
    BY <1>4 DEF ResolveIdentifierPreview, Cached
  <2>2. pv' \in [Previews -> PreviewState] /\ pv'[p] = "hit" /\ \A o \in Previews \ {p} : pv'[o] = pv[o]
    BY <1>2, <2>1 DEF PreviewState
  <2>3. /\ shown' \in [Previews -> Nat] /\ shown'[p] = remote + 1
        /\ \A o \in Previews \ {p} : shown'[o] = shown[o]
    BY <1>2, <2>1 DEF PreviewsTyped
  <2>4. Busy(pv') = Busy(pv)
    BY <1>1, <2>2 DEF Busy
  <2>5. Waiting(pv', previewQueue', activePreviewJobs')
    BY <1>1, <1>2, <2>1, <2>2, <2>4 DEF Waiting
  <2>6. PreviewsTyped'
    BY <1>1, <1>2, <1>3, <2>1, <2>2, <2>3 DEF PreviewsTyped
  <2>7. PreviewsShown'
    BY <1>2, <1>3, <2>2, <2>3 DEF PreviewsShown, Revision
  <2> QED
    BY <1>1, <2>1, <2>5, <2>6, <2>7 DEF PreviewsInv
<1>5. CASE ~Cached(u, remote + 1)
  <2> DEFINE states == [pv EXCEPT ![p] = "queued"]
             queue == Append(previewQueue, p)
  <2>1. StartNextPreviewJobs(states, queue, activePreviewJobs) /\ UNCHANGED shown
    BY <1>5 DEF ResolveIdentifierPreview
  <2>2. states \in [Previews -> PreviewState] /\ states[p] = "queued"
        /\ \A o \in Previews \ {p} : states[o] = pv[o]
    BY <1>2 DEF PreviewState
  <2>3. /\ previewQueue \in Seq(Previews) /\ Once(previewQueue)
        /\ \A o \in Previews : (pv[o] = "queued") <=> InQueue(previewQueue, o)
    BY <1>2 DEF Waiting
  <2>4. <<p>> \in Seq(Previews) /\ Once(<<p>>) /\ \A o \in Previews : InQueue(<<p>>, o) <=> o = p
    BY DEF Once, InQueue
  <2>5. queue = previewQueue \o <<p>> /\ queue \in Seq(Previews)
    BY <2>3, AppendIsConcat, AppendProperties
  <2>6. Once(queue) /\ \A o \in Previews : InQueue(queue, o) <=> InQueue(previewQueue, o) \/ o = p
    <3>1. \A o \in Previews : InQueue(previewQueue, o) => ~InQueue(<<p>>, o)
      BY <1>1, <2>3, <2>4
    <3> HIDE DEF queue
    <3> QED
      BY <2>3, <2>4, <2>5, <3>1, ConcatOnce
  <2> HIDE DEF states, queue
  <2>7. Busy(states) = Busy(pv)
    BY <1>1, <2>2 DEF Busy
  <2>8. Waiting(states, queue, activePreviewJobs)
    BY <1>2, <2>2, <2>3, <2>5, <2>6, <2>7 DEF Waiting
  <2>9. /\ Waiting(pv', previewQueue', activePreviewJobs')
        /\ previewQueue' # <<>> => activePreviewJobs' = MaxJobs
        /\ \A o \in Previews : pv'[o] = states[o] \/ (states[o] = "queued" /\ pv'[o] = "active")
    BY <2>1, <2>8, StartJobs
  <2>10. PreviewsTyped'
    BY <1>1, <1>2, <1>3, <2>1, <2>9 DEF PreviewsTyped, Waiting
  <2>11. PreviewsShown'
    BY <1>1, <1>2, <1>3, <2>1, <2>2, <2>9 DEF PreviewsShown, Revision
  <2> QED
    BY <1>1, <2>9, <2>10, <2>11 DEF PreviewsInv
<1> QED
  BY <1>4, <1>5

\* A preview that was waiting for its timer goes on.
LEMMA TimerStep ==
    ASSUME PreviewsInv, NEW p \in Previews, HitDelivered(p) \/ PreviewRetried(p)
    PROVE  PreviewsInv'
<1>1. /\ UNCHANGED <<asked, attempt, shown, previewQueue, activePreviewJobs, previewCache>>
      /\ \/ pv[p] = "hit" /\ pv' = [pv EXCEPT ![p] = "answered"]
         \/ pv[p] = "backoff" /\ pv' = [pv EXCEPT ![p] = "active"]
  BY DEF HitDelivered, PreviewRetried, RetryDue
<1>2. PreviewsTyped /\ PreviewsShown /\ Waiting(pv, previewQueue, activePreviewJobs)
      /\ pv \in [Previews -> PreviewState]
  BY DEF PreviewsInv, PreviewsTyped
<1>3. /\ pv' \in [Previews -> PreviewState] /\ \A o \in Previews \ {p} : pv'[o] = pv[o]
      /\ pv[p] \in {"hit", "backoff"} /\ pv'[p] \in {"answered", "active"}
      /\ pv[p] = "backoff" <=> pv'[p] = "active"
  BY <1>1, <1>2 DEF PreviewState
<1>4. Busy(pv') = Busy(pv)
  BY <1>3 DEF Busy
<1>5. Waiting(pv', previewQueue', activePreviewJobs')
  BY <1>1, <1>2, <1>3, <1>4 DEF Waiting
<1>6. PreviewsTyped' /\ PreviewsShown'
  BY <1>1, <1>2, <1>3 DEF PreviewsTyped, PreviewsShown, Revision
<1> QED
  BY <1>1, <1>5, <1>6 DEF PreviewsInv

\* A job ends, for good or until its next attempt.
LEMMA JobEndsStep ==
    ASSUME PreviewsInv, NEW p \in Previews, PreviewEnds(p)
    PROVE  PreviewsInv'
<1>1. pv[p] = "active" /\ UNCHANGED asked
  BY DEF PreviewEnds
<1>2. /\ PreviewsTyped /\ PreviewsShown /\ Waiting(pv, previewQueue, activePreviewJobs)
      /\ pv \in [Previews -> PreviewState] /\ asked[p] \in Urls \X Nat /\ Revision(p) \in Nat
      /\ shown \in [Previews -> Nat]
  BY <1>1 DEF PreviewsInv, PreviewsTyped, PreviewsShown, Revision
<1>3. CASE Backoff(p)
  <2> DEFINE states == [pv EXCEPT ![p] = "backoff"]
  <2>1. /\ StartNextPreviewJobs(states, previewQueue, activePreviewJobs)
        /\ attempt[p] < MaxRetries /\ attempt' = [attempt EXCEPT ![p] = @ + 1]
        /\ UNCHANGED <<shown, previewCache>>
    BY <1>3 DEF Backoff, SlotsOverBackoff
  <2>2. states \in [Previews -> PreviewState] /\ states[p] = "backoff"
        /\ \A o \in Previews \ {p} : states[o] = pv[o]
    BY <1>2 DEF PreviewState
  <2> HIDE DEF states
  <2>3. Busy(states) = Busy(pv)
    BY <1>1, <2>2 DEF Busy
  <2>4. Waiting(states, previewQueue, activePreviewJobs)
    BY <1>1, <1>2, <2>2, <2>3 DEF Waiting
  <2>5. /\ Waiting(pv', previewQueue', activePreviewJobs')
        /\ previewQueue' # <<>> => activePreviewJobs' = MaxJobs
        /\ \A o \in Previews : pv'[o] = states[o] \/ (states[o] = "queued" /\ pv'[o] = "active")
    BY <2>1, <2>4, StartJobs
  <2>6. attempt' \in [Previews -> 0..MaxRetries]
    BY <1>2, <2>1, ProxyAssumption DEF PreviewsTyped
  <2>7. PreviewsTyped'
    BY <1>1, <1>2, <2>1, <2>5, <2>6 DEF PreviewsTyped, Waiting
  <2>8. PreviewsShown'
    BY <1>1, <1>2, <2>1, <2>2, <2>5 DEF PreviewsShown, Revision
  <2> QED
    BY <2>1, <2>5, <2>7, <2>8 DEF PreviewsInv
<1>4. ASSUME NEW how,
             /\ previewCache' = IF how = "read" THEN CachePreviewResult(p)
                                ELSE [previewCache EXCEPT ![PackageUrl(p)] = Uncached]
             /\ shown' = [shown EXCEPT ![p] = IF how = "read" THEN Revision(p) ELSE Uncached]
             /\ StartNextPreviewJobs([pv EXCEPT ![p] = "answered"], previewQueue,
                                     activePreviewJobs - 1)
             /\ UNCHANGED attempt
      PROVE  PreviewsInv'
  <2> DEFINE states == [pv EXCEPT ![p] = "answered"]
  <2>1. states \in [Previews -> PreviewState] /\ states[p] = "answered"
        /\ \A o \in Previews \ {p} : states[o] = pv[o]
    BY <1>2 DEF PreviewState
  <2>2. StartNextPreviewJobs(states, previewQueue, activePreviewJobs - 1)
    BY <1>4
  <2> HIDE DEF states
  <2>3. Busy(states) = Busy(pv) \ {p} /\ p \in Busy(pv)
    BY <1>1, <2>1 DEF Busy
  <2>4. Cardinality(Busy(states)) = activePreviewJobs - 1 /\ activePreviewJobs - 1 \in 0..MaxJobs
    <3>1. IsFiniteSet(Busy(pv)) /\ Cardinality(Busy(pv)) = activePreviewJobs
      BY <1>2, BusyFinite DEF Waiting
    <3>2. Cardinality(Busy(states)) = activePreviewJobs - 1
      BY <2>3, <3>1, FS_RemoveElement
    <3>3. Cardinality(Busy(states)) \in Nat /\ activePreviewJobs \in 0..MaxJobs /\ MaxJobs \in Nat
      BY <1>2, BusyFinite, ProxyAssumption DEF Waiting
    <3> QED
      BY <3>2, <3>3
  <2>5. Waiting(states, previewQueue, activePreviewJobs - 1)
    BY <1>1, <1>2, <2>1, <2>4 DEF Waiting
  <2>6. /\ Waiting(pv', previewQueue', activePreviewJobs')
        /\ previewQueue' # <<>> => activePreviewJobs' = MaxJobs
        /\ \A o \in Previews : pv'[o] = states[o] \/ (states[o] = "queued" /\ pv'[o] = "active")
    BY <2>2, <2>5, StartJobs
  <2>7. shown' \in [Previews -> Nat] /\ shown'[p] \in {Uncached, Revision(p)}
        /\ \A o \in Previews \ {p} : shown'[o] = shown[o]
    BY <1>2, <1>4 DEF Uncached
  <2>8. previewCache' \in [Urls -> Nat] /\ Cardinality(CachedPreviews(previewCache')) <= CacheMax
    <3>1. CASE how = "read"
      BY <1>2, <1>4, <3>1, CacheBounded
    <3>2. CASE how # "read"
      <4>1. PackageUrl(p) \in Urls
        BY <1>2 DEF PackageUrl
      <4> QED
        BY <1>4, <3>2, <4>1, CacheShrinks
    <3> QED
      BY <3>1, <3>2
  <2>9. PreviewsTyped'
    BY <1>1, <1>2, <1>4, <2>6, <2>7, <2>8 DEF PreviewsTyped, Waiting
  <2>10. PreviewsShown'
    <3>1. ASSUME NEW o \in Previews \ {p}
          PROVE  /\ pv'[o] # "none" => asked'[o] \in Urls \X Nat
                 /\ pv'[o] = "none" => shown'[o] = Uncached
                 /\ shown'[o] # Uncached => shown'[o] = asked'[o][2]
      BY <1>1, <1>2, <2>1, <2>6, <2>7 DEF PreviewsShown, Revision
    <3>2. /\ asked'[p] \in Urls \X Nat /\ pv'[p] # "none"
          /\ shown'[p] # Uncached => shown'[p] = asked'[p][2]
      BY <1>1, <1>2, <2>1, <2>6, <2>7 DEF Revision
    <3> QED
      BY <3>1, <3>2 DEF PreviewsShown, Revision
  <2> QED
    BY <2>6, <2>8, <2>9, <2>10 DEF PreviewsInv
<1> QED
  BY <1>3, <1>4 DEF PreviewEnds

LEMMA PreviewsInductive ==
    ASSUME PreviewsInv, remote \in Nat, [ProxyNext]_proxyVars
    PROVE  PreviewsInv'
<1>1. CASE UNCHANGED previews
  BY <1>1 DEF previews, PreviewsInv, PreviewsTyped, PreviewsShown, Revision
<1>2. ASSUME NEW p \in Previews, NEW u \in Urls, ResolveIdentifierPreview(p, u) PROVE PreviewsInv'
  BY <1>2, ResolveStep
<1>3. ASSUME NEW p \in Previews, HitDelivered(p) \/ PreviewEnds(p) \/ PreviewRetried(p)
      PROVE  PreviewsInv'
  BY <1>3, TimerStep, JobEndsStep
<1>4. ASSUME NEW u \in Urls, Expires(u) PROVE PreviewsInv'
  <2>1. /\ previewCache' = [previewCache EXCEPT ![u] = Uncached]
        /\ UNCHANGED <<pv, asked, attempt, shown, previewQueue, activePreviewJobs>>
    BY <1>4 DEF Expires
  <2>2. previewCache' \in [Urls -> Nat] /\ Cardinality(CachedPreviews(previewCache')) <= CacheMax
    BY <2>1, CacheShrinks
  <2>3. PreviewsTyped' /\ PreviewsShown'
    BY <2>1, <2>2 DEF PreviewsInv, PreviewsTyped, PreviewsShown, Revision
  <2> QED
    BY <2>1, <2>2, <2>3 DEF PreviewsInv
<1>5. ASSUME NEW s \in Sess, PrepareStream(s) \/ IndexRead(s) \/ ManifestRead(s) \/ Revoke(s)
      PROVE  UNCHANGED previews
  BY <1>5 DEF PrepareStream, IndexRead, ManifestRead, Revoke
<1>6. ASSUME NEW c \in Sockets,
             \/ Connect(c) \/ Deadline(c) \/ BadRequest(c) \/ ManifestFetched(c)
             \/ ResourceFetched(c) \/ SegmentFetched(c)
             \/ Decrypted(c) \/ Written(c) \/ Disconnect(c)
             \/ \E s \in Sess : HandleRequest(c, s)
      PROVE  UNCHANGED previews
  BY <1>6 DEF Connect, Deadline, BadRequest, ManifestFetched, ResourceFetched, PartFetched,
              SegmentFetched, Decrypted, Written, Disconnect, HandleRequest
<1>7. CASE Replaced \/ UNCHANGED proxyVars
  BY <1>1, <1>7 DEF Replaced, proxyVars
<1> QED
  BY <1>1, <1>2, <1>3, <1>4, <1>5, <1>6, <1>7 DEF ProxyNext

LEMMA PreviewsStart == ProxyInit => PreviewsInv
<1> SUFFICES ASSUME ProxyInit PROVE PreviewsInv
  OBVIOUS
<1>1. previewQueue \in Seq(Previews) /\ Once(previewQueue) /\ \A p \in Previews : ~InQueue(previewQueue, p)
  BY EmptySeq DEF ProxyInit, Once, InQueue
<1>2. PreviewsTyped
  BY <1>1, ProxyAssumption DEF ProxyInit, PreviewsTyped, PreviewState, Uncached
<1>3. Busy(pv) = {} /\ CachedPreviews(previewCache) = {}
  BY DEF ProxyInit, Busy, CachedPreviews
<1>4. Cardinality(Busy(pv)) = 0 /\ Cardinality(CachedPreviews(previewCache)) = 0
  BY <1>3, FS_EmptySet
<1>5. Waiting(pv, previewQueue, activePreviewJobs)
  BY <1>1, <1>2, <1>4 DEF ProxyInit, Waiting, PreviewsTyped
<1> QED
  BY <1>2, <1>4, <1>5, ProxyAssumption DEF ProxyInit, PreviewsInv, PreviewsShown

-----------------------------------------------------------------------------
(* What it comes to *)

\* Both halves of the invariant hold always; the previews take the revision of
\* the package from the listing, so theirs is shown beside the server's.
THEOREM ProxySound == ProxySpec => [](ServerInv /\ PreviewsInv)
<1>1. ServerInv => remote \in Nat
  BY ProxyAssumption DEF ServerInv, SessionsTyped
<1>2. ProxyInit => ServerInv /\ PreviewsInv
  BY ServerStarts, PreviewsStart
<1>3. ServerInv /\ PreviewsInv /\ [ProxyNext]_proxyVars => ServerInv' /\ PreviewsInv'
  BY <1>1, ServerInductive, PreviewsInductive
<1> QED
  BY <1>2, <1>3, PTL DEF ProxySpec

\* One response for a connection, one package for a session, the job limit and
\* the cache limit of the previews, and previews of the revision that was asked
\* for, whatever the order of requests, replies, workers, deadlines and changes.
THEOREM ProxyKeepsItsPromises == ProxySpec => []ProxyInv
<1>1. ServerInv /\ PreviewsInv => ProxyInv
  <2> SUFFICES ASSUME ServerInv, PreviewsInv PROVE ProxyInv
    OBVIOUS
  <2>1. ProxyTypeOK
    BY DEF ProxyTypeOK, ServerInv, SessionsTyped, SocketsTyped, PreviewsInv, PreviewsTyped, PreviewState
  <2>2. OneResponse /\ OnePackage
    BY DEF ServerInv, ServedWell, OneResponse, OnePackage
  <2>3. PreviewSlots /\ PreviewHonest
    BY DEF PreviewsInv, PreviewsShown, Waiting, Busy, CachedPreviews, PreviewSlots, PreviewHonest
  <2> QED
    BY <2>1, <2>2, <2>3 DEF ProxyInv
<1> QED
  BY <1>1, ProxySound, PTL

\* After revoke nothing of the session is given away and nothing decrypted of it
\* is kept, also when a worker comes back afterwards.
THEOREM RevokedIsSilent == ProxySpec => []NothingAfterRevoke
<1>1. ServerInv => NothingAfterRevoke
  BY DEF ServerInv, SocketsTyped, ServedWell, NothingAfterRevoke
<1> QED
  BY <1>1, ProxySound, PTL

\* The consumer of a session was told of every part that could not be given
\* (streamFailed), since FFmpeg's exit status does not tell.
THEOREM MissingPartsAreTold == ProxySpec => []MissingIsTold
<1>1. ServerInv => MissingIsTold
  BY DEF ServerInv, ServedWell, MissingIsTold
<1> QED
  BY <1>1, ProxySound, PTL
=============================================================================
