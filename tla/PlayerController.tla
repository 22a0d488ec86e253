-------------------------- MODULE PlayerController --------------------------
(***************************************************************************)
(* The foreground player (PlayerController.cpp, MpvVideoItem.cpp) and the *)
(* part of libmpv it depends on: replacing one file by another, the events *)
(* that are polled later, and the capture of an embedded audio cover, which *)
(* is retried within a budget.  Nothing here is a process of its own:       *)
(* PlaybackSession says who calls what.  Positions are abstracted to        *)
(* "begun" (a position or duration is known); tracks other than the cover,  *)
(* metadata, figures and the native window are left out.  The background    *)
(* player, whose handle survives stop(), is in ScheduledPlayback.           *)
(***************************************************************************)
EXTENDS Naturals, Sequences

CONSTANTS
    MaxTries,     \* maxTotalAttempts of handleAudioCoverCaptureFailure, 18 in the code
    MaxTimers,    \* bound: retry timers told apart; more of them do what two do
    MaxEvents     \* bound: events libmpv has queued

ASSUME PlayerAssumption ==
    MaxTries \in Nat \ {0} /\ MaxTimers \in Nat \ {0} /\ MaxEvents \in Nat \ {0}

VARIABLE player

\* "timers" and "request" are those of the current generation: one that was reset changes nothing
Cover ==
    [track: BOOLEAN, pending: BOOLEAN, exhausted: BOOLEAN, shown: BOOLEAN,
     tries: 0..MaxTries, request: BOOLEAN, timers: 0..MaxTimers]

(***************************************************************************)
(* "mode" is the handle there is, "deferred" m_pendingPlay, "wake" the zero *)
(* timer that plays what is deferred (one that finds nothing is no timer).  *)
(* The last four fields are libmpv's: the file its core works on, a file to *)
(* replace it by, whether the file's cover is among its tracks by now, and  *)
(* the queue of events.                                                     *)
(***************************************************************************)
Event == {"start", "loaded", "reconfig", "restart", "stop", "eof", "error"}

Player ==
    [source: BOOLEAN, audioOnly: BOOLEAN, deferred: BOOLEAN, wake: BOOLEAN, mode: {"none", "video", "audio"},
     loading: BOOLEAN, begun: BOOLEAN, cover: Cover,
     file: {"none", "opening", "playing"}, next: BOOLEAN, art: BOOLEAN, events: Seq(Event)]

NoCover ==
    [track |-> FALSE, pending |-> FALSE, exhausted |-> FALSE, shown |-> FALSE,
     tries |-> 0, request |-> FALSE, timers |-> 0]

NoPlayer ==
    [source |-> FALSE, audioOnly |-> FALSE, deferred |-> FALSE, wake |-> FALSE, mode |-> "none",
     loading |-> FALSE, begun |-> FALSE, cover |-> NoCover,
     file |-> "none", next |-> FALSE, art |-> FALSE, events |-> <<>>]

---------------------------------------------------------------------------
(* The audio cover *)
resetAudioCover(p) == [p EXCEPT !.cover = NoCover]

\* Beyond the bound one more timer does what the others do
scheduleAudioCoverCapture(p) ==
    [p EXCEPT !.cover.timers = IF @ = MaxTimers THEN @ ELSE @ + 1]

\* MUTANT: the last failure leaves the capture pending
FailureForgotten(p) == IF p.cover.tries < MaxTries THEN scheduleAudioCoverCapture(p) ELSE p

handleAudioCoverCaptureFailure(p) ==
    IF p.cover.tries < MaxTries THEN scheduleAudioCoverCapture(p)
    ELSE [p EXCEPT !.cover.pending = FALSE, !.cover.exhausted = TRUE]

captureAudioCover(p, queued) ==
    LET c == p.cover
        tried == [p EXCEPT !.cover.tries = @ + 1, !.cover.request = queued]
    IN  IF p.mode # "audio" \/ ~c.track \/ ~c.pending \/ c.exhausted \/ c.request THEN p
        ELSE IF queued THEN tried
        ELSE handleAudioCoverCaptureFailure(tried)

updateAudioCoverTrack(p) ==
    LET c == p.cover
        arms == ~c.shown /\ ~c.pending /\ ~c.exhausted
        armed == [p EXCEPT !.cover.track = TRUE, !.cover.pending = @ \/ arms,
                           !.cover.tries = IF arms THEN 0 ELSE @]
    IN  IF p.mode # "audio" THEN p
        ELSE IF ~p.art THEN IF c.track \/ c.shown THEN resetAudioCover(p) ELSE p
        ELSE IF armed.cover.pending /\ armed.cover.tries = 0 THEN scheduleAudioCoverCapture(armed)
        ELSE armed

updateTracks(p) == updateAudioCoverTrack(p)

\* COMMAND_REPLY, which is polled like the events
receiveAudioCover(p) ==
    [p EXCEPT !.cover.shown = TRUE, !.cover.pending = FALSE, !.cover.exhausted = FALSE]

CoverReply ==
    /\ player.cover.request
    /\ LET answered == [player EXCEPT !.cover.request = FALSE]
       IN  player' \in {receiveAudioCover(answered), handleAudioCoverCaptureFailure(answered)}

CoverTimer ==
    /\ player.cover.timers > 0
    /\ \E queued \in BOOLEAN :
          player' = captureAudioCover([player EXCEPT !.cover.timers = @ - 1], queued)

\* The property "track-list" changed
TracksChanged ==
    /\ player.mode = "audio" /\ player.art # player.cover.track
    /\ player' = updateTracks(player)

---------------------------------------------------------------------------
(* Commands *)
resetPlaybackState(p) ==
    [resetAudioCover(p) EXCEPT !.loading = FALSE, !.begun = FALSE]

\* shutdown(): the events libmpv has queued are lost with the handle
shutdown(p) ==
    [resetPlaybackState(p) EXCEPT !.mode = "none", !.file = "none", !.next = FALSE,
                                  !.art = FALSE, !.events = <<>>]

destroyNativeWindow(p) == shutdown(p)

\* MpvVideoItem::stop
stop(p) == destroyNativeWindow([p EXCEPT !.deferred = FALSE, !.wake = FALSE])

\* "made": libmpv and, for a video, its window could be made
initializeInternal(p, mode, made) == IF p.mode = "none" /\ made THEN [p EXCEPT !.mode = mode] ELSE p
ensureNativeWindow(p, made) == initializeInternal(p, "video", made)

playUrl(p, queued) ==
    [resetAudioCover(p) EXCEPT !.begun = FALSE, !.loading = queued, !.next = @ \/ queued]

\* MpvVideoItem::play: a video waits until the item is on screen, and both may lack a handle
play(p, visible, made, queued) ==
    LET ready == IF p.audioOnly THEN initializeInternal(p, "audio", made) ELSE ensureNativeWindow(p, made)
    IN  IF ~p.source THEN p
        ELSE IF (~p.audioOnly /\ ~visible) \/ ready.mode = "none" THEN [p EXCEPT !.deferred = TRUE]
        ELSE [playUrl(ready, queued) EXCEPT !.deferred = FALSE, !.wake = FALSE]

setSource(p, playing, visible, made, queued) ==
    IF playing THEN play([p EXCEPT !.source = TRUE, !.deferred = TRUE], visible, made, queued)
    ELSE IF p.source THEN stop([p EXCEPT !.source = FALSE]) ELSE p

setAudioOnly(p, value) ==
    IF p.audioOnly = value \/ ~p.source THEN [p EXCEPT !.audioOnly = value]
    ELSE [stop([p EXCEPT !.audioOnly = value]) EXCEPT !.deferred = TRUE, !.wake = TRUE]

\* ItemVisibleHasChanged
itemChange(p, visible, made, queued) ==
    IF visible THEN IF p.deferred THEN play(p, visible, made, queued) ELSE p
    ELSE IF p.audioOnly THEN p ELSE stop(p)

---------------------------------------------------------------------------
(* Events *)

\* The END_FILE of a file that is replaced is not the end of what loads; the duration stays known
Ended(p, reason) == [p EXCEPT !.loading = @ /\ reason = "stop"]

Handled(p, event, queued) ==
    CASE event = "start" -> [p EXCEPT !.loading = TRUE, !.begun = FALSE]
      [] event = "loaded" -> [updateTracks(p) EXCEPT !.loading = FALSE]
      [] event = "reconfig" -> captureAudioCover(updateTracks(p), queued)
      [] event = "restart" -> [captureAudioCover(updateTracks(p), queued) EXCEPT !.loading = FALSE]
      [] event \in {"stop", "eof", "error"} -> Ended(p, event)

---------------------------------------------------------------------------
(* The core of libmpv, a thread of its own *)
Emits(events) == player.events \o events
HasRoom == Len(player.events) < MaxEvents

CoreReplaces ==
    /\ player.next /\ player.file # "none" /\ HasRoom
    /\ player' = [player EXCEPT !.file = "none", !.art = FALSE, !.events = Emits(<<"stop">>)]

CoreStarts ==
    /\ player.next /\ player.file = "none" /\ HasRoom
    /\ player' = [player EXCEPT !.file = "opening", !.next = FALSE, !.events = Emits(<<"start">>)]

CoreLoads ==
    /\ player.file = "opening" /\ ~player.next /\ HasRoom
    /\ \E events \in {<<"loaded", "restart">>, <<"loaded", "reconfig", "restart">>} :
          player' = [player EXCEPT !.file = "playing", !.events = Emits(events)]

CoreFails ==
    /\ player.file # "none" /\ HasRoom
    /\ player' = [player EXCEPT !.file = "none", !.art = FALSE, !.events = Emits(<<"error">>)]

\* keep-open: a video stays at its end, and no event says so
CoreReachesEnd ==
    /\ player.file = "playing" /\ player.mode = "audio" /\ HasRoom
    /\ player' = [player EXCEPT !.file = "none", !.art = FALSE, !.events = Emits(<<"eof">>)]

CoreFindsArt ==
    /\ player.file = "playing" /\ player.mode = "audio" /\ ~player.art
    /\ player' = [player EXCEPT !.art = TRUE]

PlayerStep ==
    \/ CoverReply \/ CoverTimer \/ TracksChanged
    \/ CoreReplaces \/ CoreStarts \/ CoreLoads \/ CoreFails \/ CoreReachesEnd \/ CoreFindsArt

---------------------------------------------------------------------------
(* Properties *)

\* The spinner is on only while libmpv still has something to say that takes it away, however a
\* file is replaced while the events of the last one are on their way (PlayerController.cpp:861-932).
SpinnerHonest ==
    player.loading =>
        \/ player.next \/ player.file = "opening"
        \/ \E i \in DOMAIN player.events : player.events[i] \in {"loaded", "restart", "eof", "error"}

\* A cover is captured, is given up after the last attempt, or is being worked on: whoever waits
\* for it has a reply or a timer of its own, and depends on no event that may have passed
\* (the comment at PlayerController.cpp:1262-1268).
CoverSettles ==
    LET c == player.cover
    IN  /\ c.pending => c.request \/ c.timers > 0
        /\ c.track => c.shown \/ c.pending \/ c.exhausted
        /\ c.shown => ~c.pending
=============================================================================
