-------------------------- MODULE PlaybackSession --------------------------
(***************************************************************************)
(* What is played in the foreground, and everything that comes and goes     *)
(* with it (AppViewModel.cpp, the player page of Main.qml): the address and *)
(* the stream or session a proxy serves it through, the history record, the *)
(* usage clock, the audio queue, the claim on the foreground, and requests  *)
(* whose answers come when something else may be playing.  Each action is   *)
(* one handler of the user interface thread with all that its signals set   *)
(* off in the player (PlayerController).                                    *)
(***************************************************************************)
EXTENDS PlayerController, FiniteSets

CONSTANTS
    MaxHandles,     \* bound: streams, and sessions, the proxies know at a time
    MaxRequests     \* bound: requests of the current generation in flight, the older ones beside

\* A stream or a session may be opened while another one is played
ASSUME SessionAssumption == MaxHandles \in Nat \ {0, 1} /\ MaxRequests \in Nat \ {0}

VARIABLE vm

vars == <<player, vm>>

Handle == 0..MaxHandles

\* m_currentPlaybackUrl: where the file is read from
Url == [kind: {"none", "direct", "stream", "session"}, handle: Handle]

\* m_playbackOrigin
Origin == {"none", "server", "link", "iptv", "local", "webdav"}

(***************************************************************************)
(* "page" is any view but the player's and the history's.  "prepare" is the *)
(* preparation of the current generation, "late" an older one that is still *)
(* in flight (bound: one).  "asks" are the requests of playSelectedItem: a  *)
(* "replay" is tagged with the generation of history replays and becomes    *)
(* "outdated" with it; "fetch" is the request of a replay for its details.  *)
(* "streams" and "sessions" are what the two proxies serve.                 *)
(***************************************************************************)
Session ==
    [view: {"page", "history", "player"}, origin: Origin, url: Url, stream: Handle, session: Handle,
     audio: BOOLEAN, prepare: {"none", "local", "webdav", "history"}, late: BOOLEAN,
     asks: SUBSET {"plain", "replay", "outdated"}, fetch: BOOLEAN,
     record: BOOLEAN, usage: BOOLEAN, started: BOOLEAN, foreground: BOOLEAN,
     streams: SUBSET (1..MaxHandles), sessions: SUBSET (1..MaxHandles)]

NoUrl == [kind |-> "none", handle |-> 0]
Direct == [kind |-> "direct", handle |-> 0]
Playing(v) == v.url.kind # "none"

NoSession ==
    [view |-> "page", origin |-> "none", url |-> NoUrl, stream |-> 0, session |-> 0,
     audio |-> FALSE, prepare |-> "none", late |-> FALSE, asks |-> {}, fetch |-> FALSE,
     record |-> FALSE, usage |-> FALSE, started |-> FALSE, foreground |-> FALSE,
     streams |-> {}, sessions |-> {}]

Init == player = NoPlayer /\ vm = NoSession

Fresh(live) == CHOOSE h \in 1..MaxHandles : h \notin live

---------------------------------------------------------------------------
(* History and usage *)
finishGlobalPlaybackHistory(v) == [v EXCEPT !.record = FALSE]
finishPlaybackUsageTracking(v) == [v EXCEPT !.usage = FALSE]

\* "able": the service of the origin is still the current one, and the database takes the record
recordGlobalPlaybackStarted(v, able) == [v EXCEPT !.record = @ \/ (able /\ v.origin # "none")]

\* MUTANT: the clock runs whatever the origin is
ClockAlwaysRuns(v, able) == [v EXCEPT !.usage = @ \/ able]

beginPlaybackUsageTracking(v, able) ==
    [v EXCEPT !.usage = @ \/ (able /\ v.origin \in {"server", "iptv", "webdav"})]

reportPlaybackStarted(v, able) ==
    [beginPlaybackUsageTracking(recordGlobalPlaybackStarted(v, able), able)
        EXCEPT !.started = @ \/ (able /\ v.origin = "server")]

reportPlaybackProgress(v, begun, able) ==
    beginPlaybackUsageTracking(recordGlobalPlaybackStarted(v, begun /\ able), able)

reportPlaybackStopped(v) ==
    [finishPlaybackUsageTracking(finishGlobalPlaybackHistory(v)) EXCEPT !.started = FALSE]

reportPlaybackEnded(v) == reportPlaybackStopped(finishGlobalPlaybackHistory(v))

\* onPlaybackStateChanged
StateReported(v, begun, able) ==
    reportPlaybackProgress(IF begun THEN reportPlaybackStarted(v, able) ELSE v,
                           begun, able)

---------------------------------------------------------------------------
(* Opening and clearing *)

clearCurrentPlayback(v) ==
    [reportPlaybackStopped(v) EXCEPT
        !.late = @ \/ v.prepare # "none", !.prepare = "none",
        !.url = NoUrl, !.origin = "none", !.stream = 0, !.session = 0, !.audio = FALSE,
        !.foreground = FALSE, !.streams = @ \ {v.stream}, !.sessions = @ \ {v.session}]

\* streamUrlFor of the WebDAV proxy, and a preparation that succeeded
OpensStream(v) == [v EXCEPT !.streams = @ \cup {Fresh(v.streams)}]
OpensSession(v) == [v EXCEPT !.sessions = @ \cup {Fresh(v.sessions)}]

\* The fields every way of starting sets after clearCurrentPlayback
Begins(v, origin, url) ==
    [v EXCEPT !.origin = origin, !.url = url, !.foreground = TRUE, !.started = FALSE, !.view = "player",
              !.stream = IF url.kind = "stream" THEN url.handle ELSE @,
              !.session = IF url.kind = "session" THEN url.handle ELSE @]

StreamOf(v) == [kind |-> "stream", handle |-> Fresh(v.streams)]
SessionOf(v) == [kind |-> "session", handle |-> Fresh(v.sessions)]

finishLocalVideoPlayback(v, url) == Begins(clearCurrentPlayback(v), "local", url)
startLinkPlayback(v) == Begins(clearCurrentPlayback(v), "link", Direct)
startWebDavVideoPlayback(v, url) == Begins(clearCurrentPlayback(v), "webdav", url)

finishWebDavHistoryPlayback(v, url, audio) ==
    [Begins(clearCurrentPlayback(v), "webdav", url) EXCEPT !.audio = audio]

playWebDavAudioTrack(v) ==
    LET closed == finishPlaybackUsageTracking(finishGlobalPlaybackHistory(v))
        url == StreamOf(v)
    IN  [Begins(closed, "webdav", url) EXCEPT
            !.view = v.view, !.streams = (@ \ {v.stream}) \cup {url.handle}]

clearWebDavAudioPlayback(v) == IF v.audio THEN clearCurrentPlayback(v) ELSE v

cancelPendingHistoryReplay(v) ==
    [v EXCEPT !.fetch = FALSE,
              !.asks = IF "replay" \in @ THEN (@ \ {"replay"}) \cup {"outdated"} ELSE @]

\* Leaving the history for a page cancels its replays; the player's view does not
setCurrentView(v, view) ==
    [IF v.view = "history" /\ view = "page" THEN cancelPendingHistoryReplay(v) ELSE v
        EXCEPT !.view = view]

Requests(v) ==
    Cardinality(v.asks) + (IF v.fetch THEN 1 ELSE 0) + Cardinality({v.prepare} \ {"none"})

Prepares(v, kind) == [v EXCEPT !.late = @ \/ v.prepare # "none", !.prepare = kind]

---------------------------------------------------------------------------
(* What a handler's signals do: the source follows the address, the item is *)
(* shown or hidden, and the state the player reports on the way is heard    *)
Sources(p, v, same, queued) ==
    IF same /\ p.source THEN p
    ELSE setSource(p, Playing(v), vm.view = "player", queued, queued)

Shows(p, v, queued) ==
    IF vm.view = v.view \/ "player" \notin {vm.view, v.view} THEN p
    ELSE itemChange(p, v.view = "player", queued, queued)

\* "queued": a player can be made and takes the file; "same": the address is the one that is played; one a proxy gives is always new
Becomes(v, p) ==
    \E queued, same, able \in BOOLEAN :
        /\ same => v.url = Direct /\ vm.url = Direct
        /\ ~Playing(v) => ~queued /\ ~able     \* nothing asks
        /\ player' = Shows(Sources(p, v, same, queued), v, queued)
        /\ vm' = IF player' = p THEN v ELSE StateReported(v, player'.begun, able)

\* Signals of the page only: playbackChanged is not among them
Turns(v) ==
    \E queued, able \in BOOLEAN :
        /\ player' = Shows(player, v, queued)
        /\ vm' = IF player' = player THEN v ELSE StateReported(v, player'.begun, able)

---------------------------------------------------------------------------
(* The pages *)

\* A dropped file, a file of a folder, or one of the history; encrypted ones are prepared first
startLocalVideoPlayback(v) ==
    \/ Becomes(finishLocalVideoPlayback(v, Direct), player)
    \/ ~v.late /\ Requests(v) < MaxRequests /\ vm' = Prepares(v, "local") /\ UNCHANGED player

openLocalMediaItem == startLocalVideoPlayback(vm)

playLink == vm.view = "page" /\ Becomes(startLinkPlayback(vm), player)

\* A bad address clears what is known of the channel that goes on playing
startIptvChannelPlayback(v) ==
    \/ Becomes(Begins(clearCurrentPlayback(v), "iptv", Direct), player)
    \/ vm' = clearCurrentPlayback(v) /\ UNCHANGED player

\* The list of channels is on the player's page too
playIptvChannel ==
    /\ vm.view = "page" \/ (vm.view = "player" /\ vm.origin = "iptv")
    /\ startIptvChannelPlayback(vm)

openWebDavItem ==
    /\ vm.view = "page"
    /\ \/ vm.audio /\ Becomes(clearWebDavAudioPlayback(vm), player)      \* a directory
       \/ ~vm.late /\ Requests(vm) < MaxRequests /\ vm' = Prepares(vm, "webdav") /\ UNCHANGED player
       \/ Becomes(startWebDavVideoPlayback(OpensStream(vm), StreamOf(vm)), player)

startWebDavAudioPlayback ==
    /\ vm.view = "page"
    /\ LET v == playWebDavAudioTrack([vm EXCEPT !.audio = TRUE])
       IN  Becomes([v EXCEPT !.view = "player"], setAudioOnly(player, TRUE))

startWebDavHistoryPlayback(v) ==
    \/ ~v.late /\ Requests(v) < MaxRequests /\ vm' = Prepares(v, "history") /\ UNCHANGED player
    \/ \E audio \in BOOLEAN :
          Becomes(finishWebDavHistoryPlayback(OpensStream(v), StreamOf(v), audio), setAudioOnly(player, audio))

\* A preparation of the current generation is answered; the WebDAV service may have changed
Prepared ==
    LET v == [vm EXCEPT !.prepare = "none"]
        open == OpensSession(v)
        url == SessionOf(v)
    IN  /\ vm.prepare # "none"
        /\ \/ vm' = v /\ UNCHANGED player
           \/ vm.prepare = "local" /\ Becomes(finishLocalVideoPlayback(open, url), player)
           \/ vm.prepare = "webdav" /\ Becomes(startWebDavVideoPlayback(open, url), player)
           \/ /\ vm.prepare = "history"
              /\ \E audio \in BOOLEAN :
                    Becomes(finishWebDavHistoryPlayback(open, url, audio), setAudioOnly(player, audio))

\* MUTANT: the session of an older preparation is not revoked
LateForgotten(v) == OpensSession([v EXCEPT !.late = FALSE])

\* An older one: whatever it opened is revoked at once
LateAnswered(v) == [v EXCEPT !.late = FALSE]

PreparedLate == vm.late /\ vm' = LateAnswered(vm) /\ UNCHANGED player

\* Any way out of the page that clears it: Back, another page, closePlayerToDetails
closePlayerToDetails ==
    \E view \in {"page", "history"} :
        LET v == [clearCurrentPlayback(vm) EXCEPT !.view = view]
        IN  /\ view = "history" => vm.view = "page"
            /\ Becomes(IF view = "history" \/ vm.view = "history" THEN cancelPendingHistoryReplay(v) ELSE v,
                       player)

\* A page of a library that answers late takes the view, and clears nothing
PageAnswers == vm.origin = "server" /\ vm.view = "player" /\ Turns(setCurrentView(vm, "page"))

---------------------------------------------------------------------------
(* Media servers *)
playSelectedItem(v) ==
    [v EXCEPT !.foreground = TRUE,
              !.asks = @ \cup {IF v.view = "history" THEN "replay" ELSE "plain"}]

Ask ==
    /\ vm.view = "page" /\ "plain" \notin vm.asks /\ Requests(vm) < MaxRequests
    /\ vm' = playSelectedItem(vm) /\ UNCHANGED player

replayMediaServerHistory(v) ==
    /\ Requests(v) < MaxRequests
    /\ vm' = [v EXCEPT !.fetch = TRUE] /\ UNCHANGED player

playGlobalHistory ==
    LET v == cancelPendingHistoryReplay(vm)
    IN  /\ vm.view = "history"
        /\ \/ startLocalVideoPlayback(v)
           \/ Becomes(startLinkPlayback(v), player)
           \/ startIptvChannelPlayback(v)
           \/ startWebDavHistoryPlayback(v)
           \/ replayMediaServerHistory(v)

HistoryFetched ==
    LET v == [vm EXCEPT !.fetch = FALSE]
    IN  /\ vm.fetch
        /\ vm' \in {v, playSelectedItem(v)}
        /\ UNCHANGED player

\* The answer opens the player whatever is played by now; a stream it opens replaces the last one
PlaybackUrlAnswered ==
    \E ask \in vm.asks :
        LET v == [vm EXCEPT !.asks = @ \ {ask}]
            direct == [Begins(v, "server", Direct) EXCEPT !.foreground = vm.foreground]
            url == StreamOf(v)
            proxied == [Begins(v, "server", url) EXCEPT
                            !.foreground = vm.foreground,
                            !.streams = (@ \ {v.stream}) \cup {url.handle}]
        IN  \/ vm' = [v EXCEPT !.foreground = FALSE] /\ UNCHANGED player
            \/ ask # "outdated" /\ Becomes(direct, player)
            \/ ask # "outdated" /\ Becomes(proxied, player)

---------------------------------------------------------------------------
(* The audio queue *)

\* At the end of the queue the player closes, and audioOnly follows without a timer
advanceWebDavAudioPlayback(v, p) ==
    \/ Becomes(playWebDavAudioTrack(v), p)
    \/ \E able \in BOOLEAN :
          LET done == clearWebDavAudioPlayback(v)
          IN  /\ player' = setAudioOnly(setSource(p, FALSE, FALSE, FALSE, FALSE), FALSE)
              /\ vm' = [StateReported(done, FALSE, able) EXCEPT !.view = "page"]

skipWebDavAudioTrack ==
    vm.audio /\ Becomes(playWebDavAudioTrack(vm), player)

minimizeWebDavAudioPlayer ==
    vm.audio /\ vm.view = "player" /\ Turns(setCurrentView(vm, "page"))

restoreWebDavAudioPlayer ==
    vm.audio /\ Playing(vm) /\ vm.view # "player" /\ Turns(setCurrentView(vm, "player"))

---------------------------------------------------------------------------
(* The player speaks *)
processEvents ==
    /\ player.events # <<>>
    /\ \E queued, able \in BOOLEAN :
          LET event == Head(player.events)
              p == Handled([player EXCEPT !.events = Tail(@)], event, queued)
              heard == StateReported(vm, p.begun, able)
              ended == reportPlaybackEnded(heard)
          IN  CASE event = "reconfig" -> vm' = vm /\ player' = p
                [] event \in {"start", "loaded"} -> vm' = heard /\ player' = p
                [] event = "restart" -> vm' = reportPlaybackStarted(heard, able) /\ player' = p
                [] event = "stop" -> vm' = ended /\ player' = p
                [] event \in {"eof", "error"} ->
                      IF vm.audio THEN advanceWebDavAudioPlayback(ended, p)
                      ELSE vm' = ended /\ player' = p

\* "time-pos", "duration" and "pause", which libmpv tells when no event is queued
handlePropertyChange ==
    /\ player.mode # "none" /\ player.events = <<>>
    /\ \E able \in BOOLEAN :
          /\ player' = [player EXCEPT !.begun = @ \/ player.file = "playing"]
          /\ vm' = StateReported(vm, player'.begun, able)

\* Zero timers: audioOnly after clearCurrentPlayback, and what it deferred
audioOnlyChanged ==
    /\ player.audioOnly # vm.audio
    /\ \E able \in BOOLEAN :
          /\ player' = setAudioOnly(player, vm.audio)
          /\ vm' = IF player.source THEN StateReported(vm, FALSE, able) ELSE vm

PlayTimer ==
    /\ player.wake
    /\ \E queued, able \in BOOLEAN :
          LET p == [player EXCEPT !.wake = FALSE]
          IN  /\ player' = IF p.deferred THEN play(p, vm.view = "player", queued, queued) ELSE p
              /\ vm' = IF player' = p THEN vm ELSE StateReported(vm, player'.begun, able)

Next ==
    \/ openLocalMediaItem \/ playLink \/ playIptvChannel \/ playGlobalHistory
    \/ openWebDavItem \/ startWebDavAudioPlayback
    \/ Prepared \/ PreparedLate \/ closePlayerToDetails \/ PageAnswers
    \/ Ask \/ HistoryFetched \/ PlaybackUrlAnswered
    \/ skipWebDavAudioTrack \/ minimizeWebDavAudioPlayer \/ restoreWebDavAudioPlayer
    \/ processEvents \/ handlePropertyChange \/ audioOnlyChanged \/ PlayTimer
    \/ PlayerStep /\ UNCHANGED vm

Spec == Init /\ [][Next]_vars

---------------------------------------------------------------------------
(* Properties *)

\* Every record has its type.
TypeOK == player \in Player /\ vm \in Session

\* What is played is served: the stream or session in the address is one the proxies know; and
\* they know no other, so that whatever opened one, an answer that came too late included, has
\* seen to it that it is closed (AppViewModel.cpp:5053-5058, 5922-5928, 9316-9323).
PlayedIsServed ==
    /\ vm.url.kind = "stream" => vm.url.handle \in vm.streams
    /\ vm.url.kind = "session" => vm.url.handle \in vm.sessions
    /\ vm.streams = {vm.stream} \ {0}
    /\ vm.sessions = {vm.session} \ {0}

\* When nothing is played nothing is left of it: no record is open, no clock runs, no server
\* waits to hear of the end, no queue advances, and the foreground is claimed only for an answer
\* that is on its way (clearCurrentPlayback, AppViewModel.cpp:9292-9340).
NothingLeft ==
    /\ ~Playing(vm) =>
          /\ vm.origin = "none" /\ ~vm.record /\ ~vm.usage /\ ~vm.started /\ ~vm.audio
          /\ vm.foreground => vm.asks # {}
    /\ Playing(vm) => vm.origin # "none" /\ (vm.usage => vm.origin \notin {"local", "link"})

\* What the player page guarantees when handlers, events of libmpv and late answers mix: a playback
\* that has ended leaves nothing behind, and the spinner has an event that takes it away.
PlaybackInv == TypeOK /\ NothingLeft /\ SpinnerHonest
=============================================================================
