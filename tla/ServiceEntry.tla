--------------------------- MODULE ServiceEntry ---------------------------
(***************************************************************************)
(* How the application opens a service and fills its first page           *)
(* (AppViewModel.cpp): a card is selected, a worker prepares it while the *)
(* card grows to the size of the window, the result is committed behind   *)
(* that transition, and the home of a media server, the directory of a    *)
(* WebDAV service or the channels of a playlist appear.  Everything runs   *)
(* on the thread of the interface; what interleaves are the answers, the  *)
(* timers and the user.                                                    *)
(*                                                                         *)
(* A generation counter is compared with the value a callback captured,   *)
(* and only for equality: here a callback in flight has a mark, "live",   *)
(* that the increment of its counter takes away.                           *)
(***************************************************************************)
EXTENDS Naturals, FiniteSets

CONSTANTS
    MediaCards,     \* Emby and Jellyfin services
    EmbyCards,      \* those of them that are Emby
    DavCards,       \* WebDAV services
    PlaylistCards,  \* IPTV playlists
    None,
    MaxCopies       \* bound: equal requests in flight at a time

ASSUME CardsAssumption ==
    /\ EmbyCards \subseteq MediaCards
    /\ MediaCards \cap DavCards = {} /\ MediaCards \cap PlaylistCards = {} /\ DavCards \cap PlaylistCards = {}
    /\ None \notin MediaCards \union DavCards \union PlaylistCards
    /\ MaxCopies \in Nat \ {0}

Cards == MediaCards \union DavCards \union PlaylistCards
Pages == {"services", "settings", "transfers", "home", "library", "webdav", "iptv"}
Rails == {"libraries", "resume", "suggestions"}

VARIABLE vm
vars == <<vm>>

(***************************************************************************)
(* The fields of the view model.  "acts" are the activations on their way *)
(* (the feedback timer, the worker, the queued commit), "gate" the result  *)
(* that waits for the transition, "home" the callbacks of a home visit,    *)
(* "genres" the latest genre request, "lists" the directory listings.   *)
(* A rail is represented by the service whose data it shows.               *)
(***************************************************************************)
Act == [card: Cards, live: BOOLEAN, at: {"feedback", "worker", "commit"}, result: {"-", "ready", "ask", "error"}]
HomeCall == [op: Rails \union {"start"}, card: MediaCards, live: BOOLEAN, quiet: BOOLEAN, n: 1..MaxCopies]
ListCall == [card: DavCards, live: BOOLEAN]

\* What waits behind the gate is a commit, or nothing (m_pendingServiceActivationCommit)
ASSUME GateAssumption == None \notin Act

ViewModel ==
    [view: Pages, loading: BOOLEAN, pending: Cards \union {None},
     session: MediaCards \union {None}, dav: DavCards \union {None}, iptv: PlaylistCards \union {None},
     inFlight: BOOLEAN, moving: BOOLEAN, expanded: BOOLEAN, gate: Act \union {None}, acts: SUBSET Act,
     logins: SUBSET MediaCards,
     busy: Nat, initial: BOOLEAN, valid: BOOLEAN, home: SUBSET HomeCall,
     rails: [Rails -> MediaCards \union {None}], stamped: BOOLEAN, warm: BOOLEAN,
     refreshing: BOOLEAN, genresLoading: BOOLEAN, genres: {"none", "live", "stale"},
     lists: SUBSET ListCall, listing: DavCards \union {None}]

TypeOK == vm \in ViewModel

NoRails == [r \in Rails |-> None]

Init ==
    vm = [view |-> "services", loading |-> FALSE, pending |-> None,
          session |-> None, dav |-> None, iptv |-> None,
          inFlight |-> FALSE, moving |-> FALSE, expanded |-> TRUE, gate |-> None, acts |-> {},
          logins |-> {}, busy |-> 0, initial |-> FALSE, valid |-> FALSE, home |-> {},
          rails |-> NoRails, stamped |-> FALSE, warm |-> FALSE,
          refreshing |-> FALSE, genresLoading |-> FALSE, genres |-> "none", lists |-> {}, listing |-> None]

---------------------------------------------------------------------------
(* The counters: what was in flight when one is incremented is stale.  A    *)
(* stale callback changes nothing whenever it comes, so those of older      *)
(* values of a counter are forgotten, and of the home one is kept for all.  *)
Live(calls) == {c \in calls : c.live}
StaleActs(s) == {[a EXCEPT !.live = FALSE] : a \in Live(s.acts)}
StaleHome(s) ==
    {[(CHOOSE c \in Live(s.home) : c.op = op) EXCEPT !.live = FALSE, !.quiet = FALSE, !.n = 1] :
        op \in IF Live(s.home) = {} THEN {} ELSE {CHOOSE o \in {c.op : c \in Live(s.home)} : TRUE}}
StaleLists(s) == {[l EXCEPT !.live = FALSE] : l \in Live(s.lists)}
HomeIncremented(s) == [s EXCEPT !.home = StaleHome(s), !.genres = IF @ = "live" THEN "stale" ELSE @]

\* ++m_embyRecommendationGenreRequestId: the request in flight is no longer the latest
GenresForgotten(s) == [s EXCEPT !.genres = "none", !.genresLoading = FALSE]

invalidateServiceActivation(s) ==
    [s EXCEPT !.acts = StaleActs(s), !.inFlight = FALSE, !.moving = FALSE, !.expanded = TRUE,
              !.gate = None, !.pending = None, !.loading = IF s.view = "services" THEN FALSE ELSE @]

invalidateHomeLoading(s) ==
    [GenresForgotten(HomeIncremented(s)) EXCEPT !.warm = FALSE, !.refreshing = FALSE, !.busy = 0]

resetEmbyRecommendationRuntimeState(s) == [GenresForgotten(s) EXCEPT !.refreshing = FALSE]

clearWebDavState(s) ==
    IF s.dav = None /\ s.listing = None THEN s
    ELSE [s EXCEPT !.lists = StaleLists(s), !.dav = None, !.listing = None]

---------------------------------------------------------------------------
(* Pages *)
reuseCachedHomeData(s) ==
    s.session # None /\ s.view = "home" /\ s.stamped /\ s.busy = 0 /\ \E r \in Rails : s.rails[r] # None

enterHomeWithCachedData(s) ==
    IF reuseCachedHomeData(s)
    THEN [s EXCEPT !.initial = FALSE, !.valid = FALSE, !.loading = FALSE, !.warm = TRUE]
    ELSE s

LeavesServices(s, view) ==
    IF /\ s.view = "services" /\ view # "services"
       /\ s.inFlight \/ s.moving \/ s.gate # None \/ s.initial
    THEN invalidateServiceActivation(s) ELSE s

LeavesHome(s, view) ==
    IF view = "home" THEN s
    ELSE [(IF s.view = "home" \/ s.busy > 0
           THEN [invalidateHomeLoading(s) EXCEPT !.loading = FALSE] ELSE s) EXCEPT !.initial = FALSE]

setCurrentView(s, view) ==
    IF s.view = view THEN s
    ELSE LET left == [LeavesHome(LeavesServices(s, view), view) EXCEPT !.view = view]
         IN  IF view = "home" THEN enterHomeWithCachedData(left) ELSE left

\* What backToServices and the pages of WebDAV and IPTV share: nothing of a media server stays
NoMediaServer(s) == [resetEmbyRecommendationRuntimeState(s) EXCEPT !.session = None, !.rails = NoRails]

backToServices(s) ==
    LET quiet == [invalidateHomeLoading(invalidateServiceActivation(s))
                    EXCEPT !.loading = FALSE, !.initial = FALSE, !.valid = FALSE, !.pending = None, !.iptv = None]
    IN  setCurrentView(NoMediaServer(clearWebDavState(quiet)), "services")

backToHome(s) ==
    CASE s.dav # None  -> IF s.view = "webdav" THEN backToServices(s) ELSE setCurrentView(s, "webdav")
      [] s.dav = None /\ s.iptv # None -> IF s.view = "iptv" THEN backToServices(s) ELSE setCurrentView(s, "iptv")
      [] s.dav = None /\ s.iptv = None -> setCurrentView(s, IF s.session # None THEN "home" ELSE "services")

---------------------------------------------------------------------------
(* The home of a media server: a counter of visible requests, and what the *)
(* first visit waits for                                                   *)
beginHomeLoading(s) == [s EXCEPT !.busy = @ + 1]

failInitialServiceLoad(s) ==
    IF ~s.initial \/ s.session = None THEN s
    ELSE backToServices(invalidateHomeLoading([s EXCEPT !.initial = FALSE, !.valid = FALSE]))

completeInitialServiceLoad(s) ==
    IF ~s.initial \/ (~s.valid /\ s.busy > 0) THEN s
    ELSE IF ~s.valid THEN failInitialServiceLoad(s)
    ELSE IF s.session = None \/ s.view \notin {"services", "home"} THEN [s EXCEPT !.initial = FALSE]
    ELSE setCurrentView([s EXCEPT !.initial = FALSE, !.busy = 0, !.loading = FALSE], "home")

endHomeLoading(s) ==
    IF s.busy = 0 THEN s
    ELSE LET fewer == [s EXCEPT !.busy = @ - 1]
         IN  IF fewer.initial /\ (fewer.valid \/ fewer.busy = 0) THEN completeInitialServiceLoad(fewer) ELSE fewer

\* A request of the home, with the generation and the service it belongs to
Same(s, op, quiet) == {c \in s.home : c.op = op /\ c.card = s.session /\ c.live /\ c.quiet = quiet}
FreeCopies(s, op, quiet) == (1..MaxCopies) \ {c.n : c \in Same(s, op, quiet)}
Asked(s, op, quiet) ==
    [s EXCEPT !.home = @ \union {[op |-> op, card |-> s.session, live |-> TRUE, quiet |-> quiet,
                                  n |-> CHOOSE n \in FreeCopies(s, op, quiet) :
                                            \A k \in FreeCopies(s, op, quiet) : n <= k]}]
Visible(s, quiet) == IF quiet THEN s ELSE beginHomeLoading(s)

refreshLibraries(s, quiet) ==
    Asked(IF quiet THEN s ELSE [beginHomeLoading(s) EXCEPT !.loading = TRUE], "libraries", quiet)

refreshContinueWatching(s, quiet) == Asked(Visible(s, quiet), "resume", quiet)

refreshEmbyRecommendationGenres(s) ==
    IF s.session \notin EmbyCards \/ s.genresLoading THEN s
    ELSE [s EXCEPT !.genres = "live", !.genresLoading = TRUE]

\* The table of cached suggestions: nothing of use, those of an earlier day, those of today
Cached(card) == [age: IF card \in EmbyCards THEN {"none", "stale", "today"} ELSE {"none"},
                 genresMissing: IF card \in EmbyCards THEN BOOLEAN ELSE {FALSE}]

ShowCached(s, cached) ==
    IF cached.age = "none" THEN s
    ELSE [s EXCEPT !.rails["suggestions"] = s.session, !.valid = @ \/ s.initial]

AskSuggestions(s, quiet) ==
    Asked(IF s.session \in EmbyCards
          THEN [refreshEmbyRecommendationGenres(Visible(s, quiet)) EXCEPT !.refreshing = TRUE]
          ELSE Visible(s, quiet), "suggestions", quiet)

refreshRecommendations(s, force, quiet, cached) ==
    IF s.session = None THEN [s EXCEPT !.rails["suggestions"] = None]
    ELSE IF s.session \in EmbyCards /\ s.refreshing THEN s
    ELSE LET shown == ShowCached(s, cached)
             released(t, may) == IF t.initial /\ t.valid /\ may THEN completeInitialServiceLoad(t) ELSE t
         IN  IF cached.age = "today" /\ ~force
             THEN released(IF cached.genresMissing THEN refreshEmbyRecommendationGenres(shown) ELSE shown, TRUE)
             ELSE released(AskSuggestions(shown, quiet), ~quiet)

refreshHome(s, quiet, cached) ==
    IF s.session = None THEN s
    ELSE refreshRecommendations(
            refreshContinueWatching(refreshLibraries([s EXCEPT !.stamped = TRUE], quiet), quiet),
            FALSE, quiet, cached)

loadServiceHome(s) ==
    LET clean == resetEmbyRecommendationRuntimeState(invalidateHomeLoading(s))
    IN  IF s.session = None
        THEN setCurrentView([clean EXCEPT !.initial = FALSE, !.valid = FALSE], "services")
        ELSE LET shown == setCurrentView([beginHomeLoading([clean EXCEPT !.iptv = None]) EXCEPT !.loading = TRUE], "home")
             IN  Asked([shown EXCEPT !.initial = TRUE, !.valid = FALSE], "start", FALSE)

---------------------------------------------------------------------------
(* The pages of the other services *)
applyIptvService(s, card) == setCurrentView([NoMediaServer(s) EXCEPT !.iptv = card], "iptv")

loadWebDavDirectory(s) ==
    IF s.dav = None THEN s
    ELSE [s EXCEPT !.lists = StaleLists(s) \union {[card |-> s.dav, live |-> TRUE]}, !.loading = TRUE]

loadWebDavService(s, card) ==
    loadWebDavDirectory(setCurrentView([NoMediaServer(s) EXCEPT !.iptv = None, !.dav = card], "webdav"))

---------------------------------------------------------------------------
(* Activation: the feedback timer, the worker, the gate, the queued commit *)
SelectServiceCard(card) ==
    /\ vm.view = "services" /\ ~vm.loading
    /\ \E transitions \in BOOLEAN :
          vm' = [vm EXCEPT
                    !.acts = StaleActs(vm) \union {[card |-> card, live |-> TRUE, at |-> "feedback", result |-> "-"]},
                    !.inFlight = TRUE, !.gate = None, !.moving = transitions, !.expanded = ~transitions,
                    !.pending = card, !.loading = TRUE]

\* The guard every stage of an activation repeats
Wanted(s, a) == a.live /\ s.view = "services" /\ s.pending = a.card

Dropped(s, a) == IF a.live /\ s.inFlight THEN invalidateServiceActivation(s) ELSE s

\* prepareServiceActivation: a session, a password or a playlist; a password to ask for; an error
Results(card) == IF card \in PlaylistCards THEN {"ready", "error"} ELSE {"ready", "ask", "error"}

FeedbackShown(a) ==
    /\ a \in vm.acts /\ a.at = "feedback"
    /\ LET rest == [vm EXCEPT !.acts = @ \ {a}]
       IN  vm' = IF Wanted(vm, a) THEN [rest EXCEPT !.acts = @ \union {[a EXCEPT !.at = "worker"]}] ELSE Dropped(rest, a)

Prepared(a) ==
    /\ a \in vm.acts /\ a.at = "worker"
    /\ \E result \in Results(a.card) :
          LET rest == [vm EXCEPT !.acts = @ \ {a}]
              commit == [a EXCEPT !.at = "commit", !.result = result]
          IN  vm' = IF ~Wanted(vm, a) THEN Dropped(rest, a)
                    ELSE IF vm.moving /\ ~vm.expanded THEN [rest EXCEPT !.gate = commit]
                    ELSE [rest EXCEPT !.acts = @ \union {commit}]

\* MUTANT: the gate opens and what waited behind it is forgotten
ExpandedForgets ==
    /\ vm.moving /\ (~vm.expanded \/ vm.gate # None)
    /\ vm' = [vm EXCEPT !.expanded = TRUE, !.gate = None]

\* The end of the geometry animation, or the fallback timer of the card
ServiceCardTransitionExpanded ==
    /\ vm.moving /\ (~vm.expanded \/ vm.gate # None)
    /\ vm' = [vm EXCEPT !.expanded = TRUE, !.gate = None, !.acts = @ \union ({vm.gate} \ {None})]

ServiceCardTransitionAborted ==
    /\ vm.inFlight \/ vm.moving \/ vm.gate # None
    /\ vm' = invalidateServiceActivation(vm)

Opened(s, a) ==
    CASE a.result = "error" -> [s EXCEPT !.loading = FALSE]
      [] a.result = "ask" -> [s EXCEPT !.loading = FALSE]
      [] a.result = "ready" /\ a.card \in PlaylistCards -> [applyIptvService(s, a.card) EXCEPT !.loading = FALSE]
      [] a.result = "ready" /\ a.card \in DavCards -> loadWebDavService(s, a.card)
      [] a.result = "ready" /\ a.card \in MediaCards -> loadServiceHome([s EXCEPT !.session = a.card])

Commit(a) ==
    /\ a \in vm.acts /\ a.at = "commit"
    /\ LET rest == [vm EXCEPT !.acts = @ \ {a}]
       IN  vm' = IF Wanted(vm, a)
                 THEN Opened([rest EXCEPT !.inFlight = FALSE, !.moving = FALSE, !.expanded = TRUE], a)
                 ELSE Dropped(rest, a)

\* The editor of a card, which may replace or clear the pending one
EditServiceCard(card) == /\ vm.view = "services" /\ vm.pending # card
                         /\ vm' = [vm EXCEPT !.pending = card]

BeginAddServiceCard == vm.view = "services" /\ vm.pending # None /\ vm' = [vm EXCEPT !.pending = None]

---------------------------------------------------------------------------
(* Signing in with a password *)
LoginSelectedService ==
    /\ vm.view = "services" /\ vm.pending # None /\ ~vm.loading
    /\ vm.pending \in MediaCards => vm.logins = {}     \* bound: one at a time
    /\ vm' = CASE vm.pending \in PlaylistCards -> applyIptvService(vm, vm.pending)
               [] vm.pending \in DavCards -> loadWebDavService(vm, vm.pending)
               [] vm.pending \in MediaCards -> [vm EXCEPT !.loading = TRUE, !.logins = @ \union {vm.pending}]

LoginAnswered(card) ==
    /\ card \in vm.logins
    /\ LET rest == [vm EXCEPT !.logins = @ \ {card}, !.loading = FALSE]
       IN  vm' \in {rest, loadServiceHome([rest EXCEPT !.session = card])}

---------------------------------------------------------------------------
(* Answers of the home *)
Answer == {"error", "empty", "items"}
Shown(s, c, answer) == [s EXCEPT !.rails[c.op] = IF answer = "items" THEN c.card ELSE None]
Useful(s, c, answer) == [s EXCEPT !.valid = @ \/ (s.initial /\ ~c.quiet /\ answer = "items")]
Ended(s, c) == IF c.quiet THEN s ELSE endHomeLoading(s)

\* Bound: a visible request that is already out MaxCopies times is not repeated
Refreshable(s) == \A op \in Rails : FreeCopies(s, op, FALSE) # {}

LibrariesAnswered(s, c, answer) ==
    LET ended == Ended(IF answer = "error" THEN s ELSE Shown(Useful(s, c, answer), c, answer), c)
        waits == IF answer = "error" THEN s.initial ELSE ended.initial
    IN  IF c.quiet \/ waits THEN ended ELSE [ended EXCEPT !.loading = FALSE]

ResumeAnswered(s, c, answer) ==
    Ended(IF answer = "error" THEN s ELSE Shown(Useful(s, c, answer), c, answer), c)

SuggestionsAnswered(s, c, answer) ==
    LET free == IF c.card \in EmbyCards THEN [s EXCEPT !.refreshing = FALSE] ELSE s
        failed == IF c.card \in EmbyCards \/ c.quiet THEN free ELSE Shown(free, c, "empty")
    IN  Ended(IF answer = "error" THEN failed ELSE Shown(Useful(free, c, answer), c, answer), c)

\* MUTANT: an answer is taken for whatever is shown by then
AnyVisit(s, c) == IF s.session = None THEN "other" ELSE "current"

\* The generation of the visit comes first, then the service of the session
Standing(s, c) == CASE ~c.live -> "stale" [] c.live /\ s.session # c.card -> "other" [] OTHER -> "current"

HomeAnswered(c) ==
    /\ c \in vm.home /\ c.op # "start"
    /\ \E answer \in Answer :
          LET rest == [vm EXCEPT !.home = @ \ {c}]
          IN  vm' = CASE Standing(vm, c) = "stale" -> rest
                      [] Standing(vm, c) = "other" -> Ended(rest, c)
                      [] Standing(vm, c) = "current" ->
                            CASE c.op = "libraries" -> LibrariesAnswered(rest, c, answer)
                              [] c.op = "resume" -> ResumeAnswered(rest, c, answer)
                              [] c.op = "suggestions" -> SuggestionsAnswered(rest, c, answer)

\* The frame after the page appeared: the fan-out, then the reserved request
HomeStarted(c) ==
    /\ c \in vm.home /\ c.op = "start" /\ Refreshable(vm)
    /\ LET rest == [vm EXCEPT !.home = @ \ {c}]
       IN  IF Standing(vm, c) = "current" /\ vm.initial
           THEN \E cached \in Cached(rest.session) : vm' = endHomeLoading(refreshHome(rest, FALSE, cached))
           ELSE vm' = rest

\* The latest genre request clears its flag, whatever visit it belongs to
GenresAnswered ==
    /\ vm.genres # "none"
    /\ vm' = [vm EXCEPT !.genres = "none", !.genresLoading = FALSE]

\* m_homeCacheWarmTimer: revalidates the cached home, unless a request owns a counter or a flag
BackgroundRefreshHome ==
    /\ vm.warm
    /\ vm.session # None /\ vm.view = "home" => ~(vm.busy > 0 \/ vm.refreshing)
    /\ \E cached \in Cached(vm.session) :
          vm' = IF vm.session # None /\ vm.view = "home"
                THEN refreshHome([HomeIncremented(vm) EXCEPT !.warm = FALSE], TRUE, cached)
                ELSE [vm EXCEPT !.warm = FALSE]

---------------------------------------------------------------------------
(* The directory of a WebDAV service *)
DirectoryListed(l) ==
    /\ l \in vm.lists
    /\ LET rest == [vm EXCEPT !.lists = @ \ {l}]
       IN  IF ~l.live \/ vm.dav # l.card THEN vm' = rest
           ELSE \/ vm' = [rest EXCEPT !.loading = FALSE]
                \/ vm' = setCurrentView([rest EXCEPT !.loading = FALSE, !.listing = l.card], "webdav")

\* A folder of the page, which is disabled while something loads
OpenWebDavFolder == /\ vm.view = "webdav" /\ ~vm.loading /\ vm.listing # None
                    /\ vm' = loadWebDavDirectory(vm)

\* Also after an upload ended, on the page of the transfers
RefreshWebDavDirectory == /\ vm.view \in {"webdav", "transfers"} /\ vm.listing # None
                          /\ vm' = loadWebDavDirectory(vm)

WebDavBack == vm.view = "webdav" /\ vm' \in {backToServices(vm), loadWebDavDirectory(vm)}

---------------------------------------------------------------------------
(* What the user may do on each page *)
RefreshHome ==
    /\ vm.view = "home" /\ ~vm.loading /\ Refreshable(vm)
    /\ \E cached \in Cached(vm.session) : vm' = refreshHome(vm, FALSE, cached)

RefreshEmbyRecommendations ==
    /\ vm.view = "settings" /\ vm.session \in EmbyCards /\ ~vm.refreshing /\ Refreshable(vm)
    /\ \E cached \in Cached(vm.session) : vm' = refreshRecommendations(vm, TRUE, FALSE, cached)

\* The settings look up the genres of the current server when none is known
OpenSettings ==
    /\ vm.view # "settings"
    /\ LET opened == setCurrentView(vm, "settings")
       IN  vm' \in {opened, refreshEmbyRecommendationGenres(opened)}

\* A library of the home, and from there the way back (the pages below are in MediaLibrary)
OpenLibrary == /\ vm.view = "home" /\ vm.rails["libraries"] # None
               /\ vm' = setCurrentView([vm EXCEPT !.warm = FALSE], "library")

OpenTransfers == vm.view = "webdav" /\ vm' = setCurrentView(vm, "transfers")

BackToServices == vm.view \in {"settings", "home"} /\ vm' = backToServices(vm)

\* By then the cache of the home may have expired (homeCacheFreshMs)
BackToHome ==
    /\ vm.view \in {"transfers", "iptv", "library"}
    /\ \E fresh \in BOOLEAN : vm' = backToHome([vm EXCEPT !.stamped = @ /\ fresh])

---------------------------------------------------------------------------
Callback ==
    \/ \E a \in vm.acts : FeedbackShown(a) \/ Prepared(a) \/ Commit(a)
    \/ \E card \in vm.logins : LoginAnswered(card)
    \/ \E c \in vm.home : HomeStarted(c) \/ HomeAnswered(c)
    \/ GenresAnswered
    \/ \E l \in vm.lists : DirectoryListed(l)
    \/ ServiceCardTransitionExpanded
    \/ BackgroundRefreshHome

User ==
    \/ \E card \in Cards : SelectServiceCard(card) \/ EditServiceCard(card)
    \/ BeginAddServiceCard \/ LoginSelectedService \/ ServiceCardTransitionAborted
    \/ OpenWebDavFolder \/ RefreshWebDavDirectory \/ WebDavBack
    \/ RefreshHome \/ RefreshEmbyRecommendations
    \/ OpenSettings \/ OpenLibrary \/ OpenTransfers \/ BackToServices \/ BackToHome

Next == Callback \/ User

Spec == Init /\ [][Next]_vars

---------------------------------------------------------------------------
(* Properties *)

\* An answer that fills a rail belongs to the service of the session: what was asked on an
\* earlier visit, of this service or another, fills nothing (the captured generation and
\* server, AppViewModel.cpp:8620-8628, 8720-8728, 8828-8836).
FillsOwnSessionOnly ==
    [][\A r \in Rails : vm'.rails[r] # vm.rails[r] => vm'.rails[r] \in {None, vm'.session}]_vars

\* The counter behind the spinner of the home never exceeds the visible requests that will
\* still decrement it: no visit inherits a count that nobody takes back, and none waits for
\* ever (the comment at AppViewModel.cpp:10301-10305).
SpinnerHasOwners == vm.busy <= Cardinality({c \in vm.home : c.live /\ ~c.quiet})

\* The flags that keep a second refresh of the suggestions or of the genres away always have
\* a request in flight that clears them, however the visit that set them ended.
FlagsHaveOwners ==
    /\ vm.refreshing => \E c \in vm.home : c.op = "suggestions" /\ c.live
    /\ vm.genresLoading => vm.genres # "none"

\* A service is only entered when it is the card the user has chosen by then: selecting
\* another card, editing one or leaving the page overtakes a commit on its way; a media
\* server may also be entered by its password.
EntersWhatIsChosen ==
    [][/\ vm'.dav \notin {vm.dav, None} => vm'.dav = vm.pending
       /\ vm'.iptv \notin {vm.iptv, None} => vm'.iptv = vm.pending
       /\ vm'.session \notin {vm.session, None} => vm'.session = vm.pending \/ vm'.session \in vm.logins]_vars

\* The global loading state, behind which most of the interface is disabled, and the opening
\* of a card always have a callback in flight, or behind the gate of a growing card, that ends
\* them, whatever page the user went to in the meantime (the comment at
\* AppViewModel.cpp:11213-11217).
LoadingHasOwners ==
    /\ vm.loading => \/ Live(vm.acts) # {} \/ vm.gate # None \/ vm.logins # {} \/ Live(vm.lists) # {}
                     \/ \E c \in Live(vm.home) : ~c.quiet /\ (c.op \in {"start", "libraries"} \/ vm.initial)
    /\ vm.inFlight => Live(vm.acts) # {} \/ (vm.gate # None /\ vm.moving)

\* What the way into a service guarantees at every moment: the counter of the home, the flags of its
\* two guarded requests and the global loading state all have a callback that will take them back,
\* though every visit, activation and login can be overtaken by the next (AppViewModel.cpp:10299-10351, 11208-11235).
EntryInv == TypeOK /\ SpinnerHasOwners /\ FlagsHaveOwners /\ LoadingHasOwners

\* The user gets what the user chose: a service is entered only when its card is the chosen one, and
\* no rail of the home is filled with another service's answer (AppViewModel.cpp:4618-4736, 8620-8628).
RightServiceOnly == FillsOwnSessionOnly /\ EntersWhatIsChosen
=============================================================================
