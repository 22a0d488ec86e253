---------------------------- MODULE BrowsingProofs ----------------------------
(***************************************************************************)
(* Proofs about the way into a service (ServiceEntry) and the pages of a   *)
(* media server's library (MediaLibrary), for every set of cards, folders, *)
(* titles, seasons and terms, and every bound on pages and requests.       *)
(*                                                                         *)
(* Both keep their state in one record that the helpers of the view model  *)
(* change a few fields at a time.  The invariants are conjunctions of      *)
(* parts that read few fields, and a lemma per part says that it is kept   *)
(* when those are.  Most lemmas are about one helper: from a record that   *)
(* is good the helper makes one that is, and touches nothing else.         *)
(***************************************************************************)
EXTENDS MCBrowsing, FiniteSetTheorems, SequenceTheorems, WellFoundedInduction, TLAPS

-----------------------------------------------------------------------------
(* The way into a service *)

\* The visible requests of the home that are on their way, and those of them that
\* will take one from the counter of the spinner.
Owners(s) == {c \in s.home : c.live /\ ~c.quiet}
Counted(s) == {c \in Owners(s) : s.initial \/ c.op # "start"}

\* The opening of a card has one callback, which is on its way or behind the gate.
ActsFit(s) ==
    /\ s.gate # None => s.gate.live /\ s.moving /\ Live(s.acts) = {}
    /\ \A a, b \in Live(s.acts) : a = b
    /\ s.inFlight <=> (Live(s.acts) # {} \/ s.gate # None)

StaysHere(s) == s.inFlight => s.view = "services"

ResultsFit(s) ==
    /\ \A a \in s.acts : a.at = "commit" => a.result \in Results(a.card)
    /\ s.gate # None => s.gate.at = "commit" /\ s.gate.result \in Results(s.gate.card)

ListsFit(s) == \A l \in Live(s.lists) : l.card = s.dav

\* "k" visible requests were counted that are not on their way, yet or any longer.
HomeFits(s, k) ==
    /\ IsFiniteSet(s.home)
    /\ \A c \in Live(s.home) : c.card = s.session
    /\ s.view = "services" => Live(s.home) = {}
    /\ s.initial => s.session # None /\ s.view = "home" /\ ~s.warm
    /\ s.busy <= Cardinality(Counted(s)) + k
    /\ s.warm \/ s.view # "home" => Cardinality(Owners(s)) + k <= s.busy
    /\ s.genresLoading => s.genres # "none"

BusyFits(s) == s.initial => s.busy > 0

RefreshFits(s) ==
    s.refreshing => s.session \in EmbyCards /\ \E c \in s.home : c.op = "suggestions" /\ c.live

LoadingFits(s) ==
    s.loading => \/ s.inFlight \/ s.logins # {} \/ Live(s.lists) # {} \/ s.initial
                 \/ \E c \in Owners(s) : c.op = "libraries"

Core(s, k) ==
    /\ s \in ViewModel /\ ActsFit(s) /\ StaysHere(s) /\ ResultsFit(s) /\ ListsFit(s)
    /\ HomeFits(s, k) /\ BusyFits(s) /\ RefreshFits(s)

EntryGood(s) == Core(s, 0) /\ LoadingFits(s)

\* Nothing of the home is on its way.
HomeQuiet(s) ==
    /\ IsFiniteSet(s.home) /\ Live(s.home) = {} /\ s.busy = 0 /\ ~s.warm /\ ~s.refreshing /\ ~s.genresLoading /\ ~s.initial

-----------------------------------------------------------------------------
(* The fields that a part of the invariant speaks of *)

SameActs(s, t) == t.view = s.view /\ t.inFlight = s.inFlight /\ t.moving = s.moving /\ t.gate = s.gate /\ t.acts = s.acts
SameLists(s, t) == t.lists = s.lists /\ t.dav = s.dav
SameHome(s, t) ==
    /\ t.view = s.view /\ t.session = s.session /\ t.busy = s.busy /\ t.initial = s.initial /\ t.home = s.home
    /\ t.warm = s.warm /\ t.refreshing = s.refreshing /\ t.genres = s.genres /\ t.genresLoading = s.genresLoading

LEMMA ActsKept ==
    ASSUME NEW s, NEW t, SameActs(s, t)
    PROVE  /\ ActsFit(s) => ActsFit(t)
           /\ StaysHere(s) => StaysHere(t)
           /\ ResultsFit(s) => ResultsFit(t)
BY DEF SameActs, ActsFit, StaysHere, ResultsFit

LEMMA ListsKept == ASSUME NEW s, NEW t, SameLists(s, t), ListsFit(s) PROVE ListsFit(t)
BY DEF SameLists, ListsFit

LEMMA HomeKept ==
    ASSUME NEW s, NEW t, SameHome(s, t)
    PROVE  /\ \A k : HomeFits(s, k) => HomeFits(t, k)
           /\ BusyFits(s) => BusyFits(t)
           /\ RefreshFits(s) => RefreshFits(t)
           /\ HomeQuiet(s) => HomeQuiet(t)
BY DEF SameHome, HomeFits, BusyFits, RefreshFits, HomeQuiet, Owners, Counted

LEMMA CoreKept ==
    ASSUME NEW s, NEW k, Core(s, k), NEW t \in ViewModel, SameActs(s, t), SameLists(s, t), SameHome(s, t)
    PROVE  Core(t, k)
BY ActsKept, ListsKept, HomeKept DEF Core

LEMMA QuietFits == ASSUME NEW s, HomeQuiet(s), s.busy \in Nat PROVE HomeFits(s, 0) /\ BusyFits(s) /\ RefreshFits(s)
<1>1. Owners(s) = {} /\ Counted(s) = {}
  BY DEF HomeQuiet, Owners, Counted, Live
<1>2. Cardinality(Owners(s)) = 0 /\ Cardinality(Counted(s)) = 0
  BY <1>1, FS_EmptySet
<1>. QED  BY <1>2 DEF HomeQuiet, HomeFits, BusyFits, RefreshFits

LEMMA VmFields ==
    ASSUME NEW s \in ViewModel
    PROVE  /\ s.view \in Pages /\ s.loading \in BOOLEAN /\ s.inFlight \in BOOLEAN /\ s.moving \in BOOLEAN
           /\ s.gate \in Act \union {None} /\ s.acts \in SUBSET Act /\ s.logins \in SUBSET MediaCards
           /\ s.busy \in Nat /\ s.initial \in BOOLEAN /\ s.valid \in BOOLEAN /\ s.home \in SUBSET HomeCall
           /\ s.rails \in [Rails -> MediaCards \union {None}] /\ s.warm \in BOOLEAN /\ s.refreshing \in BOOLEAN
           /\ s.genresLoading \in BOOLEAN /\ s.genres \in {"none", "live", "stale"}
           /\ s.lists \in SUBSET ListCall /\ s.session \in MediaCards \union {None}
           /\ s.dav \in DavCards \union {None} /\ s.iptv \in PlaylistCards \union {None}
           /\ s.pending \in Cards \union {None} /\ s.listing \in DavCards \union {None}
BY DEF ViewModel

-----------------------------------------------------------------------------
(* The counters *)

LEMMA StaleIs ==
    ASSUME NEW s \in ViewModel
    PROVE  /\ StaleActs(s) \in SUBSET Act /\ Live(StaleActs(s)) = {}
           /\ StaleLists(s) \in SUBSET ListCall /\ Live(StaleLists(s)) = {}
<1>0. Live(s.acts) \subseteq Act /\ Live(s.lists) \subseteq ListCall
  BY VmFields DEF Live
<1>1. \A a \in Act : [a EXCEPT !.live = FALSE] \in Act /\ ~[a EXCEPT !.live = FALSE].live
  BY DEF Act
<1>2. \A l \in ListCall : [l EXCEPT !.live = FALSE] \in ListCall /\ ~[l EXCEPT !.live = FALSE].live
  BY DEF ListCall
<1>3. StaleActs(s) \in SUBSET Act /\ Live(StaleActs(s)) = {}
  BY <1>0, <1>1 DEF StaleActs, Live
<1>4. StaleLists(s) \in SUBSET ListCall /\ Live(StaleLists(s)) = {}
  BY <1>0, <1>2 DEF StaleLists, Live
<1>. QED  BY <1>3, <1>4

LEMMA StaleResults ==
    ASSUME NEW s \in ViewModel, ResultsFit(s)
    PROVE  \A a \in StaleActs(s) : a.at = "commit" => a.result \in Results(a.card)
<1>. SUFFICES ASSUME NEW a \in Live(s.acts), NEW b, b = [a EXCEPT !.live = FALSE], b.at = "commit"
     PROVE  b.result \in Results(b.card)
  BY DEF StaleActs
<1>1. a \in Act /\ a \in s.acts
  BY VmFields DEF Live
<1>2. b.at = a.at /\ b.result = a.result /\ b.card = a.card
  BY <1>1 DEF Act
<1>. QED  BY <1>1, <1>2 DEF ResultsFit

LEMMA StaleHomeIs ==
    ASSUME NEW s \in ViewModel
    PROVE  StaleHome(s) \in SUBSET HomeCall /\ Live(StaleHome(s)) = {} /\ IsFiniteSet(StaleHome(s))
<1>1. CASE Live(s.home) = {}
  <2>1. StaleHome(s) = {}
    BY <1>1 DEF StaleHome
  <2>. QED  BY <2>1, FS_EmptySet DEF Live
<1>2. CASE Live(s.home) # {}
  <2> DEFINE op == CHOOSE o \in {c.op : c \in Live(s.home)} : TRUE
             c == CHOOSE d \in Live(s.home) : d.op = op
             one == 1
             stale == [c EXCEPT !.live = FALSE, !.quiet = FALSE, !.n = one]
  <2>1. op \in {d.op : d \in Live(s.home)}
    BY <1>2
  <2> DEFINE staleOf(o) == [(CHOOSE d \in Live(s.home) : d.op = o) EXCEPT !.live = FALSE, !.quiet = FALSE, !.n = 1]
             ops == IF Live(s.home) = {} THEN {} ELSE {CHOOSE o \in {d.op : d \in Live(s.home)} : TRUE}
  <2>2. StaleHome(s) = {stale}
    <3>1. ops = {op}
      BY <1>2
    <3>2. StaleHome(s) = {staleOf(o) : o \in ops}
      BY DEF StaleHome
    <3>3. staleOf(op) = stale
      OBVIOUS
    <3>. HIDE DEF staleOf, ops, stale, op
    <3>. QED  BY <3>1, <3>2, <3>3
  <2>. HIDE DEF op
  <2>3. c \in Live(s.home)
    BY <2>1
  <2>4. c \in HomeCall /\ one \in 1..MaxCopies
    BY <2>3, VmFields, CardsAssumption DEF Live
  <2>. HIDE DEF c, one
  <2>5. stale \in HomeCall /\ ~stale.live
    BY <2>4 DEF HomeCall
  <2>. HIDE DEF stale
  <2>. QED  BY <2>2, <2>5, FS_Singleton DEF Live
<1>. QED  BY <1>1, <1>2

-----------------------------------------------------------------------------
(* What the helpers do to the record *)

SameService(s, t) == t.rails = s.rails /\ t.dav = s.dav /\ t.iptv = s.iptv /\ t.session = s.session
SameChoice(s, t) == t.pending = s.pending /\ t.logins = s.logins /\ t.valid = s.valid /\ t.listing = s.listing

LEMMA InvalidatedIs ==
    ASSUME NEW s \in ViewModel
    PROVE  LET t == invalidateServiceActivation(s)
           IN  /\ t \in ViewModel
               /\ t.acts = StaleActs(s) /\ ~t.inFlight /\ t.gate = None
               /\ t.loading = (IF s.view = "services" THEN FALSE ELSE s.loading)
               /\ SameHome(s, t) /\ SameLists(s, t) /\ SameService(s, t) /\ t.logins = s.logins /\ t.listing = s.listing
<1> DEFINE loading == IF s.view = "services" THEN FALSE ELSE s.loading
           acts == StaleActs(s)
           t == invalidateServiceActivation(s)
<1>1. t = [s EXCEPT !.acts = acts, !.inFlight = FALSE, !.moving = FALSE, !.expanded = TRUE,
                    !.gate = None, !.pending = None, !.loading = loading]
  BY DEF invalidateServiceActivation, ViewModel
<1>2. acts \in SUBSET Act /\ loading \in BOOLEAN
  BY StaleIs, VmFields
<1>. HIDE DEF acts, loading, t
<1>3. t \in ViewModel
  BY <1>1, <1>2 DEF ViewModel
<1>4. /\ t.acts = acts /\ ~t.inFlight /\ t.gate = None /\ t.loading = loading
      /\ SameHome(s, t) /\ SameLists(s, t) /\ SameService(s, t) /\ t.logins = s.logins /\ t.listing = s.listing
  BY <1>1 DEF ViewModel, SameHome, SameLists, SameService
<1>. QED  BY <1>3, <1>4 DEF t, acts, loading

LEMMA HomeInvalidatedIs ==
    ASSUME NEW s \in ViewModel
    PROVE  LET t == invalidateHomeLoading(s)
           IN  /\ t \in ViewModel
               /\ IsFiniteSet(t.home) /\ Live(t.home) = {} /\ t.busy = 0 /\ ~t.warm /\ ~t.refreshing /\ ~t.genresLoading
               /\ t.view = s.view /\ t.initial = s.initial /\ t.loading = s.loading
               /\ SameActs(s, t) /\ SameLists(s, t) /\ SameService(s, t) /\ SameChoice(s, t)
<1> DEFINE home == StaleHome(s)
           none == "none"
           zero == 0
           h == HomeIncremented(s)
           t == invalidateHomeLoading(s)
<1>1. h = [s EXCEPT !.home = home, !.genres = IF @ = "live" THEN "stale" ELSE @]
  BY DEF HomeIncremented
<1>2. t = [s EXCEPT !.home = home, !.genres = none, !.genresLoading = FALSE,
                    !.warm = FALSE, !.refreshing = FALSE, !.busy = zero]
  BY <1>1 DEF invalidateHomeLoading, GenresForgotten, ViewModel
<1>3. home \in SUBSET HomeCall /\ Live(home) = {} /\ IsFiniteSet(home) /\ none \in {"none", "live", "stale"} /\ zero \in Nat
  BY StaleHomeIs
<1>. HIDE DEF home, none, h, t
<1>4. t \in ViewModel
  BY <1>2, <1>3 DEF ViewModel
<1>5. /\ t.home = home /\ t.busy = 0 /\ ~t.warm /\ ~t.refreshing /\ ~t.genresLoading
      /\ t.view = s.view /\ t.initial = s.initial /\ t.loading = s.loading
      /\ SameActs(s, t) /\ SameLists(s, t) /\ SameService(s, t) /\ SameChoice(s, t)
  BY <1>2 DEF ViewModel, SameActs, SameLists, SameService, SameChoice
<1>. QED  BY <1>3, <1>4, <1>5 DEF t

LEMMA NoMediaServerIs ==
    ASSUME NEW s \in ViewModel
    PROVE  LET t == NoMediaServer(s)
           IN  /\ t \in ViewModel /\ t.session = None /\ t.rails = NoRails
               /\ ~t.refreshing /\ ~t.genresLoading
               /\ t.view = s.view /\ t.busy = s.busy /\ t.home = s.home /\ t.initial = s.initial /\ t.warm = s.warm
               /\ t.loading = s.loading /\ t.dav = s.dav /\ t.iptv = s.iptv
               /\ SameActs(s, t) /\ SameLists(s, t) /\ SameChoice(s, t)
<1> DEFINE none == "none"
           rails == NoRails
           t == NoMediaServer(s)
<1>1. t = [s EXCEPT !.genres = none, !.genresLoading = FALSE, !.refreshing = FALSE, !.session = None, !.rails = rails]
  BY DEF NoMediaServer, resetEmbyRecommendationRuntimeState, GenresForgotten, ViewModel
<1>2. rails \in [Rails -> MediaCards \union {None}] /\ none \in {"none", "live", "stale"}
  BY DEF NoRails
<1>. HIDE DEF rails, none, t
<1>3. t \in ViewModel
  BY <1>1, <1>2 DEF ViewModel
<1>4. /\ t.session = None /\ t.rails = rails /\ ~t.refreshing /\ ~t.genresLoading
      /\ t.view = s.view /\ t.busy = s.busy /\ t.home = s.home /\ t.initial = s.initial /\ t.warm = s.warm
      /\ t.loading = s.loading /\ t.dav = s.dav /\ t.iptv = s.iptv
      /\ SameActs(s, t) /\ SameLists(s, t) /\ SameChoice(s, t)
  BY <1>1 DEF ViewModel, SameActs, SameLists, SameChoice
<1>. QED  BY <1>3, <1>4 DEF t, rails

LEMMA ClearedDavIs ==
    ASSUME NEW s \in ViewModel, ListsFit(s)
    PROVE  LET t == clearWebDavState(s)
           IN  /\ t \in ViewModel /\ ListsFit(t) /\ t.dav = None
               /\ t.rails = s.rails /\ t.iptv = s.iptv /\ t.session = s.session /\ t.loading = s.loading
               /\ SameActs(s, t) /\ SameHome(s, t)
<1>1. CASE s.dav = None /\ s.listing = None
  <2>1. clearWebDavState(s) = s
    BY <1>1 DEF clearWebDavState
  <2>. QED  BY <1>1, <2>1 DEF SameActs, SameHome
<1>2. CASE ~(s.dav = None /\ s.listing = None)
  <2> DEFINE lists == StaleLists(s)
             t == clearWebDavState(s)
  <2>1. t = [s EXCEPT !.lists = lists, !.dav = None, !.listing = None]
    BY <1>2 DEF clearWebDavState
  <2>2. lists \in SUBSET ListCall /\ Live(lists) = {}
    BY StaleIs
  <2>. HIDE DEF lists, t
  <2>3. t \in ViewModel
    BY <2>1, <2>2 DEF ViewModel
  <2>4. /\ t.lists = lists /\ t.dav = None
        /\ t.rails = s.rails /\ t.iptv = s.iptv /\ t.session = s.session /\ t.loading = s.loading
        /\ SameActs(s, t) /\ SameHome(s, t)
    BY <2>1 DEF ViewModel, SameActs, SameHome
  <2>5. ListsFit(t)
    BY <2>2, <2>4 DEF ListsFit
  <2>. QED  BY <2>3, <2>4, <2>5 DEF t
<1>. QED  BY <1>1, <1>2

\* A service is forgotten, or stays; a rail is emptied, or shows the service of the session.
Chosen(o, s) ==
    /\ \A r \in Rails : s.rails[r] \in {o.rails[r], None, s.session}
    /\ s.dav \in {o.dav, None, o.pending}
    /\ s.iptv \in {o.iptv, None, o.pending}
    /\ s.session \in {o.session, None, o.pending} \union o.logins

LEMMA ChosenKept == ASSUME NEW o, NEW s, NEW t, Chosen(o, s), SameService(s, t) PROVE Chosen(o, t)
BY DEF Chosen, SameService

LEMMA ChosenNone ==
    ASSUME NEW o, NEW s, NEW t, Chosen(o, s), t.rails = NoRails, t.session \in {None, s.session},
           t.dav \in {s.dav, None}, t.iptv \in {s.iptv, None}
    PROVE  Chosen(o, t)
BY DEF Chosen, NoRails

-----------------------------------------------------------------------------
(* Pages *)

\* From one record that fits to another one of the same service.
Turned(s, t, k) ==
    /\ Core(t, k) /\ (LoadingFits(s) => LoadingFits(t)) /\ (~s.loading => ~t.loading)
    /\ SameService(s, t) /\ t.logins = s.logins

LEMMA TurnedTwice ==
    ASSUME NEW s, NEW t, NEW u, NEW k, Turned(s, t, k), Turned(t, u, k) PROVE Turned(s, u, k)
BY DEF Turned, SameService

LEMMA TurnedSame == ASSUME NEW s, NEW k, Core(s, k) PROVE Turned(s, s, k)
BY DEF Turned, SameService

LEMMA ActsForgotten ==
    ASSUME NEW s \in ViewModel, ResultsFit(s)
    PROVE  LET t == invalidateServiceActivation(s) IN ActsFit(t) /\ StaysHere(t) /\ ResultsFit(t)
<1> DEFINE t == invalidateServiceActivation(s)
<1>1. t.acts = StaleActs(s) /\ ~t.inFlight /\ t.gate = None /\ Live(t.acts) = {}
  BY InvalidatedIs, StaleIs
<1>2. \A a \in t.acts : a.at = "commit" => a.result \in Results(a.card)
  BY <1>1, StaleResults
<1>. HIDE DEF t
<1>3. ActsFit(t) /\ StaysHere(t) /\ ResultsFit(t)
  BY <1>1, <1>2 DEF ActsFit, StaysHere, ResultsFit
<1>. QED  BY <1>3 DEF t

\* A record whose activation alone may not fit.
LEMMA ActivationEnds ==
    ASSUME NEW s \in ViewModel, NEW k, ResultsFit(s), StaysHere(s), ListsFit(s), HomeFits(s, k), BusyFits(s), RefreshFits(s)
    PROVE  LET t == invalidateServiceActivation(s)
           IN  /\ Turned(s, t, k) /\ SameHome(s, t) /\ SameLists(s, t) /\ ~t.inFlight
               /\ (s.view # "services" => LoadingFits(s)) => LoadingFits(t)
<1> DEFINE t == invalidateServiceActivation(s)
<1>1. /\ t \in ViewModel /\ ~t.inFlight /\ t.loading = (IF s.view = "services" THEN FALSE ELSE s.loading)
      /\ SameHome(s, t) /\ SameLists(s, t) /\ SameService(s, t) /\ t.logins = s.logins
  BY InvalidatedIs
<1>2. ActsFit(t) /\ StaysHere(t) /\ ResultsFit(t)
  BY ActsForgotten
<1>. HIDE DEF t
<1>3. ListsFit(t) /\ HomeFits(t, k) /\ BusyFits(t) /\ RefreshFits(t)
  BY <1>1, ListsKept, HomeKept
<1>4. Core(t, k)
  BY <1>1, <1>2, <1>3 DEF Core
<1>5. s.view # "services" /\ LoadingFits(s) => LoadingFits(t)
  BY <1>1 DEF LoadingFits, StaysHere, SameHome, SameLists, Owners
<1>6. s.view = "services" => LoadingFits(t)
  BY <1>1 DEF LoadingFits
<1>7. ~s.loading => ~t.loading
  BY <1>1
<1>. QED  BY <1>1, <1>4, <1>5, <1>6, <1>7 DEF Turned, t

LEMMA LeavesServicesGood ==
    ASSUME NEW s, NEW k, Core(s, k), NEW view, view # s.view
    PROVE  LET t == LeavesServices(s, view) IN Turned(s, t, k) /\ SameHome(s, t) /\ (~t.inFlight \/ view = "services")
<1> DEFINE t == LeavesServices(s, view)
<1>1. s \in ViewModel /\ ResultsFit(s) /\ StaysHere(s) /\ ListsFit(s) /\ HomeFits(s, k) /\ BusyFits(s) /\ RefreshFits(s)
  BY DEF Core
<1>2. CASE /\ s.view = "services" /\ view # "services"
           /\ s.inFlight \/ s.moving \/ s.gate # None \/ s.initial
  <2>1. t = invalidateServiceActivation(s)
    BY <1>2 DEF LeavesServices
  <2>. QED  BY <1>1, <2>1, ActivationEnds
<1>3. CASE ~(/\ s.view = "services" /\ view # "services"
             /\ s.inFlight \/ s.moving \/ s.gate # None \/ s.initial)
  <2>1. t = s
    BY <1>3 DEF LeavesServices
  <2>2. ~s.inFlight \/ view = "services"
    BY <1>1, <1>3 DEF StaysHere
  <2>3. Turned(s, t, k) /\ SameHome(s, t)
    BY <2>1, TurnedSame DEF SameHome
  <2>. QED  BY <2>1, <2>2, <2>3
<1>. QED  BY <1>2, <1>3

\* The calls of the home are forgotten when it is left, and also where it was left with calls.
LEMMA LeavesHomeGood ==
    ASSUME NEW s, Core(s, 0), NEW view, view # "home"
    PROVE  LET t == LeavesHome(s, view)
           IN  /\ Turned(s, t, 0) /\ ~t.initial /\ Cardinality(Owners(t)) <= t.busy /\ SameActs(s, t)
               /\ Live(s.home) = {} => Live(t.home) = {}
<1> DEFINE inner == IF s.view = "home" \/ s.busy > 0
                    THEN [invalidateHomeLoading(s) EXCEPT !.loading = FALSE] ELSE s
           t == LeavesHome(s, view)
<1>0. s \in ViewModel /\ s.busy \in Nat
  BY VmFields DEF Core
<1>1. t = [inner EXCEPT !.initial = FALSE]
  BY DEF LeavesHome
<1>2. CASE s.view = "home" \/ s.busy > 0
  <2> DEFINE h == invalidateHomeLoading(s)
  <2>1. t = [h EXCEPT !.loading = FALSE, !.initial = FALSE]
    BY <1>1, <1>2
  <2>2. /\ h \in ViewModel
        /\ IsFiniteSet(h.home) /\ Live(h.home) = {} /\ h.busy = 0 /\ ~h.warm /\ ~h.refreshing /\ ~h.genresLoading
        /\ SameActs(s, h) /\ SameLists(s, h) /\ SameService(s, h) /\ h.logins = s.logins
    BY <1>0, HomeInvalidatedIs DEF SameChoice
  <2>. HIDE DEF h, t
  <2>3. t \in ViewModel
    BY <2>1, <2>2 DEF ViewModel
  <2>4. /\ t.home = h.home /\ t.busy = 0 /\ ~t.warm /\ ~t.refreshing /\ ~t.genresLoading /\ ~t.initial /\ ~t.loading
        /\ SameActs(h, t) /\ SameLists(h, t) /\ SameService(h, t) /\ t.logins = h.logins
    BY <2>1, <2>2 DEF ViewModel, SameActs, SameLists, SameService
  <2>5. HomeQuiet(t)
    BY <2>2, <2>4 DEF HomeQuiet
  <2>6. HomeFits(t, 0) /\ BusyFits(t) /\ RefreshFits(t)
    BY <2>4, <2>5, QuietFits
  <2>7. SameActs(s, t) /\ SameLists(s, t) /\ SameService(s, t) /\ t.logins = s.logins
    BY <2>2, <2>4 DEF SameActs, SameLists, SameService
  <2>8. Core(t, 0)
    BY <2>3, <2>6, <2>7, ActsKept, ListsKept DEF Core
  <2>9. LoadingFits(t)
    BY <2>4 DEF LoadingFits
  <2>10. Owners(t) = {} /\ Live(t.home) = {}
    BY <2>5 DEF HomeQuiet, Owners, Live
  <2>11. Cardinality(Owners(t)) <= t.busy
    BY <2>4, <2>10, FS_EmptySet
  <2>. QED  BY <2>4, <2>7, <2>8, <2>9, <2>10, <2>11 DEF Turned, t
<1>3. CASE ~(s.view = "home" \/ s.busy > 0)
  <2>1. ~s.initial
    BY <1>3 DEF Core, HomeFits
  <2>2. t = s
    BY <1>0, <1>1, <1>3, <2>1, VmFields DEF ViewModel
  <2>3. Cardinality(Owners(s)) + 0 <= s.busy
    BY <1>3 DEF Core, HomeFits
  <2>4. IsFiniteSet(Owners(s)) /\ Cardinality(Owners(s)) \in Nat
    <3>1. Owners(s) \subseteq s.home /\ IsFiniteSet(s.home)
      BY DEF Owners, Core, HomeFits
    <3>. QED  BY <3>1, FS_Subset, FS_CardinalityType
  <2>5. Cardinality(Owners(s)) <= s.busy
    BY <1>0, <2>3, <2>4
  <2>. HIDE DEF t
  <2>. QED  BY <2>1, <2>2, <2>5, TurnedSame DEF SameActs, t
<1>. QED  BY <1>2, <1>3

LEMMA OwnersFinite ==
    ASSUME NEW s, IsFiniteSet(s.home)
    PROVE  /\ IsFiniteSet(Owners(s)) /\ Cardinality(Owners(s)) \in Nat
           /\ IsFiniteSet(Counted(s)) /\ Cardinality(Counted(s)) \in Nat
           /\ Cardinality(Counted(s)) <= Cardinality(Owners(s))
<1>1. Owners(s) \subseteq s.home /\ Counted(s) \subseteq Owners(s)
  BY DEF Owners, Counted
<1>. QED  BY <1>1, FS_Subset, FS_CardinalityType

LEMMA PageLeft ==
    ASSUME NEW s, Core(s, 0), ~s.initial, Cardinality(Owners(s)) <= s.busy, NEW view \in Pages, view # "home",
           ~s.inFlight \/ view = "services", view = "services" => Live(s.home) = {}
    PROVE  Turned(s, [s EXCEPT !.view = view], 0)
<1> DEFINE t == [s EXCEPT !.view = view]
<1>1. s \in ViewModel /\ s.busy \in Nat
  BY VmFields DEF Core
<1>2. t \in ViewModel
  BY <1>1 DEF ViewModel
<1>3. /\ t.view = view /\ t.session = s.session /\ t.busy = s.busy /\ t.initial = s.initial /\ t.home = s.home
      /\ t.warm = s.warm /\ t.refreshing = s.refreshing /\ t.genres = s.genres /\ t.genresLoading = s.genresLoading
      /\ t.inFlight = s.inFlight /\ t.moving = s.moving /\ t.gate = s.gate /\ t.acts = s.acts
      /\ t.loading = s.loading /\ t.lists = s.lists /\ SameService(s, t) /\ t.logins = s.logins
  BY <1>1 DEF ViewModel, SameService
<1>. HIDE DEF t
<1>4. ActsFit(t) /\ StaysHere(t) /\ ResultsFit(t)
  BY <1>3 DEF Core, ActsFit, StaysHere, ResultsFit
<1>5. Owners(t) = Owners(s) /\ Counted(t) = Counted(s)
  BY <1>3 DEF Owners, Counted
<1>6. HomeFits(t, 0)
  <2>1. Cardinality(Owners(t)) + 0 <= t.busy
    <3>1. Cardinality(Owners(s)) \in Nat
      BY OwnersFinite DEF Core, HomeFits
    <3>. QED  BY <1>1, <1>3, <1>5, <3>1
  <2>. QED  BY <1>3, <1>5, <2>1 DEF Core, HomeFits
<1>7. BusyFits(t) /\ RefreshFits(t)
  BY <1>3 DEF Core, BusyFits, RefreshFits
<1>8. Core(t, 0)
  <2>1. ListsFit(t)
    BY <1>3 DEF Core, ListsFit, SameService
  <2>. QED  BY <1>2, <1>4, <1>6, <1>7, <2>1 DEF Core
<1>9. LoadingFits(s) => LoadingFits(t)
  BY <1>3, <1>5 DEF LoadingFits
<1>. QED  BY <1>3, <1>8, <1>9 DEF Turned, t

LEMMA HomeEntered ==
    ASSUME NEW s, NEW k \in Nat, Core(s, k), s.view # "home", ~s.inFlight
    PROVE  LET t == enterHomeWithCachedData([s EXCEPT !.view = "home"])
           IN  Turned(s, t, k) /\ t.view = "home" /\ t.home = s.home /\ t.busy = s.busy
               /\ (s.busy > 0 => t.warm = s.warm /\ t.loading = s.loading)
<1> DEFINE t == [s EXCEPT !.view = "home"]
           u == [t EXCEPT !.initial = FALSE, !.valid = FALSE, !.loading = FALSE, !.warm = TRUE]
<1>1. s \in ViewModel /\ s.busy \in Nat
  BY VmFields DEF Core
<1>2. "home" \in Pages
  BY DEF Pages
<1>3. t \in ViewModel
  BY <1>1, <1>2 DEF ViewModel
<1>4. /\ t.view = "home" /\ t.session = s.session /\ t.busy = s.busy /\ t.initial = s.initial /\ t.home = s.home
      /\ t.warm = s.warm /\ t.refreshing = s.refreshing /\ t.genres = s.genres /\ t.genresLoading = s.genresLoading
      /\ t.inFlight = s.inFlight /\ t.moving = s.moving /\ t.gate = s.gate /\ t.acts = s.acts
      /\ t.loading = s.loading /\ t.lists = s.lists /\ SameService(s, t) /\ t.logins = s.logins
  BY <1>1 DEF ViewModel, SameService
<1>. HIDE DEF t
<1>5. ActsFit(t) /\ StaysHere(t) /\ ResultsFit(t) /\ ListsFit(t)
  BY <1>4 DEF Core, ActsFit, StaysHere, ResultsFit, ListsFit, SameService
<1>6. Owners(t) = Owners(s) /\ Counted(t) = Counted(s) /\ ~s.initial
  BY <1>4 DEF Owners, Counted, Core, HomeFits
<1>7. Cardinality(Owners(s)) + k <= s.busy
  BY DEF Core, HomeFits
<1>8. HomeFits(t, k)
  BY <1>4, <1>6, <1>7 DEF Core, HomeFits
<1>9. BusyFits(t) /\ RefreshFits(t)
  BY <1>4 DEF Core, BusyFits, RefreshFits
<1>10. Core(t, k)
  BY <1>3, <1>4, <1>5, <1>8, <1>9 DEF Core
<1>11. LoadingFits(s) => LoadingFits(t)
  BY <1>4, <1>6 DEF LoadingFits
<1>12. Turned(s, t, k)
  BY <1>4, <1>10, <1>11 DEF Turned
<1>13. CASE reuseCachedHomeData(t)
  <2>1. t.busy = 0
    BY <1>13 DEF reuseCachedHomeData
  <2>2. u \in ViewModel
    BY <1>3 DEF ViewModel
  <2>3. /\ u.view = "home" /\ u.session = t.session /\ u.busy = t.busy /\ ~u.initial /\ u.home = t.home
        /\ u.refreshing = t.refreshing /\ u.genres = t.genres /\ u.genresLoading = t.genresLoading
        /\ ~u.loading /\ SameActs(t, u) /\ SameLists(t, u) /\ SameService(t, u) /\ u.logins = t.logins
    BY <1>3, <1>4 DEF ViewModel, SameLists, SameService, SameActs
  <2>. HIDE DEF u
  <2>4. Owners(u) = Owners(t) /\ Counted(u) = Counted(t)
    BY <1>4, <1>6, <2>3 DEF Owners, Counted
  <2>5. HomeFits(u, k)
    BY <1>4, <1>6, <1>7, <1>8, <2>3, <2>4 DEF HomeFits
  <2>6. BusyFits(u) /\ RefreshFits(u)
    BY <1>9, <2>3 DEF BusyFits, RefreshFits
  <2>7. Core(u, k)
    BY <1>5, <2>2, <2>3, <2>5, <2>6, ActsKept, ListsKept DEF Core
  <2>8. LoadingFits(u)
    BY <2>3 DEF LoadingFits
  <2>9. Turned(t, u, k)
    BY <2>3, <2>7, <2>8 DEF Turned
  <2>10. enterHomeWithCachedData(t) = u
    BY <1>13 DEF enterHomeWithCachedData, u
  <2>11. ~(s.busy > 0)
    BY <1>4, <2>1
  <2>. QED  BY <1>4, <1>12, <2>3, <2>9, <2>10, <2>11, TurnedTwice DEF t
<1>14. CASE ~reuseCachedHomeData(t)
  <2>1. enterHomeWithCachedData(t) = t
    BY <1>14 DEF enterHomeWithCachedData
  <2>. QED  BY <1>4, <1>12, <2>1 DEF t
<1>. QED  BY <1>13, <1>14

LEMMA ToHomeGood ==
    ASSUME NEW s, NEW k \in Nat, Core(s, k)
    PROVE  LET t == setCurrentView(s, "home")
           IN  Turned(s, t, k) /\ t.view = "home" /\ t.home = s.home /\ t.busy = s.busy
               /\ (s.busy > 0 => t.warm = s.warm)
<1>1. CASE s.view = "home"
  BY <1>1, TurnedSame DEF setCurrentView
<1>2. CASE s.view # "home"
  <2> DEFINE a == LeavesServices(s, "home")
  <2>1. setCurrentView(s, "home") = enterHomeWithCachedData([a EXCEPT !.view = "home"])
    BY <1>2 DEF setCurrentView, LeavesHome
  <2>2. Turned(s, a, k) /\ SameHome(s, a) /\ ~a.inFlight
    BY <1>2, LeavesServicesGood
  <2>. HIDE DEF a
  <2>3. a.view # "home" /\ Core(a, k) /\ a.home = s.home /\ a.busy = s.busy /\ a.warm = s.warm
    BY <1>2, <2>2 DEF Turned, SameHome
  <2>. QED  BY <2>1, <2>2, <2>3, HomeEntered, TurnedTwice
<1>. QED  BY <1>1, <1>2

LEMMA ViewGood ==
    ASSUME NEW s, Core(s, 0), NEW view \in Pages, view = "services" => Live(s.home) = {}
    PROVE  Turned(s, setCurrentView(s, view), 0) /\ setCurrentView(s, view).view = view
<1>1. CASE view = "home"
  BY <1>1, ToHomeGood
<1>2. CASE s.view = view
  BY <1>2, TurnedSame DEF setCurrentView
<1>3. CASE view # "home" /\ s.view # view
  <2> DEFINE a == LeavesServices(s, view)
             b == LeavesHome(a, view)
             t == setCurrentView(s, view)
  <2>1. t = [b EXCEPT !.view = view]
    BY <1>3 DEF setCurrentView
  <2>2. /\ Turned(s, a, 0) /\ (~a.inFlight \/ view = "services")
        /\ view = "services" => Live(a.home) = {}
    <3>1. Turned(s, a, 0) /\ SameHome(s, a) /\ (~a.inFlight \/ view = "services")
      BY <1>3, LeavesServicesGood
    <3>. HIDE DEF a
    <3>. QED  BY <3>1 DEF SameHome, Turned, SameService
  <2>. HIDE DEF a
  <2>3. Core(a, 0)
    BY <2>2 DEF Turned
  <2>4. /\ Turned(a, b, 0) /\ ~b.initial /\ Cardinality(Owners(b)) <= b.busy /\ SameActs(a, b)
        /\ Live(a.home) = {} => Live(b.home) = {}
    BY <1>3, <2>3, LeavesHomeGood
  <2>. HIDE DEF b, t
  <2>5. Core(b, 0) /\ (~b.inFlight \/ view = "services") /\ (view = "services" => Live(b.home) = {})
    BY <2>2, <2>4 DEF Turned, SameActs, SameService
  <2>6. Turned(b, t, 0)
    BY <1>3, <2>1, <2>4, <2>5, PageLeft
  <2>7. Turned(s, t, 0)
    BY <2>2, <2>4, <2>6, TurnedTwice
  <2>8. t.view = view
    BY <2>1, <2>5, VmFields DEF Core, ViewModel
  <2>. QED  BY <2>7, <2>8 DEF t
<1>. QED  BY <1>1, <1>2, <1>3

-----------------------------------------------------------------------------
(* Back to the services *)

\* What may become of a record: it fits, and only forgets what was chosen.
Kept(s, t) == \A o : Chosen(o, s) => Chosen(o, t)

LEMMA TurnedKeeps == ASSUME NEW s, NEW t, NEW k, Turned(s, t, k) PROVE Kept(s, t)
BY ChosenKept DEF Turned, Kept

LEMMA BackGood ==
    ASSUME NEW s \in ViewModel, ResultsFit(s), StaysHere(s), ListsFit(s)
    PROVE  LET t == backToServices(s) IN Core(t, 0) /\ ~t.loading /\ ~t.initial /\ Kept(s, t)
<1> DEFINE a == invalidateServiceActivation(s)
           h == invalidateHomeLoading(a)
           q == [h EXCEPT !.loading = FALSE, !.initial = FALSE, !.valid = FALSE, !.pending = None, !.iptv = None]
           d == clearWebDavState(q)
           m == NoMediaServer(d)
           t == setCurrentView(m, "services")
<1>1. backToServices(s) = t
  BY DEF backToServices
<1>2. /\ a \in ViewModel /\ ActsFit(a) /\ StaysHere(a) /\ ResultsFit(a) /\ ListsFit(a) /\ SameService(s, a)
  BY InvalidatedIs, ActsForgotten, ListsKept
<1>. HIDE DEF a
<1>3. /\ h \in ViewModel
      /\ IsFiniteSet(h.home) /\ Live(h.home) = {} /\ h.busy = 0 /\ ~h.warm /\ ~h.refreshing /\ ~h.genresLoading
      /\ SameActs(a, h) /\ SameLists(a, h) /\ SameService(a, h)
  BY <1>2, HomeInvalidatedIs
<1>. HIDE DEF h
<1>4. q \in ViewModel
  BY <1>3 DEF ViewModel
<1>5. /\ SameActs(h, q) /\ SameLists(h, q) /\ ~q.loading /\ ~q.initial
      /\ q.home = h.home /\ q.busy = h.busy /\ ~q.warm /\ ~q.refreshing /\ ~q.genresLoading
      /\ q.rails = h.rails /\ q.dav = h.dav /\ q.iptv = None /\ q.session = h.session
  BY <1>3 DEF ViewModel, SameActs, SameLists
<1>. HIDE DEF q
<1>6. HomeQuiet(q)
  BY <1>3, <1>5 DEF HomeQuiet
<1>7. ActsFit(q) /\ StaysHere(q) /\ ResultsFit(q) /\ ListsFit(q)
  <2>1. ActsFit(h) /\ StaysHere(h) /\ ResultsFit(h) /\ ListsFit(h)
    BY <1>2, <1>3, ActsKept, ListsKept
  <2>. QED  BY <1>5, <2>1, ActsKept, ListsKept
<1>8. /\ d \in ViewModel /\ ListsFit(d) /\ d.dav = None /\ ~d.loading
      /\ d.rails = q.rails /\ d.iptv = q.iptv /\ d.session = q.session /\ SameActs(q, d) /\ SameHome(q, d)
  BY <1>4, <1>5, <1>7, ClearedDavIs
<1>. HIDE DEF d
<1>9. ActsFit(d) /\ StaysHere(d) /\ ResultsFit(d) /\ HomeQuiet(d)
  BY <1>6, <1>7, <1>8, ActsKept, HomeKept
<1>10. /\ m \in ViewModel /\ m.session = None /\ m.rails = NoRails
       /\ ~m.refreshing /\ ~m.genresLoading
       /\ m.busy = d.busy /\ m.home = d.home /\ m.initial = d.initial /\ m.warm = d.warm
       /\ ~m.loading /\ m.dav = d.dav /\ m.iptv = d.iptv /\ SameActs(d, m) /\ SameLists(d, m)
  BY <1>8, NoMediaServerIs
<1>. HIDE DEF m
<1>11. ActsFit(m) /\ StaysHere(m) /\ ResultsFit(m) /\ ListsFit(m)
  BY <1>8, <1>9, <1>10, ActsKept, ListsKept
<1>12. HomeQuiet(m)
  BY <1>9, <1>10 DEF HomeQuiet
<1>13. HomeFits(m, 0) /\ BusyFits(m) /\ RefreshFits(m) /\ Live(m.home) = {} /\ ~m.initial
  <2>1. m.busy \in Nat
    BY <1>10, VmFields
  <2>. QED  BY <1>8, <1>10, <1>12, <2>1, QuietFits DEF HomeQuiet
<1>14. Core(m, 0)
  BY <1>10, <1>11, <1>13 DEF Core
<1>15. "services" \in Pages
  BY DEF Pages
<1>16. Turned(m, t, 0) /\ t.view = "services"
  BY <1>13, <1>14, <1>15, ViewGood
<1>. HIDE DEF t
<1>17. Core(t, 0) /\ ~t.loading /\ SameService(m, t) /\ ~t.initial
  BY <1>10, <1>16 DEF Turned, Core, HomeFits
<1>18. Kept(s, t)
  <2>1. /\ t.rails = NoRails /\ t.session = None /\ t.dav = None /\ t.iptv = None
    BY <1>5, <1>8, <1>10, <1>17 DEF SameService
  <2>. QED  BY <2>1, ChosenNone DEF Kept
<1>. QED  BY <1>1, <1>17, <1>18

-----------------------------------------------------------------------------
(* The counter of the home *)

\* The first visit is over: its counter stands at zero, and nothing loads.
LEMMA CompletedGood ==
    ASSUME NEW s \in ViewModel, NEW k \in Nat, ActsFit(s), StaysHere(s), ResultsFit(s), ListsFit(s),
           HomeFits(s, k), RefreshFits(s), s.valid \/ k = 0
    PROVE  LET t == completeInitialServiceLoad(s)
           IN  /\ Core(t, k) /\ Kept(s, t)
               /\ \/ t = s /\ (~s.initial \/ (~s.valid /\ s.busy > 0))
                  \/ ~t.loading /\ ~t.initial
<1> DEFINE t == completeInitialServiceLoad(s)
<1>0. s.busy \in Nat
  BY VmFields
<1>1. CASE ~s.initial \/ (~s.valid /\ s.busy > 0)
  <2>1. t = s
    BY <1>1 DEF completeInitialServiceLoad
  <2>2. BusyFits(s)
    BY <1>1 DEF BusyFits
  <2>. QED  BY <1>1, <2>1, <2>2 DEF Core, Kept
<1>2. CASE s.initial /\ ~s.valid /\ ~(s.busy > 0)
  <2> DEFINE e == [s EXCEPT !.initial = FALSE, !.valid = FALSE]
             h == invalidateHomeLoading(e)
  <2>1. t = backToServices(h) /\ k = 0
    BY <1>2 DEF completeInitialServiceLoad, failInitialServiceLoad, HomeFits
  <2>2. e \in ViewModel
    BY DEF ViewModel
  <2>3. SameActs(s, e) /\ SameLists(s, e) /\ SameService(s, e)
    BY DEF ViewModel, SameActs, SameLists, SameService
  <2>. HIDE DEF e
  <2>4. h \in ViewModel /\ SameActs(e, h) /\ SameLists(e, h) /\ SameService(e, h)
    BY <2>2, HomeInvalidatedIs
  <2>. HIDE DEF h
  <2>5. ResultsFit(h) /\ StaysHere(h) /\ ListsFit(h)
    <3>1. ResultsFit(e) /\ StaysHere(e) /\ ListsFit(e)
      BY <2>3, ActsKept, ListsKept
    <3>. QED  BY <2>4, <3>1, ActsKept, ListsKept
  <2>6. Core(t, 0) /\ ~t.loading /\ ~t.initial /\ Kept(h, t)
    BY <2>1, <2>4, <2>5, BackGood
  <2>7. Kept(s, t)
    BY <2>3, <2>4, <2>6, ChosenKept DEF Kept
  <2>. QED  BY <2>1, <2>6, <2>7
<1>3. CASE s.initial /\ s.valid
  <2> DEFINE zero == 0
             e == [s EXCEPT !.initial = FALSE, !.busy = zero, !.loading = FALSE]
  <2>1. s.view = "home" /\ s.session # None /\ ~s.warm
    BY <1>3 DEF HomeFits
  <2>2. t = setCurrentView(e, "home")
    BY <1>3, <2>1 DEF completeInitialServiceLoad
  <2>3. e.view = "home"
    BY <2>1 DEF ViewModel
  <2>4. t = e
    BY <2>2, <2>3 DEF setCurrentView
  <2>5. zero \in Nat
    OBVIOUS
  <2>. HIDE DEF zero
  <2>6. e \in ViewModel
    BY <2>5 DEF ViewModel
  <2>7. /\ SameActs(s, e) /\ SameLists(s, e) /\ SameService(s, e) /\ ~e.initial /\ ~e.loading
        /\ e.busy = zero /\ e.home = s.home /\ e.warm = s.warm
        /\ e.refreshing = s.refreshing /\ e.genres = s.genres /\ e.genresLoading = s.genresLoading
    BY DEF ViewModel, SameActs, SameLists, SameService
  <2>. HIDE DEF e, t
  <2>8. Cardinality(Counted(e)) \in Nat
    BY <2>7, OwnersFinite DEF HomeFits
  <2>9. e.busy <= Cardinality(Counted(e)) + k
    BY <2>7, <2>8 DEF zero
  <2>10. HomeFits(e, k)
    BY <2>1, <2>3, <2>7, <2>9 DEF HomeFits, SameService
  <2>11. BusyFits(e) /\ RefreshFits(e)
    BY <2>7 DEF BusyFits, RefreshFits, SameService
  <2>12. Core(e, k)
    BY <2>6, <2>7, <2>10, <2>11, ActsKept, ListsKept DEF Core
  <2>13. Kept(s, e)
    BY <2>7, ChosenKept DEF Kept
  <2>. QED  BY <2>4, <2>7, <2>12, <2>13 DEF t
<1>. QED  BY <1>1, <1>2, <1>3

\* A visible request takes back what it counted.
LEMMA EndGood ==
    ASSUME NEW s, Core(s, 1)
    PROVE  LET t == endHomeLoading(s)
           IN  /\ Core(t, 0) /\ Kept(s, t) /\ (LoadingFits(s) => LoadingFits(t))
               /\ t.initial => s.initial
               /\ t.loading => s.initial = t.initial
               /\ ~s.loading => ~t.loading
<1> DEFINE t == endHomeLoading(s)
<1>0. s \in ViewModel /\ s.busy \in Nat /\ IsFiniteSet(s.home) /\ s.initial \in BOOLEAN
  BY VmFields DEF Core, HomeFits
<1>00. Cardinality(Owners(s)) \in Nat /\ Cardinality(Counted(s)) \in Nat
  BY <1>0, OwnersFinite
<1>1. CASE s.busy = 0
  <2>1. t = s
    BY <1>1 DEF endHomeLoading
  <2>2. HomeFits(s, 0)
    <3>1. s.busy <= Cardinality(Counted(s)) + 0
      BY <1>00, <1>1
    <3>2. ~(s.warm \/ s.view # "home")
      BY <1>00, <1>1 DEF Core, HomeFits
    <3>. QED  BY <3>1, <3>2 DEF Core, HomeFits
  <2>. QED  BY <2>1, <2>2 DEF Core, Kept
<1>2. CASE s.busy # 0
  <2> DEFINE busy == s.busy - 1
             f == [s EXCEPT !.busy = busy]
  <2>1. busy \in Nat
    BY <1>0, <1>2
  <2>2. f.busy = busy
    BY <1>0 DEF ViewModel
  <2>3. t = IF f.initial /\ (f.valid \/ f.busy = 0) THEN completeInitialServiceLoad(f) ELSE f
    BY <1>2 DEF endHomeLoading
  <2>4. /\ Cardinality(Counted(s)) + 0 >= busy
        /\ s.warm \/ s.view # "home" => Cardinality(Owners(s)) + 0 <= busy
    BY <1>0, <1>00, <1>2 DEF Core, HomeFits
  <2>. HIDE DEF busy, t
  <2>5. f \in ViewModel
    BY <1>0, <2>1 DEF ViewModel
  <2>6. /\ SameActs(s, f) /\ SameLists(s, f) /\ SameService(s, f) /\ f.initial = s.initial /\ f.loading = s.loading
        /\ f.busy = busy /\ f.home = s.home /\ f.warm = s.warm /\ f.valid = s.valid /\ f.logins = s.logins
        /\ f.refreshing = s.refreshing /\ f.genres = s.genres /\ f.genresLoading = s.genresLoading
    BY <1>0 DEF ViewModel, SameActs, SameLists, SameService
  <2>. HIDE DEF f
  <2>7. ActsFit(f) /\ StaysHere(f) /\ ResultsFit(f) /\ ListsFit(f)
    BY <2>6, ActsKept, ListsKept DEF Core
  <2>8. Owners(f) = Owners(s) /\ Counted(f) = Counted(s)
    BY <2>6 DEF Owners, Counted
  <2>9. HomeFits(f, 0)
    <3>1. f.busy <= Cardinality(Counted(f)) + 0
      BY <1>00, <2>1, <2>4, <2>6, <2>8
    <3>. QED  BY <2>4, <2>6, <2>8, <3>1 DEF Core, HomeFits, SameService, SameActs
  <2>10. RefreshFits(f)
    BY <2>6 DEF Core, RefreshFits, SameService
  <2>11. Kept(s, f)
    BY <2>6, ChosenKept DEF Kept
  <2>12. LoadingFits(s) => LoadingFits(f)
    BY <2>6, <2>8 DEF LoadingFits, SameActs, SameLists
  <2>13. CASE f.initial /\ (f.valid \/ f.busy = 0)
    <3> DEFINE u == completeInitialServiceLoad(f)
    <3>0. t = u
      BY <2>3, <2>13
    <3>1. /\ Core(u, 0) /\ Kept(f, u)
          /\ \/ u = f /\ (~f.initial \/ (~f.valid /\ f.busy > 0))
             \/ ~u.loading /\ ~u.initial
      BY <2>5, <2>7, <2>9, <2>10, CompletedGood
    <3>. HIDE DEF u
    <3>2. ~u.loading /\ ~u.initial
      BY <2>13, <3>1
    <3>3. LoadingFits(u) /\ Kept(s, u)
      BY <2>11, <3>1, <3>2 DEF LoadingFits, Kept
    <3>. QED  BY <3>0, <3>1, <3>2, <3>3 DEF t
  <2>14. CASE ~(f.initial /\ (f.valid \/ f.busy = 0))
    <3>1. BusyFits(f)
      BY <2>1, <2>6, <2>14 DEF BusyFits
    <3>2. Core(f, 0)
      BY <2>5, <2>7, <2>9, <2>10, <3>1 DEF Core
    <3>3. t = f
      BY <2>3, <2>14
    <3>. QED  BY <2>6, <2>11, <2>12, <3>2, <3>3 DEF t
  <2>. QED  BY <2>13, <2>14
<1>. QED  BY <1>1, <1>2

-----------------------------------------------------------------------------
(* Requests of the home *)

LEMMA LeastIs ==
    ASSUME NEW S, S \subseteq Nat, S # {}
    PROVE  (CHOOSE n \in S : \A k \in S : n <= k) \in S
<1>1. PICK n \in S : \A k \in S : ~(<<k, n>> \in OpToRel(<, Nat))
  BY NatLessThanWellFounded, WFMin
<1>2. \A k \in S : ~(k < n)
  BY <1>1 DEF OpToRel
<1>3. \E m \in S : \A k \in S : m <= k
  BY <1>2
<1>. QED  BY <1>3

\* A request that is asked is a new one, and the others of its kind are not touched.
LEMMA AskedIs ==
    ASSUME NEW s \in ViewModel, s.session \in MediaCards, NEW op \in Rails \union {"start"}, NEW quiet \in BOOLEAN,
           FreeCopies(s, op, quiet) # {}
    PROVE  LET t == Asked(s, op, quiet)
           IN  /\ t \in ViewModel
               /\ \E c \in HomeCall : /\ c.op = op /\ c.card = s.session /\ c.live /\ c.quiet = quiet
                                      /\ c \notin s.home /\ t.home = s.home \union {c}
               /\ SameActs(s, t) /\ SameLists(s, t) /\ SameService(s, t) /\ SameChoice(s, t)
               /\ t.initial = s.initial /\ t.busy = s.busy /\ t.warm = s.warm /\ t.refreshing = s.refreshing
               /\ t.genres = s.genres /\ t.genresLoading = s.genresLoading /\ t.loading = s.loading
<1> DEFINE free == FreeCopies(s, op, quiet)
           n == CHOOSE n \in free : \A k \in free : n <= k
           c == [op |-> op, card |-> s.session, live |-> TRUE, quiet |-> quiet, n |-> n]
           home == s.home \union {c}
           t == Asked(s, op, quiet)
<1>1. t = [s EXCEPT !.home = home]
  BY DEF Asked, ViewModel
<1>2. n \in free
  <2>1. free \subseteq Nat /\ free # {}
    BY CardsAssumption DEF FreeCopies
  <2>. HIDE DEF free
  <2>2. (CHOOSE m \in free : \A k \in free : m <= k) \in free
    BY <2>1, LeastIs
  <2>. QED  BY <2>2
<1>. HIDE DEF n
<1>3. n \in 1..MaxCopies /\ n \notin {d.n : d \in Same(s, op, quiet)}
  BY <1>2 DEF FreeCopies
<1>4. c \in HomeCall /\ c.op = op /\ c.card = s.session /\ c.live /\ c.quiet = quiet /\ c.n = n
  BY <1>3 DEF HomeCall
<1>. HIDE DEF c
<1>5. c \notin s.home
  BY <1>3, <1>4 DEF Same
<1>6. home \in SUBSET HomeCall
  BY <1>4, VmFields
<1>. HIDE DEF t
<1>7. /\ t.home = home
      /\ SameActs(s, t) /\ SameLists(s, t) /\ SameService(s, t) /\ SameChoice(s, t)
      /\ t.initial = s.initial /\ t.busy = s.busy /\ t.warm = s.warm /\ t.refreshing = s.refreshing
      /\ t.genres = s.genres /\ t.genresLoading = s.genresLoading /\ t.loading = s.loading
  BY <1>1 DEF ViewModel, SameActs, SameLists, SameService, SameChoice
<1>. HIDE DEF home
<1>8. t \in ViewModel
  BY <1>1, <1>6 DEF ViewModel
<1>. QED  BY <1>4, <1>5, <1>7, <1>8 DEF t, home

\* A visible request answers for one that was counted.
LEMMA AskedFits ==
    ASSUME NEW s \in ViewModel, NEW k \in Nat, s.session \in MediaCards, s.view # "services",
           NEW op \in Rails \union {"start"}, NEW quiet \in BOOLEAN, FreeCopies(s, op, quiet) # {},
           op = "start" => s.initial,
           HomeFits(s, IF quiet THEN k ELSE k + 1)
    PROVE  HomeFits(Asked(s, op, quiet), k)
<1> DEFINE t == Asked(s, op, quiet)
<1>1. PICK c \in HomeCall : c.op = op /\ c.card = s.session /\ c.live /\ c.quiet = quiet
                            /\ c \notin s.home /\ t.home = s.home \union {c}
  BY AskedIs
<1>2. /\ SameActs(s, t) /\ SameService(s, t)
      /\ t.initial = s.initial /\ t.busy = s.busy /\ t.warm = s.warm
      /\ t.genres = s.genres /\ t.genresLoading = s.genresLoading /\ t.session = s.session /\ t.view = s.view
  BY AskedIs DEF SameService, SameActs
<1>. HIDE DEF t
<1>3. IsFiniteSet(s.home) /\ IsFiniteSet(t.home)
  BY <1>1, FS_AddElement DEF HomeFits
<1>4. IsFiniteSet(Owners(s)) /\ IsFiniteSet(Counted(s)) /\ Cardinality(Owners(s)) \in Nat /\ Cardinality(Counted(s)) \in Nat /\ s.busy \in Nat
  BY <1>3, OwnersFinite, VmFields
<1>5. \A d \in Live(t.home) : d.card = t.session
  BY <1>1, <1>2 DEF HomeFits, Live
<1>6. CASE quiet
  <2>1. Owners(t) = Owners(s) /\ Counted(t) = Counted(s)
    BY <1>1, <1>2, <1>6 DEF Owners, Counted
  <2>. QED  BY <1>2, <1>3, <1>5, <1>6, <2>1 DEF HomeFits, t
<1>7. CASE ~quiet
  <2>1. /\ Owners(t) = Owners(s) \union {c} /\ c \notin Owners(s)
        /\ Counted(t) = Counted(s) \union {c} /\ c \notin Counted(s)
    BY <1>1, <1>2, <1>7 DEF Owners, Counted
  <2>2. Cardinality(Owners(t)) = Cardinality(Owners(s)) + 1 /\ Cardinality(Counted(t)) = Cardinality(Counted(s)) + 1
    BY <1>4, <2>1, FS_AddElement
  <2>3. /\ t.busy <= Cardinality(Counted(t)) + k
        /\ t.warm \/ t.view # "home" => Cardinality(Owners(t)) + k <= t.busy
    <3>1. /\ s.busy <= Cardinality(Counted(s)) + (k + 1)
          /\ s.warm \/ s.view # "home" => Cardinality(Owners(s)) + (k + 1) <= s.busy
      BY <1>7 DEF HomeFits
    <3>. QED  BY <1>2, <1>4, <2>2, <3>1
  <2>. QED  BY <1>2, <1>3, <1>5, <2>3 DEF HomeFits, t
<1>. QED  BY <1>6, <1>7

\* One of the home's requests is counted, where it is visible, and asked.
Free(s, ops, quiet) == \A op \in ops : FreeCopies(s, op, quiet) # {}

LEMMA BegunFits ==
    ASSUME NEW s \in ViewModel, NEW k \in Nat, NEW quiet \in BOOLEAN, HomeFits(s, k), BusyFits(s)
    PROVE  LET t == Visible(s, quiet)
           IN  /\ t \in ViewModel /\ HomeFits(t, IF quiet THEN k ELSE k + 1) /\ BusyFits(t)
               /\ SameActs(s, t) /\ SameLists(s, t) /\ SameService(s, t) /\ SameChoice(s, t)
               /\ t.home = s.home /\ t.initial = s.initial /\ t.warm = s.warm /\ t.refreshing = s.refreshing
               /\ t.genres = s.genres /\ t.genresLoading = s.genresLoading /\ t.loading = s.loading
<1>1. CASE quiet
  BY <1>1 DEF Visible, SameActs, SameLists, SameService, SameChoice
<1>2. CASE ~quiet
  <2> DEFINE busy == s.busy + 1
             t == Visible(s, quiet)
  <2>1. t = [s EXCEPT !.busy = busy]
    BY <1>2 DEF Visible, beginHomeLoading
  <2>2. s.busy \in Nat /\ busy \in Nat /\ busy > 0 /\ Cardinality(Owners(s)) \in Nat /\ Cardinality(Counted(s)) \in Nat
    BY VmFields, OwnersFinite DEF HomeFits
  <2>3. /\ busy <= Cardinality(Counted(s)) + (k + 1)
        /\ s.warm \/ s.view # "home" => Cardinality(Owners(s)) + (k + 1) <= busy
    BY <2>2 DEF HomeFits
  <2>. HIDE DEF busy, t
  <2>4. t \in ViewModel
    BY <2>1, <2>2 DEF ViewModel
  <2>5. /\ SameActs(s, t) /\ SameLists(s, t) /\ SameService(s, t) /\ SameChoice(s, t)
        /\ t.home = s.home /\ t.initial = s.initial /\ t.warm = s.warm /\ t.refreshing = s.refreshing
        /\ t.genres = s.genres /\ t.genresLoading = s.genresLoading /\ t.loading = s.loading /\ t.busy = busy
    BY <2>1 DEF ViewModel, SameActs, SameLists, SameService, SameChoice
  <2>6. Owners(t) = Owners(s) /\ Counted(t) = Counted(s)
    BY <2>5 DEF Owners, Counted
  <2>7. HomeFits(t, k + 1)
    BY <2>3, <2>5, <2>6 DEF HomeFits, SameActs, SameService
  <2>8. BusyFits(t)
    BY <2>2, <2>5 DEF BusyFits
  <2>. QED  BY <1>2, <2>4, <2>5, <2>7, <2>8 DEF t
<1>. QED  BY <1>1, <1>2

\* From a record that fits to one that fits, where what was asked may have become visible.
Went(s, t, k) == Core(t, k) /\ (LoadingFits(s) => LoadingFits(t)) /\ Kept(s, t)

LEMMA WentTwice ==
    ASSUME NEW s, NEW t, NEW u, NEW k, Went(s, t, k), Went(t, u, k) PROVE Went(s, u, k)
BY DEF Went, Kept

LEMMA TurnedWent == ASSUME NEW s, NEW t, NEW k, Turned(s, t, k) PROVE Went(s, t, k)
BY TurnedKeeps DEF Turned, Went

\* What the refresh of the home does not touch
SameVisit(s, t) == t.view = s.view /\ t.session = s.session /\ t.initial = s.initial

\* "v" is the record with the request counted, and with the flag of the request.
LEMMA AskGood ==
    ASSUME NEW s, NEW k \in Nat, Core(s, k), s.session \in MediaCards, s.view # "services",
           NEW op \in Rails, NEW quiet \in BOOLEAN, FreeCopies(s, op, quiet) # {},
           NEW v \in ViewModel, HomeFits(v, IF quiet THEN k ELSE k + 1), BusyFits(v),
           SameActs(s, v), SameLists(s, v), SameService(s, v), v.logins = s.logins, v.home = s.home, v.initial = s.initial,
           v.refreshing => s.refreshing \/ (op = "suggestions" /\ s.session \in EmbyCards),
           v.loading => s.loading \/ (op = "libraries" /\ ~quiet)
    PROVE  LET t == Asked(v, op, quiet)
           IN  /\ Went(s, t, k) /\ SameVisit(s, t) /\ t.valid = v.valid
               /\ \A other \in Rails : other # op => FreeCopies(t, other, quiet) = FreeCopies(s, other, quiet)
<1> DEFINE t == Asked(v, op, quiet)
<1>1. s \in ViewModel
  BY DEF Core
<1>3. v.session \in MediaCards /\ v.session = s.session /\ v.view # "services" /\ FreeCopies(v, op, quiet) # {}
  BY DEF SameService, SameActs, FreeCopies, Same
<1>4. op \in Rails \union {"start"} /\ (op = "start" => v.initial)
  BY DEF Rails
<1>5. HomeFits(t, k)
  BY <1>3, <1>4, AskedFits
<1>6. PICK c \in HomeCall : c.op = op /\ c.card = v.session /\ c.live /\ c.quiet = quiet
                            /\ c \notin v.home /\ t.home = v.home \union {c}
  BY <1>3, <1>4, AskedIs
<1>7. /\ t \in ViewModel
      /\ SameActs(v, t) /\ SameLists(v, t) /\ SameService(v, t) /\ t.logins = v.logins /\ t.valid = v.valid
      /\ t.initial = v.initial /\ t.busy = v.busy /\ t.refreshing = v.refreshing /\ t.loading = v.loading
  BY <1>3, <1>4, AskedIs DEF SameChoice
<1>. HIDE DEF t
<1>8. /\ SameActs(s, t) /\ SameLists(s, t) /\ SameService(s, t) /\ t.logins = s.logins
      /\ t.view = s.view /\ t.session = s.session /\ t.inFlight = s.inFlight /\ t.lists = s.lists
  BY <1>7 DEF SameActs, SameLists, SameService
<1>9. s.home \subseteq t.home /\ t.initial = s.initial
  BY <1>6, <1>7
<1>10. BusyFits(t)
  BY <1>7 DEF BusyFits
<1>11. RefreshFits(t)
  <2>1. CASE v.refreshing /\ ~s.refreshing
    BY <1>6, <1>8, <2>1 DEF RefreshFits
  <2>2. CASE ~(v.refreshing /\ ~s.refreshing)
    BY <1>7, <1>8, <1>9, <2>2 DEF Core, RefreshFits
  <2>. QED  BY <2>1, <2>2
<1>12. Core(t, k)
  BY <1>5, <1>7, <1>8, <1>10, <1>11, ActsKept, ListsKept DEF Core
<1>13. LoadingFits(s) => LoadingFits(t)
  <2>1. Owners(s) \subseteq Owners(t)
    BY <1>9 DEF Owners
  <2>2. op = "libraries" /\ ~quiet => \E d \in Owners(t) : d.op = "libraries"
    BY <1>6 DEF Owners
  <2>3. t.loading => s.loading \/ (op = "libraries" /\ ~quiet)
    BY <1>7
  <2>. QED  BY <1>8, <1>9, <2>1, <2>2, <2>3 DEF LoadingFits
<1>14. Kept(s, t)
  BY <1>8, ChosenKept DEF Kept
<1>15. ASSUME NEW other \in Rails, other # op PROVE FreeCopies(t, other, quiet) = FreeCopies(s, other, quiet)
  <2>1. Same(t, other, quiet) = Same(s, other, quiet)
    BY <1>6, <1>8, <1>15 DEF Same
  <2>. QED  BY <2>1 DEF FreeCopies
<1>. QED  BY <1>7, <1>8, <1>9, <1>12, <1>13, <1>14, <1>15 DEF SameVisit, Went, t

LEMMA LibrariesGood ==
    ASSUME NEW s, NEW k \in Nat, Core(s, k), s.session \in MediaCards, s.view # "services",
           NEW quiet \in BOOLEAN, FreeCopies(s, "libraries", quiet) # {}
    PROVE  LET t == refreshLibraries(s, quiet)
           IN  /\ Went(s, t, k) /\ SameVisit(s, t) /\ t.valid = s.valid
               /\ \A other \in Rails : other # "libraries" => FreeCopies(t, other, quiet) = FreeCopies(s, other, quiet)
<1> DEFINE b == Visible(s, quiet)
           v == IF quiet THEN s ELSE [beginHomeLoading(s) EXCEPT !.loading = TRUE]
<1>1. s \in ViewModel /\ HomeFits(s, k) /\ BusyFits(s) /\ "libraries" \in Rails
  BY DEF Core, Rails
<1>2. /\ b \in ViewModel /\ HomeFits(b, IF quiet THEN k ELSE k + 1) /\ BusyFits(b)
      /\ SameActs(s, b) /\ SameLists(s, b) /\ SameService(s, b) /\ b.logins = s.logins /\ b.valid = s.valid
      /\ b.home = s.home /\ b.initial = s.initial /\ b.refreshing = s.refreshing /\ b.loading = s.loading
  BY <1>1, BegunFits DEF SameChoice
<1>3. /\ v \in ViewModel /\ SameActs(b, v) /\ SameLists(b, v) /\ SameService(b, v) /\ SameHome(b, v)
      /\ v.logins = b.logins /\ v.valid = b.valid /\ (v.loading => b.loading \/ ~quiet)
  <2>1. CASE quiet
    BY <1>1, <2>1 DEF Visible, SameActs, SameLists, SameService, SameHome
  <2>2. CASE ~quiet
    <3>1. v = [b EXCEPT !.loading = TRUE]
      BY <2>2 DEF Visible
    <3>. HIDE DEF b, v
    <3>2. v \in ViewModel
      BY <1>2, <3>1 DEF ViewModel
    <3>3. SameActs(b, v) /\ SameLists(b, v) /\ SameService(b, v) /\ SameHome(b, v) /\ v.logins = b.logins /\ v.valid = b.valid
      BY <1>2, <3>1 DEF ViewModel, SameActs, SameLists, SameService, SameHome
    <3>. QED  BY <2>2, <3>2, <3>3
  <2>. QED  BY <2>1, <2>2
<1>4. refreshLibraries(s, quiet) = Asked(v, "libraries", quiet)
  BY DEF refreshLibraries
<1>. HIDE DEF b, v
<1>5. /\ SameActs(s, v) /\ SameLists(s, v) /\ SameService(s, v) /\ v.logins = s.logins /\ v.home = s.home /\ v.initial = s.initial
      /\ v.refreshing = s.refreshing /\ (v.loading => s.loading \/ ~quiet) /\ v.valid = s.valid
  BY <1>2, <1>3 DEF SameActs, SameLists, SameService, SameHome
<1>6. HomeFits(v, IF quiet THEN k ELSE k + 1) /\ BusyFits(v)
  BY <1>2, <1>3, HomeKept
<1>. QED  BY <1>1, <1>3, <1>4, <1>5, <1>6, AskGood

LEMMA ResumeGood ==
    ASSUME NEW s, NEW k \in Nat, Core(s, k), s.session \in MediaCards, s.view # "services",
           NEW quiet \in BOOLEAN, FreeCopies(s, "resume", quiet) # {}
    PROVE  LET t == refreshContinueWatching(s, quiet)
           IN  /\ Went(s, t, k) /\ SameVisit(s, t) /\ t.valid = s.valid
               /\ \A other \in Rails : other # "resume" => FreeCopies(t, other, quiet) = FreeCopies(s, other, quiet)
<1> DEFINE v == Visible(s, quiet)
<1>1. s \in ViewModel /\ HomeFits(s, k) /\ BusyFits(s) /\ "resume" \in Rails
  BY DEF Core, Rails
<1>2. /\ v \in ViewModel /\ HomeFits(v, IF quiet THEN k ELSE k + 1) /\ BusyFits(v)
      /\ SameActs(s, v) /\ SameLists(s, v) /\ SameService(s, v) /\ v.logins = s.logins /\ v.valid = s.valid
      /\ v.home = s.home /\ v.initial = s.initial /\ v.refreshing = s.refreshing /\ v.loading = s.loading
  BY <1>1, BegunFits DEF SameChoice
<1>3. refreshContinueWatching(s, quiet) = Asked(v, "resume", quiet)
  BY DEF refreshContinueWatching
<1>. HIDE DEF v
<1>. QED  BY <1>1, <1>2, <1>3, AskGood

LEMMA GenresAskedIs ==
    ASSUME NEW s \in ViewModel
    PROVE  LET t == refreshEmbyRecommendationGenres(s)
           IN  /\ t \in ViewModel
               /\ SameActs(s, t) /\ SameLists(s, t) /\ SameService(s, t) /\ SameChoice(s, t)
               /\ t.home = s.home /\ t.initial = s.initial /\ t.busy = s.busy /\ t.warm = s.warm
               /\ t.refreshing = s.refreshing /\ t.loading = s.loading
               /\ \A k : HomeFits(s, k) => HomeFits(t, k)
<1> DEFINE t == refreshEmbyRecommendationGenres(s)
<1>1. CASE s.session \notin EmbyCards \/ s.genresLoading
  <2>1. t = s
    BY <1>1 DEF refreshEmbyRecommendationGenres
  <2>. HIDE DEF t
  <2>. QED  BY <2>1 DEF SameActs, SameLists, SameService, SameChoice, t
<1>2. CASE ~(s.session \notin EmbyCards \/ s.genresLoading)
  <2> DEFINE live == "live"
  <2>1. t = [s EXCEPT !.genres = live, !.genresLoading = TRUE]
    BY <1>2 DEF refreshEmbyRecommendationGenres
  <2>2. live \in {"none", "live", "stale"} /\ live # "none"
    OBVIOUS
  <2>. HIDE DEF live, t
  <2>3. t \in ViewModel
    BY <2>1, <2>2 DEF ViewModel
  <2>4. /\ SameActs(s, t) /\ SameLists(s, t) /\ SameService(s, t) /\ SameChoice(s, t)
        /\ t.home = s.home /\ t.initial = s.initial /\ t.busy = s.busy /\ t.warm = s.warm
        /\ t.refreshing = s.refreshing /\ t.loading = s.loading /\ t.genres = live
    BY <2>1 DEF ViewModel, SameActs, SameLists, SameService, SameChoice
  <2>5. Owners(t) = Owners(s) /\ Counted(t) = Counted(s)
    BY <2>4 DEF Owners, Counted
  <2>6. ASSUME NEW k, HomeFits(s, k) PROVE HomeFits(t, k)
    BY <2>2, <2>4, <2>5, <2>6 DEF HomeFits, SameActs, SameService
  <2>. QED  BY <2>3, <2>4, <2>6 DEF t
<1>. QED  BY <1>1, <1>2

LEMMA GenresGood ==
    ASSUME NEW s, NEW k, Core(s, k)
    PROVE  LET t == refreshEmbyRecommendationGenres(s)
           IN  Turned(s, t, k) /\ SameVisit(s, t) /\ t.home = s.home /\ t.valid = s.valid
<1> DEFINE t == refreshEmbyRecommendationGenres(s)
<1>1. s \in ViewModel
  BY DEF Core
<1>2. /\ t \in ViewModel
      /\ SameActs(s, t) /\ SameLists(s, t) /\ SameService(s, t) /\ SameChoice(s, t)
      /\ t.home = s.home /\ t.initial = s.initial /\ t.busy = s.busy
      /\ t.refreshing = s.refreshing /\ t.loading = s.loading
      /\ HomeFits(s, k) => HomeFits(t, k)
  BY <1>1, GenresAskedIs
<1>. HIDE DEF t
<1>3. Core(t, k)
  <2>1. BusyFits(t) /\ RefreshFits(t)
    BY <1>2 DEF Core, BusyFits, RefreshFits, SameService
  <2>. QED  BY <1>2, <2>1, ActsKept, ListsKept DEF Core
<1>4. LoadingFits(s) => LoadingFits(t)
  BY <1>2 DEF LoadingFits, SameActs, SameLists, SameChoice, Owners
<1>. QED  BY <1>2, <1>3, <1>4 DEF Turned, SameVisit, SameActs, SameService, SameChoice, t

LEMMA CachedGood ==
    ASSUME NEW s, NEW k, Core(s, k), NEW cached
    PROVE  LET t == ShowCached(s, cached)
           IN  Went(s, t, k) /\ SameVisit(s, t) /\ t.home = s.home
<1> DEFINE t == ShowCached(s, cached)
<1>1. s \in ViewModel
  BY DEF Core
<1>2. CASE cached.age = "none"
  <2>1. t = s
    BY <1>2 DEF ShowCached
  <2>. HIDE DEF t
  <2>. QED  BY <2>1 DEF Went, Kept, SameVisit, t
<1>3. CASE cached.age # "none"
  <2> DEFINE valid == s.valid \/ s.initial
             rails == [s.rails EXCEPT !["suggestions"] = s.session]
  <2>1. t = [s EXCEPT !.rails = rails, !.valid = valid]
    BY <1>1, <1>3 DEF ShowCached, ViewModel
  <2>2. rails \in [Rails -> MediaCards \union {None}] /\ valid \in BOOLEAN
    BY <1>1, VmFields DEF Rails
  <2>3. \A r \in Rails : rails[r] \in {s.rails[r], s.session}
    BY <1>1, VmFields
  <2>. HIDE DEF rails, valid, t
  <2>4. t \in ViewModel
    BY <1>1, <2>1, <2>2 DEF ViewModel
  <2>5. /\ SameActs(s, t) /\ SameLists(s, t) /\ SameHome(s, t) /\ t.rails = rails /\ t.iptv = s.iptv
        /\ t.loading = s.loading /\ t.logins = s.logins /\ t.session = s.session /\ t.dav = s.dav
    BY <1>1, <2>1 DEF ViewModel, SameActs, SameLists, SameHome
  <2>6. Core(t, k)
    BY <2>4, <2>5, CoreKept
  <2>7. LoadingFits(s) => LoadingFits(t)
    BY <2>5 DEF LoadingFits, SameActs, SameLists, SameHome, Owners
  <2>8. Kept(s, t)
    BY <2>3, <2>5 DEF Kept, Chosen
  <2>. QED  BY <2>5, <2>6, <2>7, <2>8 DEF Went, SameVisit, SameHome, t
<1>. QED  BY <1>2, <1>3

LEMMA SuggestionsGood ==
    ASSUME NEW s, NEW k \in Nat, Core(s, k), s.session \in MediaCards, s.view # "services",
           NEW quiet \in BOOLEAN, FreeCopies(s, "suggestions", quiet) # {}
    PROVE  LET t == AskSuggestions(s, quiet) IN Went(s, t, k) /\ SameVisit(s, t) /\ t.valid = s.valid
<1> DEFINE b == Visible(s, quiet)
           g == refreshEmbyRecommendationGenres(b)
           v == IF s.session \in EmbyCards THEN [g EXCEPT !.refreshing = TRUE] ELSE b
<1>1. s \in ViewModel /\ HomeFits(s, k) /\ BusyFits(s) /\ "suggestions" \in Rails /\ "suggestions" # "libraries"
  BY DEF Core, Rails
<1>2. /\ b \in ViewModel /\ HomeFits(b, IF quiet THEN k ELSE k + 1) /\ BusyFits(b)
      /\ SameActs(s, b) /\ SameLists(s, b) /\ SameService(s, b) /\ b.logins = s.logins /\ b.valid = s.valid
      /\ b.home = s.home /\ b.initial = s.initial /\ b.refreshing = s.refreshing /\ b.loading = s.loading
  BY <1>1, BegunFits DEF SameChoice
<1>3. AskSuggestions(s, quiet) = Asked(v, "suggestions", quiet)
  BY DEF AskSuggestions
<1>. HIDE DEF b
<1>4. CASE s.session \in EmbyCards
  <2>1. v = [g EXCEPT !.refreshing = TRUE]
    BY <1>4
  <2>2. /\ g \in ViewModel
        /\ SameActs(b, g) /\ SameLists(b, g) /\ SameService(b, g) /\ g.logins = b.logins /\ g.valid = b.valid
        /\ g.home = b.home /\ g.initial = b.initial /\ g.busy = b.busy /\ g.loading = b.loading
        /\ HomeFits(g, IF quiet THEN k ELSE k + 1)
    BY <1>2, GenresAskedIs DEF SameChoice
  <2>. HIDE DEF g, v
  <2>3. v \in ViewModel
    BY <2>1, <2>2 DEF ViewModel
  <2>4. /\ SameActs(g, v) /\ SameLists(g, v) /\ SameService(g, v) /\ v.logins = g.logins /\ v.valid = g.valid
        /\ v.home = g.home /\ v.initial = g.initial /\ v.busy = g.busy /\ v.loading = g.loading
        /\ v.warm = g.warm /\ v.genres = g.genres /\ v.genresLoading = g.genresLoading
    BY <2>1, <2>2 DEF ViewModel, SameActs, SameLists, SameService
  <2>5. HomeFits(v, IF quiet THEN k ELSE k + 1)
    BY <2>2, <2>4 DEF HomeFits, Owners, Counted, SameActs, SameService
  <2>6. BusyFits(v)
    BY <1>2, <2>2, <2>4 DEF BusyFits
  <2>7. /\ SameActs(s, v) /\ SameLists(s, v) /\ SameService(s, v) /\ v.logins = s.logins /\ v.home = s.home
        /\ v.initial = s.initial /\ v.loading = s.loading /\ v.valid = s.valid
    BY <1>2, <2>2, <2>4 DEF SameActs, SameLists, SameService
  <2>. QED  BY <1>1, <1>3, <1>4, <2>3, <2>5, <2>6, <2>7, AskGood
<1>5. CASE s.session \notin EmbyCards
  <2>1. v = b
    BY <1>5
  <2>. HIDE DEF v
  <2>. QED  BY <1>1, <1>2, <1>3, <2>1, AskGood
<1>. QED  BY <1>4, <1>5

LEMMA RecommendationsGood ==
    ASSUME NEW s, NEW k \in Nat, Core(s, k), s.session \in MediaCards, s.view # "services", NEW force \in BOOLEAN,
           NEW quiet \in BOOLEAN, FreeCopies(s, "suggestions", quiet) # {}, NEW cached \in Cached(s.session)
    PROVE  Went(s, refreshRecommendations(s, force, quiet, cached), k)
<1> DEFINE shown == ShowCached(s, cached)
           known == IF cached.genresMissing THEN refreshEmbyRecommendationGenres(shown) ELSE shown
           asked == AskSuggestions(shown, quiet)
           released(t, may) == IF t.initial /\ t.valid /\ may THEN completeInitialServiceLoad(t) ELSE t
           t == refreshRecommendations(s, force, quiet, cached)
<1>0. s.session # None
  BY CardsAssumption
<1>1. Went(s, shown, k) /\ SameVisit(s, shown) /\ shown.home = s.home
  BY CachedGood
<1>. HIDE DEF shown
<1>2. Core(shown, k) /\ shown.session = s.session /\ shown.view = s.view /\ FreeCopies(shown, "suggestions", quiet) # {}
  BY <1>1 DEF Went, SameVisit, FreeCopies, Same
<1>3. Went(s, known, k)
  BY <1>1, <1>2, GenresGood, TurnedWent, WentTwice
<1>4. Went(s, asked, k)
  <2>1. Went(shown, asked, k)
    BY <1>2, SuggestionsGood
  <2>. QED  BY <1>1, <2>1, WentTwice
<1>. HIDE DEF known, asked
<1>5. ASSUME NEW u, Went(s, u, k), NEW may PROVE Went(s, released(u, may), k)
  <2>1. CASE u.initial /\ u.valid /\ may
    <3>1. Core(u, k)
      BY <1>5 DEF Went
    <3>2. /\ u \in ViewModel /\ ActsFit(u) /\ StaysHere(u) /\ ResultsFit(u) /\ ListsFit(u) /\ HomeFits(u, k) /\ RefreshFits(u)
      BY <3>1 DEF Core
    <3> DEFINE e == completeInitialServiceLoad(u)
    <3>3. Core(e, k) /\ Kept(u, e) /\ (e = u \/ ~e.loading)
      BY <2>1, <3>2, CompletedGood
    <3>. HIDE DEF e
    <3>4. LoadingFits(u) => LoadingFits(e)
      BY <3>3 DEF LoadingFits
    <3>5. Went(s, e, k)
      BY <1>5, <3>3, <3>4 DEF Went, Kept
    <3>. QED  BY <2>1, <3>5 DEF e
  <2>2. CASE ~(u.initial /\ u.valid /\ may)
    BY <1>5, <2>2
  <2>. QED  BY <2>1, <2>2
<1>6. t = s \/ t = released(known, TRUE) \/ t = released(asked, ~quiet)
  BY <1>0 DEF refreshRecommendations, known, asked, shown
<1>. HIDE DEF released, t
<1>7. Went(s, s, k)
  BY DEF Went, Kept
<1>. QED  BY <1>3, <1>4, <1>5, <1>6, <1>7 DEF t

LEMMA RefreshGood ==
    ASSUME NEW s, NEW k \in Nat, Core(s, k), s.session \in MediaCards, s.view # "services",
           NEW quiet \in BOOLEAN, Free(s, Rails, quiet), NEW cached \in Cached(s.session)
    PROVE  Went(s, refreshHome(s, quiet, cached), k)
<1> DEFINE a == [s EXCEPT !.stamped = TRUE]
           l == refreshLibraries(a, quiet)
           r == refreshContinueWatching(l, quiet)
           t == refreshRecommendations(r, FALSE, quiet, cached)
<1>1. s.session # None /\ s \in ViewModel
  BY CardsAssumption DEF Core
<1>2. refreshHome(s, quiet, cached) = t
  BY <1>1 DEF refreshHome
<1>3. a \in ViewModel
  BY <1>1 DEF ViewModel
<1>4. /\ SameActs(s, a) /\ SameLists(s, a) /\ SameHome(s, a) /\ SameService(s, a) /\ a.loading = s.loading /\ a.logins = s.logins
  BY <1>1 DEF ViewModel, SameActs, SameLists, SameHome, SameService
<1>. HIDE DEF a
<1>5. Went(s, a, k)
  <2>1. Core(a, k)
    BY <1>3, <1>4, CoreKept
  <2>2. LoadingFits(s) => LoadingFits(a)
    BY <1>4 DEF LoadingFits, SameActs, SameLists, SameHome, Owners
  <2>. QED  BY <1>4, <2>1, <2>2, ChosenKept DEF Went, Kept
<1>6. /\ Core(a, k) /\ a.session = s.session /\ a.view = s.view
      /\ \A op \in Rails : FreeCopies(a, op, quiet) # {}
  BY <1>4, <1>5 DEF Went, SameHome, Free, FreeCopies, Same
<1>7. "libraries" \in Rails /\ "resume" \in Rails /\ "suggestions" \in Rails
  BY DEF Rails
<1>8. /\ Went(a, l, k) /\ SameVisit(a, l)
      /\ \A other \in Rails : other # "libraries" => FreeCopies(l, other, quiet) = FreeCopies(a, other, quiet)
  BY <1>6, <1>7, LibrariesGood
<1>. HIDE DEF l
<1>9. /\ Core(l, k) /\ l.session = s.session /\ l.view = s.view
      /\ FreeCopies(l, "resume", quiet) # {} /\ FreeCopies(l, "suggestions", quiet) # {}
  BY <1>6, <1>7, <1>8 DEF Went, SameVisit
<1>10. /\ Went(l, r, k) /\ SameVisit(l, r)
       /\ \A other \in Rails : other # "resume" => FreeCopies(r, other, quiet) = FreeCopies(l, other, quiet)
  BY <1>9, ResumeGood
<1>. HIDE DEF r
<1>11. Core(r, k) /\ r.session = s.session /\ r.view = s.view /\ FreeCopies(r, "suggestions", quiet) # {}
  BY <1>7, <1>9, <1>10 DEF Went, SameVisit
<1>12. Went(r, t, k)
  BY <1>11, RecommendationsGood
<1>. HIDE DEF t
<1>13. Went(s, l, k)
  BY <1>5, <1>8, WentTwice
<1>14. Went(s, r, k)
  BY <1>10, <1>13, WentTwice
<1>15. Went(s, t, k)
  BY <1>12, <1>14, WentTwice
<1>. QED  BY <1>2, <1>15

-----------------------------------------------------------------------------
(* The ways into a service *)

LEMMA ResetIs ==
    ASSUME NEW s \in ViewModel
    PROVE  LET t == resetEmbyRecommendationRuntimeState(s)
           IN  /\ t \in ViewModel /\ ~t.refreshing /\ ~t.genresLoading
               /\ SameActs(s, t) /\ SameLists(s, t) /\ SameService(s, t)
               /\ t.view = s.view /\ t.home = s.home /\ t.busy = s.busy /\ t.warm = s.warm /\ t.initial = s.initial
<1> DEFINE none == "none"
           t == resetEmbyRecommendationRuntimeState(s)
<1>1. t = [s EXCEPT !.genres = none, !.genresLoading = FALSE, !.refreshing = FALSE]
  BY DEF resetEmbyRecommendationRuntimeState, GenresForgotten, ViewModel
<1>2. none \in {"none", "live", "stale"}
  OBVIOUS
<1>. HIDE DEF none, t
<1>3. t \in ViewModel
  BY <1>1, <1>2 DEF ViewModel
<1>4. /\ ~t.refreshing /\ ~t.genresLoading
      /\ SameActs(s, t) /\ SameLists(s, t) /\ SameService(s, t)
      /\ t.view = s.view /\ t.home = s.home /\ t.busy = s.busy /\ t.warm = s.warm /\ t.initial = s.initial
  BY <1>1 DEF ViewModel, SameActs, SameLists, SameService
<1>. QED  BY <1>3, <1>4 DEF t

LEMMA ReservedIs ==
    ASSUME NEW s \in ViewModel
    PROVE  LET t == [beginHomeLoading([s EXCEPT !.iptv = None]) EXCEPT !.loading = TRUE]
           IN  /\ t \in ViewModel /\ t.busy = s.busy + 1 /\ t.iptv = None
               /\ SameActs(s, t) /\ SameLists(s, t)
               /\ t.view = s.view /\ t.home = s.home /\ t.warm = s.warm /\ t.initial = s.initial
               /\ t.refreshing = s.refreshing /\ t.genresLoading = s.genresLoading
               /\ t.rails = s.rails /\ t.dav = s.dav /\ t.session = s.session
<1> DEFINE busy == s.busy + 1
           t == [beginHomeLoading([s EXCEPT !.iptv = None]) EXCEPT !.loading = TRUE]
<1>1. t = [s EXCEPT !.iptv = None, !.busy = busy, !.loading = TRUE]
  BY DEF beginHomeLoading, ViewModel
<1>2. busy \in Nat
  BY VmFields
<1>. HIDE DEF busy, t
<1>3. t \in ViewModel
  BY <1>1, <1>2 DEF ViewModel
<1>4. /\ t.busy = busy /\ t.iptv = None
      /\ SameActs(s, t) /\ SameLists(s, t)
      /\ t.view = s.view /\ t.home = s.home /\ t.warm = s.warm /\ t.initial = s.initial
      /\ t.refreshing = s.refreshing /\ t.genresLoading = s.genresLoading
      /\ t.rails = s.rails /\ t.dav = s.dav /\ t.session = s.session
  BY <1>1 DEF ViewModel, SameActs, SameLists
<1>. QED  BY <1>3, <1>4 DEF t, busy

\* The callbacks of an earlier visit, of this service or another, are no longer answered for.
LEMMA HomeLoadedGood ==
    ASSUME NEW s \in ViewModel, ActsFit(s), StaysHere(s), ResultsFit(s), ListsFit(s), s.session \in MediaCards,
           s.initial => s.view = "home"
    PROVE  LET t == loadServiceHome(s)
           IN  /\ Core(t, 0) /\ LoadingFits(t)
               /\ t.rails = s.rails /\ t.dav = s.dav /\ t.iptv = None /\ t.session = s.session
<1> DEFINE h == invalidateHomeLoading(s)
           clean == resetEmbyRecommendationRuntimeState(h)
           yes == TRUE
           no == FALSE
           p == [beginHomeLoading([clean EXCEPT !.iptv = None]) EXCEPT !.loading = TRUE]
           shown == setCurrentView(p, "home")
           f == [shown EXCEPT !.initial = yes, !.valid = no]
           t == Asked(f, "start", no)
<1>1. loadServiceHome(s) = t
  BY CardsAssumption DEF loadServiceHome
<1>2. /\ h \in ViewModel
      /\ IsFiniteSet(h.home) /\ Live(h.home) = {} /\ h.busy = 0 /\ ~h.warm /\ ~h.refreshing /\ ~h.genresLoading
      /\ h.view = s.view /\ h.initial = s.initial
      /\ SameActs(s, h) /\ SameLists(s, h) /\ SameService(s, h)
  BY HomeInvalidatedIs
<1>. HIDE DEF h
<1>3. /\ clean \in ViewModel /\ ~clean.refreshing /\ ~clean.genresLoading
      /\ SameActs(h, clean) /\ SameLists(h, clean) /\ SameService(h, clean)
      /\ clean.view = h.view /\ clean.home = h.home /\ clean.busy = 0 /\ ~clean.warm /\ clean.initial = h.initial
  BY <1>2, ResetIs
<1>4. yes \in BOOLEAN /\ no \in BOOLEAN /\ yes /\ ~no
  OBVIOUS
<1>. HIDE DEF clean
<1>5. /\ p \in ViewModel /\ p.busy = 1 /\ p.iptv = None /\ SameActs(clean, p) /\ SameLists(clean, p)
      /\ p.view = clean.view /\ p.home = clean.home /\ p.warm = clean.warm /\ p.initial = clean.initial
      /\ p.refreshing = clean.refreshing /\ p.genresLoading = clean.genresLoading
      /\ p.rails = clean.rails /\ p.dav = clean.dav /\ p.session = clean.session
  BY <1>3, ReservedIs
<1>. HIDE DEF p, yes, no
<1>6. /\ SameActs(h, p) /\ SameLists(h, p) /\ p.view = h.view /\ p.home = h.home /\ p.busy = 1 /\ ~p.warm /\ ~p.refreshing
      /\ ~p.genresLoading /\ p.initial = h.initial /\ p.rails = h.rails /\ p.session = h.session /\ p.dav = h.dav /\ p.iptv = None
  BY <1>3, <1>5 DEF SameActs, SameLists, SameService
<1>7. SameActs(s, p) /\ SameLists(s, p) /\ Live(p.home) = {} /\ IsFiniteSet(p.home) /\ p.session = s.session
  BY <1>2, <1>6 DEF SameActs, SameLists, SameService
<1>8. Core(p, 1)
  <2>1. Owners(p) = {} /\ Counted(p) = {}
    BY <1>7 DEF Owners, Counted, Live
  <2>2. Cardinality(Owners(p)) = 0 /\ Cardinality(Counted(p)) = 0
    BY <2>1, FS_EmptySet
  <2>3. p.initial => p.session # None /\ p.view = "home" /\ ~p.warm
    BY <1>2, <1>6, <1>7, CardsAssumption
  <2>4. /\ p.busy <= Cardinality(Counted(p)) + 1
        /\ Cardinality(Owners(p)) + 1 <= p.busy
    BY <1>6, <2>2
  <2>5. HomeFits(p, 1)
    BY <1>6, <1>7, <2>3, <2>4 DEF HomeFits
  <2>6. BusyFits(p) /\ RefreshFits(p)
    BY <1>6 DEF BusyFits, RefreshFits
  <2>. QED  BY <1>5, <1>7, <2>5, <2>6, ActsKept, ListsKept DEF Core
<1>9. Turned(p, shown, 1) /\ shown.view = "home" /\ shown.home = p.home /\ shown.busy = 1 /\ ~shown.warm
  BY <1>6, <1>8, ToHomeGood
<1>. HIDE DEF shown
<1>10. shown \in ViewModel /\ Core(shown, 1) /\ shown.session = s.session
  BY <1>7, <1>9 DEF Turned, Core, SameService
<1>11. f \in ViewModel
  BY <1>4, <1>10 DEF ViewModel
<1>12. /\ SameActs(shown, f) /\ SameLists(shown, f) /\ SameService(shown, f) /\ f.view = "home" /\ f.initial
       /\ f.home = shown.home /\ f.busy = 1 /\ ~f.warm /\ f.session = s.session
       /\ f.refreshing = shown.refreshing /\ f.genres = shown.genres /\ f.genresLoading = shown.genresLoading
  BY <1>4, <1>9, <1>10 DEF ViewModel, SameActs, SameLists, SameService
<1>. HIDE DEF f
<1>13. Live(f.home) = {} /\ IsFiniteSet(f.home)
  BY <1>7, <1>9, <1>12
<1>14. HomeFits(f, 1)
  <2>1. Cardinality(Counted(f)) \in Nat
    BY <1>13, OwnersFinite
  <2>2. f.busy <= Cardinality(Counted(f)) + 1
    BY <1>12, <2>1
  <2>3. f.genresLoading => f.genres # "none"
    BY <1>10, <1>12 DEF Core, HomeFits
  <2>. QED  BY <1>12, <1>13, <2>2, <2>3, CardsAssumption DEF HomeFits
<1>15. FreeCopies(f, "start", no) # {}
  <2>1. Same(f, "start", no) = {}
    BY <1>13 DEF Same, Live
  <2>2. 1 \in 1..MaxCopies
    BY CardsAssumption
  <2>. QED  BY <2>1, <2>2 DEF FreeCopies
<1>16. f.session \in MediaCards /\ f.view # "services" /\ "start" \in Rails \union {"start"} /\ 0 \in Nat
  BY <1>12
<1>17. HomeFits(t, 0)
  <2>1. HomeFits(f, IF no THEN 0 ELSE 0 + 1)
    BY <1>4, <1>14
  <2>. QED  BY <1>4, <1>11, <1>12, <1>15, <1>16, <2>1, AskedFits
<1>18. /\ t \in ViewModel
       /\ SameActs(f, t) /\ SameLists(f, t) /\ SameService(f, t)
       /\ t.initial = f.initial /\ t.busy = f.busy /\ t.refreshing = f.refreshing
       /\ \E c \in HomeCall : t.home = f.home \union {c}
  BY <1>4, <1>11, <1>15, <1>16, AskedIs
<1>. HIDE DEF t
<1>19. BusyFits(t) /\ RefreshFits(t)
  BY <1>9, <1>10, <1>12, <1>18 DEF BusyFits, RefreshFits, Core, SameService
<1>20. SameActs(shown, t) /\ SameLists(shown, t) /\ SameService(shown, t)
  BY <1>12, <1>18 DEF SameActs, SameLists, SameService
<1>21. Core(t, 0)
  BY <1>10, <1>17, <1>18, <1>19, <1>20, ActsKept, ListsKept DEF Core
<1>22. LoadingFits(t)
  BY <1>12, <1>18 DEF LoadingFits
<1>23. t.rails = s.rails /\ t.dav = s.dav /\ t.iptv = None /\ t.session = s.session
  BY <1>2, <1>6, <1>9, <1>20 DEF Turned, SameService
<1>. QED  BY <1>1, <1>21, <1>22, <1>23

\* On the page of the services nothing of the home is on its way.
LEMMA ServicesQuiet ==
    ASSUME NEW s, Core(s, 0), s.view = "services"
    PROVE  Live(s.home) = {} /\ s.busy = 0 /\ ~s.initial
<1>1. Live(s.home) = {} /\ s.busy \in Nat /\ s.initial \in BOOLEAN /\ ~s.initial
  BY VmFields DEF Core, HomeFits
<1>2. Counted(s) = {}
  BY <1>1 DEF Counted, Owners, Live
<1>3. Cardinality(Counted(s)) = 0
  BY <1>2, FS_EmptySet
<1>4. s.busy <= Cardinality(Counted(s)) + 0
  BY DEF Core, HomeFits
<1>. QED  BY <1>1, <1>3, <1>4

LEMMA StillFits ==
    ASSUME NEW s, IsFiniteSet(s.home), Live(s.home) = {}, s.busy = 0, ~s.initial, ~s.refreshing, ~s.genresLoading
    PROVE  HomeFits(s, 0) /\ BusyFits(s) /\ RefreshFits(s)
<1>1. Owners(s) = {} /\ Counted(s) = {}
  BY DEF Owners, Counted, Live
<1>2. Cardinality(Owners(s)) = 0 /\ Cardinality(Counted(s)) = 0
  BY <1>1, FS_EmptySet
<1>. QED  BY <1>2 DEF HomeFits, BusyFits, RefreshFits

LEMMA IptvGood ==
    ASSUME NEW s, Core(s, 0), s.view = "services", NEW card \in PlaylistCards
    PROVE  LET t == applyIptvService(s, card)
           IN  /\ Core(t, 0) /\ (~s.loading => ~t.loading)
               /\ t.rails = NoRails /\ t.session = None /\ t.dav = s.dav /\ t.iptv = card
<1> DEFINE m == NoMediaServer(s)
           i == [m EXCEPT !.iptv = card]
           t == setCurrentView(i, "iptv")
<1>1. applyIptvService(s, card) = t
  BY DEF applyIptvService
<1>2. s \in ViewModel /\ Live(s.home) = {} /\ s.busy = 0 /\ ~s.initial /\ IsFiniteSet(s.home)
  BY ServicesQuiet DEF Core, HomeFits
<1>3. /\ m \in ViewModel /\ m.session = None /\ m.rails = NoRails /\ ~m.refreshing /\ ~m.genresLoading
      /\ m.view = s.view /\ m.busy = s.busy /\ m.home = s.home /\ m.initial = s.initial
      /\ m.loading = s.loading /\ m.dav = s.dav /\ SameActs(s, m) /\ SameLists(s, m)
  BY <1>2, NoMediaServerIs
<1>. HIDE DEF m
<1>4. i \in ViewModel
  BY <1>3 DEF ViewModel
<1>5. /\ i.session = None /\ i.rails = NoRails /\ ~i.refreshing /\ ~i.genresLoading
      /\ i.view = s.view /\ i.busy = 0 /\ i.home = s.home /\ ~i.initial
      /\ i.loading = s.loading /\ i.dav = s.dav /\ i.iptv = card /\ SameActs(s, i) /\ SameLists(s, i)
  BY <1>2, <1>3 DEF ViewModel, SameActs, SameLists
<1>. HIDE DEF i
<1>6. Core(i, 0)
  <2>1. HomeFits(i, 0) /\ BusyFits(i) /\ RefreshFits(i)
    BY <1>2, <1>5, StillFits
  <2>. QED  BY <1>4, <1>5, <2>1, ActsKept, ListsKept DEF Core
<1>7. "iptv" \in Pages /\ "iptv" # "services"
  BY DEF Pages
<1>8. Turned(i, t, 0)
  BY <1>6, <1>7, ViewGood
<1>. HIDE DEF t
<1>. QED  BY <1>1, <1>5, <1>8 DEF Turned, SameService

LEMMA ListingGood ==
    ASSUME NEW s, Core(s, 0)
    PROVE  LET t == loadWebDavDirectory(s)
           IN  Core(t, 0) /\ (LoadingFits(s) => LoadingFits(t)) /\ SameService(s, t)
<1>1. CASE s.dav = None
  BY <1>1 DEF loadWebDavDirectory, SameService
<1>2. CASE s.dav # None
  <2> DEFINE l == [card |-> s.dav, live |-> TRUE]
             lists == StaleLists(s) \union {l}
             t == loadWebDavDirectory(s)
  <2>1. t = [s EXCEPT !.lists = lists, !.loading = TRUE]
    BY <1>2 DEF loadWebDavDirectory
  <2>2. s \in ViewModel /\ s.dav \in DavCards
    BY <1>2, VmFields DEF Core
  <2>3. l \in ListCall /\ l.live /\ l.card = s.dav
    BY <2>2 DEF ListCall
  <2>. HIDE DEF l
  <2>4. lists \in SUBSET ListCall /\ Live(lists) = {l}
    BY <2>2, <2>3, StaleIs DEF Live
  <2>. HIDE DEF lists, t
  <2>5. t \in ViewModel
    BY <2>1, <2>2, <2>4 DEF ViewModel
  <2>6. /\ SameActs(s, t) /\ SameHome(s, t) /\ SameService(s, t) /\ t.lists = lists /\ t.dav = s.dav
    BY <2>1, <2>2 DEF ViewModel, SameActs, SameHome, SameService
  <2>7. ListsFit(t)
    BY <2>3, <2>4, <2>6 DEF ListsFit
  <2>8. Core(t, 0)
    BY <2>5, <2>6, <2>7, ActsKept, HomeKept DEF Core
  <2>9. LoadingFits(t)
    BY <2>4, <2>6 DEF LoadingFits
  <2>. QED  BY <2>6, <2>8, <2>9 DEF t
<1>. QED  BY <1>1, <1>2

LEMMA DavGood ==
    ASSUME NEW s, Core(s, 0), s.view = "services", NEW card \in DavCards
    PROVE  LET t == loadWebDavService(s, card)
           IN  /\ Core(t, 0) /\ LoadingFits(t)
               /\ t.rails = NoRails /\ t.session = None /\ t.dav = card /\ t.iptv = None
<1> DEFINE m == NoMediaServer(s)
           d == [m EXCEPT !.iptv = None, !.dav = card]
           a == LeavesServices(d, "webdav")
           b == LeavesHome(a, "webdav")
           v == [b EXCEPT !.view = "webdav"]
           l == [card |-> card, live |-> TRUE]
           lists == StaleLists(v) \union {l}
           t == loadWebDavService(s, card)
<1>2. s \in ViewModel /\ Live(s.home) = {} /\ s.busy = 0 /\ ~s.initial /\ IsFiniteSet(s.home)
  BY ServicesQuiet DEF Core, HomeFits
<1>3. /\ m \in ViewModel /\ m.session = None /\ m.rails = NoRails /\ ~m.refreshing /\ ~m.genresLoading
      /\ m.view = s.view /\ m.busy = s.busy /\ m.home = s.home /\ m.initial = s.initial /\ SameActs(s, m)
  BY <1>2, NoMediaServerIs
<1>1. t = loadWebDavDirectory(setCurrentView(d, "webdav"))
  BY DEF loadWebDavService
<1>. HIDE DEF m
<1>4. d \in ViewModel
  <2> DEFINE e == [m EXCEPT !.iptv = None]
  <2>1. m \in ViewModel
    BY <1>3
  <2>2. e \in ViewModel
    BY <2>1 DEF ViewModel
  <2>3. d = [e EXCEPT !.dav = card]
    OBVIOUS
  <2>. HIDE DEF e, d
  <2>. QED  BY <2>2, <2>3 DEF ViewModel
<1>5. /\ d.session = None /\ d.rails = NoRails /\ ~d.refreshing /\ ~d.genresLoading
      /\ d.view = "services" /\ d.busy = 0 /\ d.home = s.home /\ ~d.initial
      /\ d.dav = card /\ d.iptv = None /\ SameActs(s, d)
  BY <1>2, <1>3 DEF ViewModel, SameActs
<1>. HIDE DEF d
<1>6. ActsFit(d) /\ ResultsFit(d)
  BY <1>5, ActsKept DEF Core
<1>7. a \in ViewModel /\ ActsFit(a) /\ ResultsFit(a) /\ ~a.inFlight /\ SameHome(d, a) /\ SameService(d, a)
  <2>1. CASE d.inFlight \/ d.moving \/ d.gate # None \/ d.initial
    <3>1. a = invalidateServiceActivation(d)
      BY <1>5, <2>1 DEF LeavesServices
    <3>. QED  BY <1>4, <1>6, <3>1, InvalidatedIs, ActsForgotten
  <2>2. CASE ~(d.inFlight \/ d.moving \/ d.gate # None \/ d.initial)
    <3>1. a = d
      BY <2>2 DEF LeavesServices
    <3>. QED  BY <1>4, <1>6, <2>2, <3>1 DEF SameHome, SameService
  <2>. QED  BY <2>1, <2>2
<1>. HIDE DEF a
<1>8. setCurrentView(d, "webdav") = v
  BY <1>5 DEF setCurrentView, a
<1>9. b = [a EXCEPT !.initial = FALSE]
  BY <1>5, <1>7 DEF LeavesHome, SameHome
<1>. HIDE DEF b
<1>10. v = [a EXCEPT !.initial = FALSE, !.view = "webdav"]
  BY <1>9
<1>11. "webdav" \in Pages
  BY DEF Pages
<1>. HIDE DEF v
<1>12. v \in ViewModel
  BY <1>7, <1>10, <1>11 DEF ViewModel
<1>13. /\ v.view = "webdav" /\ ~v.initial /\ ~v.inFlight /\ v.moving = a.moving /\ v.gate = a.gate /\ v.acts = a.acts
       /\ v.inFlight = a.inFlight /\ v.home = s.home /\ v.busy = 0 /\ ~v.refreshing /\ ~v.genresLoading
       /\ v.dav = card /\ v.rails = NoRails /\ v.session = None /\ v.iptv = None
  <2>1. /\ v.view = "webdav" /\ ~v.initial /\ v.moving = a.moving /\ v.gate = a.gate /\ v.acts = a.acts
        /\ v.inFlight = a.inFlight /\ v.home = a.home /\ v.busy = a.busy
        /\ v.refreshing = a.refreshing /\ v.genresLoading = a.genresLoading
        /\ SameService(a, v)
    BY <1>7, <1>10 DEF ViewModel, SameService
  <2>. QED  BY <1>5, <1>7, <2>1 DEF SameHome, SameService
<1>14. t = [v EXCEPT !.lists = lists, !.loading = TRUE]
  BY <1>1, <1>8, <1>13, CardsAssumption DEF loadWebDavDirectory
<1>15. l \in ListCall /\ l.live /\ l.card = card
  BY DEF ListCall
<1>. HIDE DEF l
<1>16. lists \in SUBSET ListCall /\ Live(lists) = {l}
  BY <1>12, <1>15, StaleIs DEF Live
<1>. HIDE DEF lists, t
<1>17. t \in ViewModel
  BY <1>12, <1>14, <1>16 DEF ViewModel
<1>18. SameActs(v, t) /\ SameHome(v, t) /\ SameService(v, t) /\ t.lists = lists
  BY <1>12, <1>14 DEF ViewModel, SameActs, SameHome, SameService
<1>19. ActsFit(v) /\ StaysHere(v) /\ ResultsFit(v)
  BY <1>7, <1>13 DEF ActsFit, StaysHere, ResultsFit
<1>20. HomeFits(v, 0) /\ BusyFits(v) /\ RefreshFits(v)
  BY <1>2, <1>13, StillFits
<1>21. ListsFit(t)
  BY <1>13, <1>15, <1>16, <1>18 DEF ListsFit, SameService
<1>22. Core(t, 0)
  BY <1>17, <1>18, <1>19, <1>20, <1>21, ActsKept, HomeKept DEF Core
<1>23. LoadingFits(t)
  BY <1>16, <1>18 DEF LoadingFits
<1>. QED  BY <1>13, <1>18, <1>22, <1>23 DEF SameService, t

\* From the pages below it, back to the page of the service.
LEMMA BackHomeGood ==
    ASSUME NEW s, Core(s, 0), LoadingFits(s)
    PROVE  Went(s, backToHome(s), 0)
<1>1. s \in ViewModel /\ ResultsFit(s) /\ StaysHere(s) /\ ListsFit(s)
  BY DEF Core
<1>2. Went(s, backToServices(s), 0)
  <2> DEFINE t == backToServices(s)
  <2>1. Core(t, 0) /\ ~t.loading /\ Kept(s, t)
    BY <1>1, BackGood
  <2>. HIDE DEF t
  <2>2. LoadingFits(t)
    BY <2>1 DEF LoadingFits
  <2>. QED  BY <2>1, <2>2 DEF Went, t
<1>3. ASSUME NEW view \in Pages, view = "services" => Live(s.home) = {} PROVE Went(s, setCurrentView(s, view), 0)
  BY <1>3, ViewGood, TurnedWent
<1>4. {"services", "home", "webdav", "iptv"} \subseteq Pages
  BY DEF Pages
<1>5. s.session = None => Live(s.home) = {}
  <2>. SUFFICES ASSUME s.session = None, NEW c \in Live(s.home) PROVE FALSE
    OBVIOUS
  <2>1. c.card = None /\ c \in HomeCall
    BY <1>1, VmFields DEF Core, HomeFits, Live
  <2>. QED  BY <2>1, CardsAssumption DEF HomeCall
<1>6. CASE s.dav # None
  BY <1>2, <1>3, <1>4, <1>6 DEF backToHome
<1>7. CASE s.dav = None /\ s.iptv # None
  BY <1>2, <1>3, <1>4, <1>7 DEF backToHome
<1>8. CASE s.dav = None /\ s.iptv = None
  <2>1. CASE s.session # None
    <3>1. backToHome(s) = setCurrentView(s, "home")
      BY <1>8, <2>1 DEF backToHome
    <3>. QED  BY <1>3, <1>4, <3>1
  <2>2. CASE s.session = None
    <3>1. backToHome(s) = setCurrentView(s, "services")
      BY <1>8, <2>2 DEF backToHome
    <3>. QED  BY <1>3, <1>4, <1>5, <2>2, <3>1
  <2>. QED  BY <2>1, <2>2
<1>. QED  BY <1>6, <1>7, <1>8

-----------------------------------------------------------------------------
(* One step of the view model *)

Step(s, t) == EntryGood(t) /\ Chosen(s, t)

LEMMA ChosenSelf == ASSUME NEW s \in ViewModel PROVE Chosen(s, s)
BY VmFields DEF Chosen

LEMMA WentStep == ASSUME NEW s, NEW t, EntryGood(s), Went(s, t, 0) PROVE Step(s, t)
BY ChosenSelf DEF EntryGood, Went, Kept, Step, Core

\* A record of the same service, that need not be the one of the step.
LEMMA ServiceStep ==
    ASSUME NEW s \in ViewModel, NEW t, SameService(s, t), Core(t, 0), LoadingFits(t) PROVE Step(s, t)
BY ChosenSelf, ChosenKept DEF EntryGood, Step

LEMMA SameStep ==
    ASSUME NEW s, EntryGood(s), NEW t \in ViewModel, SameActs(s, t), SameLists(s, t), SameHome(s, t), SameService(s, t),
           t.loading => s.loading, t.logins = s.logins
    PROVE  Step(s, t)
<1>1. Core(t, 0)
  BY CoreKept DEF EntryGood
<1>2. LoadingFits(t)
  BY DEF EntryGood, LoadingFits, SameActs, SameLists, SameHome, Owners
<1>. QED  BY <1>1, <1>2, ServiceStep DEF EntryGood, Core

LEMMA LoadingOff ==
    ASSUME NEW s, NEW k, Core(s, k)
    PROVE  LET t == [s EXCEPT !.loading = FALSE]
           IN  /\ Core(t, k) /\ LoadingFits(t) /\ SameService(s, t)
               /\ t.view = s.view /\ t.home = s.home /\ t.initial = s.initial /\ ~t.loading
               /\ t.pending = s.pending /\ t.logins = s.logins
<1> DEFINE t == [s EXCEPT !.loading = FALSE]
<1>1. s \in ViewModel
  BY DEF Core
<1>2. t \in ViewModel
  BY <1>1 DEF ViewModel
<1>3. /\ SameActs(s, t) /\ SameLists(s, t) /\ SameHome(s, t) /\ SameService(s, t) /\ ~t.loading
      /\ t.pending = s.pending /\ t.logins = s.logins
  BY <1>1 DEF ViewModel, SameActs, SameLists, SameHome, SameService
<1>. HIDE DEF t
<1>4. Core(t, k)
  BY <1>2, <1>3, CoreKept
<1>. QED  BY <1>3, <1>4 DEF LoadingFits, SameHome, t

LEMMA SelectStep ==
    ASSUME EntryGood(vm), NEW card \in Cards, SelectServiceCard(card) PROVE Step(vm, vm')
<1>1. PICK transitions \in BOOLEAN :
          vm' = [vm EXCEPT
                    !.acts = StaleActs(vm) \union {[card |-> card, live |-> TRUE, at |-> "feedback", result |-> "-"]},
                    !.inFlight = TRUE, !.gate = None, !.moving = transitions, !.expanded = ~transitions,
                    !.pending = card, !.loading = TRUE]
  BY DEF SelectServiceCard
<1> DEFINE a == [card |-> card, live |-> TRUE, at |-> "feedback", result |-> "-"]
           acts == StaleActs(vm) \union {a}
           still == ~transitions
           t == vm'
<1>2. t = [vm EXCEPT !.acts = acts, !.inFlight = TRUE, !.gate = None, !.moving = transitions, !.expanded = still,
                     !.pending = card, !.loading = TRUE]
  BY <1>1
<1>3. vm \in ViewModel /\ vm.view = "services" /\ Core(vm, 0)
  BY DEF EntryGood, Core, SelectServiceCard
<1>4. a \in Act /\ a.live /\ a.at # "commit"
  BY DEF Act
<1>. HIDE DEF a
<1>5. acts \in SUBSET Act /\ Live(acts) = {a} /\ still \in BOOLEAN /\ transitions \in BOOLEAN /\ card \in Cards \union {None}
  BY <1>1, <1>3, <1>4, StaleIs DEF Live
<1>6. \A b \in acts : b.at = "commit" => b.result \in Results(b.card)
  BY <1>3, <1>4, StaleResults DEF Core
<1>. HIDE DEF acts, still, t
<1>7. t \in ViewModel
  <2> DEFINE u == [vm EXCEPT !.acts = acts, !.inFlight = TRUE, !.gate = None, !.moving = transitions]
  <2>1. vm \in ViewModel
    BY <1>3
  <2>2. u \in ViewModel
    BY <1>5, <2>1 DEF ViewModel
  <2>3. t = [u EXCEPT !.expanded = still, !.pending = card, !.loading = TRUE]
    BY <1>2
  <2>. HIDE DEF u
  <2>. QED  BY <1>5, <2>2, <2>3 DEF ViewModel
<1>8. /\ SameLists(vm, t) /\ SameHome(vm, t) /\ SameService(vm, t) /\ t.acts = acts /\ t.inFlight /\ t.gate = None
      /\ t.view = "services"
  BY <1>2, <1>3 DEF ViewModel, SameLists, SameHome, SameService
<1>9. ActsFit(t) /\ StaysHere(t) /\ ResultsFit(t)
  BY <1>5, <1>6, <1>8 DEF ActsFit, StaysHere, ResultsFit
<1>10. Core(t, 0)
  BY <1>3, <1>7, <1>8, <1>9, ListsKept, HomeKept DEF Core
<1>11. LoadingFits(t)
  BY <1>8 DEF LoadingFits
<1>. QED  BY <1>3, <1>8, <1>10, <1>11, ServiceStep DEF t

\* The record without the callback that runs
RestOf(s, a) == [s EXCEPT !.acts = @ \ {a}]

LEMMA RestIs ==
    ASSUME NEW s, EntryGood(s), NEW a \in s.acts
    PROVE  LET t == RestOf(s, a)
           IN  /\ t \in ViewModel /\ t.acts = s.acts \ {a} /\ t.inFlight = s.inFlight /\ t.moving = s.moving /\ t.gate = s.gate
               /\ t.view = s.view /\ t.loading = s.loading /\ t.logins = s.logins /\ t.pending = s.pending
               /\ SameLists(s, t) /\ SameHome(s, t) /\ SameService(s, t)
               /\ ResultsFit(t) /\ StaysHere(t) /\ ListsFit(t) /\ HomeFits(t, 0) /\ BusyFits(t) /\ RefreshFits(t) /\ LoadingFits(t)
               /\ a.live => Live(t.acts) = {} /\ t.gate = None /\ t.inFlight
               /\ ~a.live => Live(t.acts) = Live(s.acts)
<1> DEFINE acts == s.acts \ {a}
           t == RestOf(s, a)
<1>1. s \in ViewModel /\ Core(s, 0) /\ LoadingFits(s)
  BY DEF EntryGood, Core
<1>2. t = [s EXCEPT !.acts = acts]
  BY DEF RestOf
<1>3. acts \in SUBSET Act
  BY <1>1, VmFields
<1>4. a.live => Live(acts) = {}
  BY <1>1 DEF Core, ActsFit, Live
<1>5. ~a.live => Live(acts) = Live(s.acts)
  BY DEF Live
<1>. HIDE DEF acts, t
<1>6. t \in ViewModel
  BY <1>1, <1>2, <1>3 DEF ViewModel
<1>7. /\ t.acts = acts /\ t.inFlight = s.inFlight /\ t.moving = s.moving /\ t.gate = s.gate
      /\ t.view = s.view /\ t.loading = s.loading /\ t.logins = s.logins /\ t.pending = s.pending
      /\ SameLists(s, t) /\ SameHome(s, t) /\ SameService(s, t)
  BY <1>1, <1>2 DEF ViewModel, SameLists, SameHome, SameService
<1>8. ListsFit(t) /\ HomeFits(t, 0) /\ BusyFits(t) /\ RefreshFits(t)
  BY <1>1, <1>7, ListsKept, HomeKept DEF Core
<1>9. ResultsFit(t) /\ StaysHere(t)
  BY <1>1, <1>7 DEF Core, ResultsFit, StaysHere, acts
<1>10. LoadingFits(t)
  BY <1>1, <1>7 DEF LoadingFits, SameLists, SameHome, Owners
<1>11. a.live => t.gate = None /\ t.inFlight
  BY <1>1, <1>7 DEF Core, ActsFit, Live
<1>. QED  BY <1>4, <1>5, <1>6, <1>7, <1>8, <1>9, <1>10, <1>11 DEF t, acts

LEMMA DroppedStep ==
    ASSUME NEW s, EntryGood(s), NEW a \in s.acts PROVE Step(s, Dropped(RestOf(s, a), a))
<1> DEFINE r == RestOf(s, a)
<1>1. /\ r \in ViewModel /\ r.acts = s.acts \ {a} /\ r.inFlight = s.inFlight /\ r.moving = s.moving /\ r.gate = s.gate
      /\ SameService(s, r)
      /\ ResultsFit(r) /\ StaysHere(r) /\ ListsFit(r) /\ HomeFits(r, 0) /\ BusyFits(r) /\ RefreshFits(r) /\ LoadingFits(r)
      /\ a.live => r.inFlight
      /\ ~a.live => Live(r.acts) = Live(s.acts)
  BY RestIs
<1>. HIDE DEF r
<1>0. s \in ViewModel /\ ActsFit(s)
  BY DEF EntryGood, Core
<1>2. CASE a.live /\ r.inFlight
  <2> DEFINE t == invalidateServiceActivation(r)
  <2>1. Turned(r, t, 0) /\ LoadingFits(t)
    BY <1>1, ActivationEnds
  <2>. HIDE DEF t
  <2>2. SameService(s, t) /\ Core(t, 0)
    BY <1>1, <2>1 DEF Turned, SameService
  <2>3. Dropped(r, a) = t
    BY <1>2 DEF Dropped, t
  <2>. QED  BY <1>0, <2>1, <2>2, <2>3, ServiceStep DEF r
<1>3. CASE ~(a.live /\ r.inFlight)
  <2>1. Dropped(r, a) = r
    BY <1>3 DEF Dropped
  <2>2. Live(r.acts) = Live(s.acts)
    BY <1>1, <1>3
  <2>3. ActsFit(r)
    BY <1>0, <1>1, <2>2 DEF ActsFit
  <2>4. Core(r, 0)
    BY <1>1, <2>3 DEF Core
  <2>. QED  BY <1>0, <1>1, <2>1, <2>4, ServiceStep DEF r
<1>. QED  BY <1>2, <1>3

\* The callback that ran is followed by the next one, on its way or behind the gate.
LEMMA FollowedStep ==
    ASSUME NEW s, EntryGood(s), NEW a \in s.acts, a.live, NEW b \in Act, b.live,
           b.at = "commit" => b.result \in Results(b.card), NEW t,
           \/ t = [RestOf(s, a) EXCEPT !.acts = @ \union {b}]
           \/ t = [RestOf(s, a) EXCEPT !.gate = b] /\ s.moving /\ b.at = "commit"
    PROVE  Step(s, t)
<1> DEFINE r == RestOf(s, a)
<1>1. /\ r \in ViewModel /\ r.moving = s.moving /\ r.loading = s.loading /\ r.logins = s.logins
      /\ SameLists(s, r) /\ SameHome(s, r) /\ SameService(s, r)
      /\ ResultsFit(r) /\ StaysHere(r) /\ ListsFit(r) /\ HomeFits(r, 0) /\ BusyFits(r) /\ RefreshFits(r) /\ LoadingFits(r)
      /\ Live(r.acts) = {} /\ r.gate = None /\ r.inFlight
  BY RestIs
<1>. HIDE DEF r
<1>0. s \in ViewModel /\ r.acts \in SUBSET Act
  BY <1>1, VmFields DEF EntryGood, Core
<1>2. /\ t \in ViewModel /\ t.inFlight /\ t.view = r.view /\ t.moving = r.moving /\ t.loading = r.loading /\ t.logins = r.logins
      /\ SameLists(r, t) /\ SameHome(r, t) /\ SameService(r, t)
      /\ ActsFit(t) /\ ResultsFit(t)
  <2>1. CASE t = [r EXCEPT !.acts = @ \union {b}]
    <3> DEFINE acts == r.acts \union {b}
    <3>1. t = [r EXCEPT !.acts = acts] /\ acts \in SUBSET Act /\ Live(acts) = {b}
      BY <1>0, <1>1, <2>1 DEF Live
    <3>2. \A c \in acts : c.at = "commit" => c.result \in Results(c.card)
      BY <1>1 DEF ResultsFit
    <3>. HIDE DEF acts
    <3>3. t \in ViewModel
      BY <1>1, <3>1 DEF ViewModel
    <3>4. /\ t.inFlight = r.inFlight /\ t.view = r.view /\ t.moving = r.moving /\ t.loading = r.loading /\ t.logins = r.logins
          /\ SameLists(r, t) /\ SameHome(r, t) /\ SameService(r, t) /\ t.acts = acts /\ t.gate = r.gate
      BY <1>1, <3>1 DEF ViewModel, SameLists, SameHome, SameService
    <3>5. ActsFit(t) /\ ResultsFit(t)
      BY <1>1, <3>1, <3>2, <3>4 DEF ActsFit, ResultsFit
    <3>. QED  BY <1>1, <3>3, <3>4, <3>5
  <2>2. CASE t = [r EXCEPT !.gate = b] /\ s.moving /\ b.at = "commit"
    <3>1. b # None
      BY GateAssumption
    <3>3. t \in ViewModel
      BY <1>1, <2>2 DEF ViewModel
    <3>4. /\ t.inFlight = r.inFlight /\ t.view = r.view /\ t.moving = r.moving /\ t.loading = r.loading /\ t.logins = r.logins
          /\ SameLists(r, t) /\ SameHome(r, t) /\ SameService(r, t) /\ t.acts = r.acts /\ t.gate = b
      BY <1>1, <2>2 DEF ViewModel, SameLists, SameHome, SameService
    <3>5. ActsFit(t) /\ ResultsFit(t)
      BY <1>1, <2>2, <3>1, <3>4 DEF ActsFit, ResultsFit
    <3>. QED  BY <1>1, <3>3, <3>4, <3>5
  <2>. QED  BY <2>1, <2>2 DEF r
<1>3. Core(t, 0)
  <2>1. StaysHere(t) /\ ListsFit(t) /\ HomeFits(t, 0) /\ BusyFits(t) /\ RefreshFits(t)
    BY <1>1, <1>2, ListsKept, HomeKept DEF StaysHere
  <2>. QED  BY <1>2, <2>1 DEF Core
<1>4. LoadingFits(t)
  BY <1>2 DEF LoadingFits
<1>5. SameService(s, t)
  BY <1>1, <1>2 DEF SameService
<1>. QED  BY <1>0, <1>3, <1>4, <1>5, ServiceStep

LEMMA FeedbackStep ==
    ASSUME EntryGood(vm), NEW a, FeedbackShown(a) PROVE Step(vm, vm')
<1>1. a \in vm.acts /\ a \in Act
  BY VmFields DEF FeedbackShown, EntryGood, Core
<1>2. CASE Wanted(vm, a)
  <2> DEFINE worker == "worker"
             b == [a EXCEPT !.at = worker]
  <2>1. a.live /\ vm' = [RestOf(vm, a) EXCEPT !.acts = @ \union {b}]
    BY <1>2 DEF FeedbackShown, Wanted, RestOf
  <2>2. worker \in {"feedback", "worker", "commit"} /\ worker # "commit"
    OBVIOUS
  <2>. HIDE DEF worker
  <2>3. b \in Act /\ b.live /\ b.at # "commit"
    BY <1>1, <2>1, <2>2 DEF Act
  <2>. HIDE DEF b
  <2>. QED  BY <1>1, <2>1, <2>3, FollowedStep
<1>3. CASE ~Wanted(vm, a)
  <2>1. vm' = Dropped(RestOf(vm, a), a)
    BY <1>3 DEF FeedbackShown, RestOf
  <2>. QED  BY <1>1, <2>1, DroppedStep
<1>. QED  BY <1>2, <1>3

LEMMA PreparedStep ==
    ASSUME EntryGood(vm), NEW a, Prepared(a) PROVE Step(vm, vm')
<1>1. a \in vm.acts /\ a \in Act
  BY VmFields DEF Prepared, EntryGood, Core
<1>2. CASE Wanted(vm, a)
  <2> DEFINE at == "commit"
             b(result) == [a EXCEPT !.at = at, !.result = result]
  <2>1. PICK result \in Results(a.card) :
            \/ vm' = [RestOf(vm, a) EXCEPT !.gate = b(result)] /\ vm.moving
            \/ vm' = [RestOf(vm, a) EXCEPT !.acts = @ \union {b(result)}]
    BY <1>2 DEF Prepared, RestOf
  <2> DEFINE c == b(result)
  <2>2. result \in {"-", "ready", "ask", "error"} /\ at \in {"feedback", "worker", "commit"} /\ at = "commit" /\ a.live
    BY <1>2 DEF Results, Wanted
  <2>. HIDE DEF at
  <2>3. c \in Act /\ c.live /\ c.at = "commit" /\ c.result = result /\ c.card = a.card
    BY <1>1, <2>2 DEF Act
  <2>4. \/ vm' = [RestOf(vm, a) EXCEPT !.gate = c] /\ vm.moving
        \/ vm' = [RestOf(vm, a) EXCEPT !.acts = @ \union {c}]
    BY <2>1
  <2>. HIDE DEF c
  <2>. QED  BY <1>1, <2>2, <2>3, <2>4, FollowedStep
<1>3. CASE ~Wanted(vm, a)
  <2>1. vm' = Dropped(RestOf(vm, a), a)
    BY <1>3 DEF Prepared, RestOf
  <2>. QED  BY <1>1, <2>1, DroppedStep
<1>. QED  BY <1>2, <1>3

LEMMA ExpandedStep ==
    ASSUME EntryGood(vm), ServiceCardTransitionExpanded PROVE Step(vm, vm')
<1> DEFINE acts == vm.acts \union ({vm.gate} \ {None})
           t == vm'
<1>1. t = [vm EXCEPT !.expanded = TRUE, !.gate = None, !.acts = acts] /\ vm.moving
  BY DEF ServiceCardTransitionExpanded
<1>2. vm \in ViewModel /\ ActsFit(vm) /\ ResultsFit(vm) /\ Core(vm, 0) /\ LoadingFits(vm)
  BY DEF EntryGood, Core
<1>3. acts \in SUBSET Act
  BY <1>2, VmFields
<1>4. /\ \A a, b \in Live(acts) : a = b
      /\ vm.inFlight <=> Live(acts) # {}
      /\ \A a \in acts : a.at = "commit" => a.result \in Results(a.card)
  <2>1. CASE vm.gate = None
    <3>1. acts = vm.acts
      BY <2>1
    <3>. QED  BY <1>2, <2>1, <3>1 DEF ActsFit, ResultsFit
  <2>2. CASE vm.gate # None
    <3>1. vm.gate.live /\ Live(vm.acts) = {} /\ vm.inFlight
      BY <1>2, <2>2 DEF ActsFit
    <3>2. Live(acts) = {vm.gate}
      BY <2>2, <3>1 DEF Live
    <3>. QED  BY <1>2, <2>2, <3>1, <3>2 DEF ResultsFit
  <2>. QED  BY <2>1, <2>2
<1>. HIDE DEF acts, t
<1>5. t \in ViewModel
  BY <1>1, <1>2, <1>3 DEF ViewModel
<1>6. /\ t.acts = acts /\ t.gate = None /\ t.inFlight = vm.inFlight /\ t.view = vm.view /\ t.loading = vm.loading
      /\ t.logins = vm.logins /\ SameLists(vm, t) /\ SameHome(vm, t) /\ SameService(vm, t)
  BY <1>1, <1>2 DEF ViewModel, SameLists, SameHome, SameService
<1>7. ActsFit(t) /\ StaysHere(t) /\ ResultsFit(t)
  BY <1>2, <1>4, <1>6 DEF Core, ActsFit, StaysHere, ResultsFit
<1>8. Core(t, 0)
  BY <1>2, <1>5, <1>6, <1>7, ListsKept, HomeKept DEF Core
<1>9. LoadingFits(t)
  BY <1>2, <1>6 DEF LoadingFits, SameLists, SameHome, Owners
<1>. QED  BY <1>2, <1>6, <1>8, <1>9, ServiceStep DEF t

LEMMA AbortedStep ==
    ASSUME EntryGood(vm), ServiceCardTransitionAborted PROVE Step(vm, vm')
<1>1. vm \in ViewModel /\ ResultsFit(vm) /\ StaysHere(vm) /\ ListsFit(vm) /\ HomeFits(vm, 0) /\ BusyFits(vm) /\ RefreshFits(vm) /\ LoadingFits(vm)
  BY DEF EntryGood, Core
<1> DEFINE t == invalidateServiceActivation(vm)
<1>2. Turned(vm, t, 0) /\ LoadingFits(t)
  BY <1>1, ActivationEnds
<1>3. vm' = t
  BY DEF ServiceCardTransitionAborted
<1>. HIDE DEF t
<1>. QED  BY <1>1, <1>2, <1>3, ServiceStep DEF Turned

LEMMA CommitStep ==
    ASSUME EntryGood(vm), NEW a, Commit(a) PROVE Step(vm, vm')
<1>1. a \in vm.acts /\ a \in Act /\ a.at = "commit"
  BY VmFields DEF Commit, EntryGood, Core
<1>2. CASE ~Wanted(vm, a)
  <2>1. vm' = Dropped(RestOf(vm, a), a)
    BY <1>2 DEF Commit, RestOf
  <2>. QED  BY <1>1, <2>1, DroppedStep
<1>3. CASE Wanted(vm, a)
  <2> DEFINE r == RestOf(vm, a)
             s == [r EXCEPT !.inFlight = FALSE, !.moving = FALSE, !.expanded = TRUE]
  <2>0. vm' = Opened(s, a)
    BY <1>3 DEF Commit, RestOf
  <2>1. a.live /\ vm.view = "services" /\ vm.pending = a.card /\ vm \in ViewModel
    BY <1>3 DEF Wanted, EntryGood, Core
  <2>2. /\ r \in ViewModel /\ r.view = vm.view /\ r.logins = vm.logins /\ r.pending = vm.pending /\ r.loading = vm.loading
        /\ SameLists(vm, r) /\ SameHome(vm, r) /\ SameService(vm, r)
        /\ ResultsFit(r) /\ ListsFit(r) /\ HomeFits(r, 0) /\ BusyFits(r) /\ RefreshFits(r)
        /\ Live(r.acts) = {} /\ r.gate = None
    BY <1>1, <2>1, RestIs
  <2>. HIDE DEF r
  <2>3. s \in ViewModel
    <3> DEFINE still == [r EXCEPT !.inFlight = FALSE, !.moving = FALSE]
    <3>1. r \in ViewModel
      BY <2>2
    <3>2. still \in ViewModel
      BY <3>1 DEF ViewModel
    <3>3. s = [still EXCEPT !.expanded = TRUE]
      OBVIOUS
    <3>. HIDE DEF still, s
    <3>. QED  BY <3>2, <3>3 DEF ViewModel
  <2>4. /\ ~s.inFlight /\ s.acts = r.acts /\ s.gate = r.gate /\ s.view = r.view /\ s.pending = r.pending /\ s.logins = r.logins
        /\ SameLists(r, s) /\ SameHome(r, s) /\ SameService(r, s)
    BY <2>2 DEF ViewModel, SameLists, SameHome, SameService
  <2>. HIDE DEF s
  <2>5. ActsFit(s) /\ StaysHere(s) /\ ResultsFit(s)
    BY <2>2, <2>4 DEF ActsFit, StaysHere, ResultsFit
  <2>6. Core(s, 0)
    BY <2>2, <2>3, <2>4, <2>5, ListsKept, HomeKept DEF Core
  <2>7. SameService(vm, s) /\ s.view = "services" /\ s.pending = vm.pending
    BY <2>1, <2>2, <2>4 DEF SameService
  <2>8. Chosen(vm, vm)
    BY <2>1, ChosenSelf
  <2>9. a.result \in Results(a.card) /\ a.card \in Cards
    BY <1>1 DEF EntryGood, Core, ResultsFit, Act
  <2>10. CASE a.result \in {"error", "ask"}
    <3>1. vm' = [s EXCEPT !.loading = FALSE]
      BY <2>0, <2>10 DEF Opened
    <3> DEFINE t == [s EXCEPT !.loading = FALSE]
    <3>2. Core(t, 0) /\ LoadingFits(t) /\ SameService(s, t)
      BY <2>6, LoadingOff
    <3>. HIDE DEF t
    <3>3. SameService(vm, t)
      BY <2>7, <3>2 DEF SameService
    <3>. QED  BY <2>1, <3>1, <3>2, <3>3, ServiceStep DEF t
  <2>11. CASE a.result = "ready" /\ a.card \in PlaylistCards
    <3> DEFINE i == applyIptvService(s, a.card)
               t == [i EXCEPT !.loading = FALSE]
    <3>1. vm' = t
      BY <2>0, <2>11, CardsAssumption DEF Opened
    <3>2. Core(i, 0) /\ i.rails = NoRails /\ i.session = None /\ i.dav = s.dav /\ i.iptv = a.card
      BY <2>6, <2>7, <2>11, IptvGood
    <3>. HIDE DEF i
    <3>3. Core(t, 0) /\ LoadingFits(t) /\ SameService(i, t)
      BY <3>2, LoadingOff
    <3>. HIDE DEF t
    <3>4. t.rails = NoRails /\ t.session = None /\ t.dav = vm.dav /\ t.iptv = vm.pending
      BY <2>1, <2>7, <3>2, <3>3 DEF SameService
    <3>. QED  BY <3>1, <3>3, <3>4 DEF Step, EntryGood, Chosen, NoRails
  <2>12. CASE a.result = "ready" /\ a.card \in DavCards
    <3> DEFINE t == loadWebDavService(s, a.card)
    <3>1. vm' = t
      BY <2>0, <2>12, CardsAssumption DEF Opened
    <3>2. Core(t, 0) /\ LoadingFits(t) /\ t.rails = NoRails /\ t.session = None /\ t.dav = a.card /\ t.iptv = None
      BY <2>6, <2>7, <2>12, DavGood
    <3>. HIDE DEF t
    <3>. QED  BY <2>1, <3>1, <3>2 DEF Step, EntryGood, Chosen, NoRails
  <2>13. CASE a.result = "ready" /\ a.card \in MediaCards
    <3> DEFINE h == [s EXCEPT !.session = a.card]
               t == loadServiceHome(h)
    <3>1. vm' = t
      BY <2>0, <2>13, CardsAssumption DEF Opened
    <3>2. h \in ViewModel
      BY <2>3, <2>13 DEF ViewModel
    <3>3. SameActs(s, h) /\ SameLists(s, h) /\ h.session = a.card /\ h.rails = s.rails /\ h.dav = s.dav /\ h.initial = s.initial
      BY <2>3 DEF ViewModel, SameActs, SameLists
    <3>. HIDE DEF h
    <3>4. ~h.initial /\ ActsFit(h) /\ StaysHere(h) /\ ResultsFit(h) /\ ListsFit(h)
      BY <2>6, <2>7, <3>3, ActsKept, ListsKept, ServicesQuiet DEF Core
    <3>5. /\ Core(t, 0) /\ LoadingFits(t)
          /\ t.rails = h.rails /\ t.dav = h.dav /\ t.iptv = None /\ t.session = h.session
      BY <2>13, <3>2, <3>3, <3>4, HomeLoadedGood
    <3>. HIDE DEF t
    <3>6. t.rails = vm.rails /\ t.dav = vm.dav /\ t.iptv = None /\ t.session = vm.pending
      BY <2>1, <2>7, <3>3, <3>5 DEF SameService
    <3>. QED  BY <3>1, <3>5, <3>6 DEF Step, EntryGood, Chosen
  <2>. QED  BY <2>9, <2>10, <2>11, <2>12, <2>13 DEF Results, Cards
<1>. QED  BY <1>2, <1>3

LEMMA EditStep ==
    ASSUME EntryGood(vm), NEW card \in Cards \union {None}, vm' = [vm EXCEPT !.pending = card] PROVE Step(vm, vm')
<1>1. vm \in ViewModel
  BY DEF EntryGood, Core
<1> DEFINE t == vm'
<1>2. t = [vm EXCEPT !.pending = card]
  OBVIOUS
<1>. HIDE DEF t
<1>3. t \in ViewModel
  BY <1>1, <1>2 DEF ViewModel
<1>4. SameActs(vm, t) /\ SameLists(vm, t) /\ SameHome(vm, t) /\ SameService(vm, t) /\ t.loading = vm.loading /\ t.logins = vm.logins
  BY <1>1, <1>2 DEF ViewModel, SameActs, SameLists, SameHome, SameService
<1>. QED  BY <1>3, <1>4, SameStep DEF t

LEMMA LoginStep ==
    ASSUME EntryGood(vm), LoginSelectedService PROVE Step(vm, vm')
<1>1. Core(vm, 0) /\ vm \in ViewModel /\ vm.view = "services" /\ ~vm.loading
  BY DEF EntryGood, Core, LoginSelectedService
<1>2. vm.pending \in Cards
  BY <1>1, VmFields DEF LoginSelectedService
<1>3. CASE vm.pending \in PlaylistCards
  <2> DEFINE t == applyIptvService(vm, vm.pending)
  <2>1. vm' = t
    BY <1>3, CardsAssumption DEF LoginSelectedService
  <2>2. Core(t, 0) /\ ~t.loading /\ t.rails = NoRails /\ t.session = None /\ t.dav = vm.dav /\ t.iptv = vm.pending
    BY <1>1, <1>3, IptvGood
  <2>. HIDE DEF t
  <2>. QED  BY <2>1, <2>2 DEF Step, EntryGood, Chosen, NoRails, LoadingFits
<1>4. CASE vm.pending \in DavCards
  <2> DEFINE t == loadWebDavService(vm, vm.pending)
  <2>1. vm' = t
    BY <1>4, CardsAssumption DEF LoginSelectedService
  <2>2. Core(t, 0) /\ LoadingFits(t) /\ t.rails = NoRails /\ t.session = None /\ t.dav = vm.pending /\ t.iptv = None
    BY <1>1, <1>4, DavGood
  <2>. HIDE DEF t
  <2>. QED  BY <2>1, <2>2 DEF Step, EntryGood, Chosen, NoRails
<1>5. CASE vm.pending \in MediaCards
  <2> DEFINE logins == vm.logins \union {vm.pending}
             t == vm'
  <2>1. t = [vm EXCEPT !.loading = TRUE, !.logins = logins]
    BY <1>5, CardsAssumption DEF LoginSelectedService
  <2>2. logins \in SUBSET MediaCards /\ logins # {}
    BY <1>1, <1>5, VmFields
  <2>. HIDE DEF logins, t
  <2>3. t \in ViewModel
    BY <1>1, <2>1, <2>2 DEF ViewModel
  <2>4. SameActs(vm, t) /\ SameLists(vm, t) /\ SameHome(vm, t) /\ SameService(vm, t) /\ t.logins = logins
    BY <1>1, <2>1 DEF ViewModel, SameActs, SameLists, SameHome, SameService
  <2>5. Core(t, 0)
    BY <1>1, <2>3, <2>4, CoreKept
  <2>6. LoadingFits(t)
    BY <2>2, <2>4 DEF LoadingFits
  <2>. QED  BY <1>1, <2>4, <2>5, <2>6, ServiceStep DEF t
<1>. QED  BY <1>2, <1>3, <1>4, <1>5 DEF Cards

LEMMA LoginAnsweredStep ==
    ASSUME EntryGood(vm), NEW card, LoginAnswered(card) PROVE Step(vm, vm')
<1> DEFINE logins == vm.logins \ {card}
           r == [vm EXCEPT !.logins = logins, !.loading = FALSE]
<1>1. Core(vm, 0) /\ vm \in ViewModel /\ card \in vm.logins /\ card \in MediaCards
  BY VmFields DEF EntryGood, Core, LoginAnswered
<1>2. vm' = r \/ vm' = loadServiceHome([r EXCEPT !.session = card])
  BY DEF LoginAnswered
<1>3. logins \in SUBSET MediaCards
  BY <1>1, VmFields
<1>. HIDE DEF logins
<1>4. r \in ViewModel
  BY <1>1, <1>3 DEF ViewModel
<1>5. SameActs(vm, r) /\ SameLists(vm, r) /\ SameHome(vm, r) /\ SameService(vm, r) /\ ~r.loading
  BY <1>1, <1>3 DEF ViewModel, SameActs, SameLists, SameHome, SameService
<1>. HIDE DEF r
<1>6. Core(r, 0) /\ LoadingFits(r)
  BY <1>1, <1>4, <1>5, CoreKept DEF LoadingFits
<1>7. CASE vm' = r
  BY <1>1, <1>5, <1>6, <1>7, ServiceStep
<1>8. CASE vm' = loadServiceHome([r EXCEPT !.session = card])
  <2> DEFINE h == [r EXCEPT !.session = card]
             t == loadServiceHome(h)
  <2>1. h \in ViewModel
    BY <1>1, <1>4 DEF ViewModel
  <2>2. /\ SameActs(r, h) /\ SameLists(r, h) /\ h.session = card /\ h.rails = r.rails /\ h.dav = r.dav
        /\ h.initial = r.initial /\ h.view = r.view
    BY <1>4 DEF ViewModel, SameActs, SameLists
  <2>. HIDE DEF h
  <2>3. ActsFit(h) /\ StaysHere(h) /\ ResultsFit(h) /\ ListsFit(h) /\ (h.initial => h.view = "home")
    BY <1>6, <2>2, ActsKept, ListsKept DEF Core, HomeFits
  <2>4. /\ Core(t, 0) /\ LoadingFits(t)
        /\ t.rails = h.rails /\ t.dav = h.dav /\ t.iptv = None /\ t.session = h.session
    BY <1>1, <2>1, <2>2, <2>3, HomeLoadedGood
  <2>5. vm' = t
    BY <1>8 DEF h
  <2>. HIDE DEF t
  <2>6. t.rails = vm.rails /\ t.dav = vm.dav /\ t.iptv = None /\ t.session = card
    BY <1>5, <2>2, <2>4 DEF SameService
  <2>. QED  BY <1>1, <2>4, <2>5, <2>6 DEF Step, EntryGood, Chosen
<1>. QED  BY <1>2, <1>7, <1>8

-----------------------------------------------------------------------------
(* The answers of the home *)

HomeRest(s, c) == [s EXCEPT !.home = @ \ {c}]

LEMMA HomeRestIs ==
    ASSUME NEW s, EntryGood(s), NEW c \in s.home
    PROVE  LET r == HomeRest(s, c)
           IN  /\ r \in ViewModel /\ r.home = s.home \ {c} /\ IsFiniteSet(r.home)
               /\ SameActs(s, r) /\ SameLists(s, r) /\ SameService(s, r) /\ r.logins = s.logins /\ r.view = s.view
               /\ r.session = s.session
               /\ r.busy = s.busy /\ r.initial = s.initial /\ r.warm = s.warm /\ r.refreshing = s.refreshing
               /\ r.genres = s.genres /\ r.genresLoading = s.genresLoading /\ r.loading = s.loading
               /\ ActsFit(r) /\ StaysHere(r) /\ ResultsFit(r) /\ ListsFit(r) /\ BusyFits(r)
               /\ c.op # "suggestions" \/ ~c.live => RefreshFits(r)
<1> DEFINE home == s.home \ {c}
           r == HomeRest(s, c)
<1>1. s \in ViewModel /\ Core(s, 0) /\ IsFiniteSet(s.home)
  BY DEF EntryGood, Core, HomeFits
<1>2. r = [s EXCEPT !.home = home]
  BY DEF HomeRest
<1>3. home \in SUBSET HomeCall /\ IsFiniteSet(home)
  BY <1>1, VmFields, FS_Subset
<1>. HIDE DEF home, r
<1>4. r \in ViewModel
  BY <1>1, <1>2, <1>3 DEF ViewModel
<1>5. /\ r.home = home
      /\ SameActs(s, r) /\ SameLists(s, r) /\ SameService(s, r) /\ r.logins = s.logins /\ r.view = s.view /\ r.session = s.session
      /\ r.busy = s.busy /\ r.initial = s.initial /\ r.warm = s.warm /\ r.refreshing = s.refreshing
      /\ r.genres = s.genres /\ r.genresLoading = s.genresLoading /\ r.loading = s.loading
  BY <1>1, <1>2 DEF ViewModel, SameActs, SameLists, SameService
<1>6. ActsFit(r) /\ StaysHere(r) /\ ResultsFit(r) /\ ListsFit(r) /\ BusyFits(r)
  BY <1>1, <1>5, ActsKept, ListsKept DEF Core, BusyFits
<1>7. ASSUME c.op # "suggestions" \/ ~c.live PROVE RefreshFits(r)
  BY <1>1, <1>5, <1>7 DEF Core, RefreshFits, home
<1>. QED  BY <1>3, <1>4, <1>5, <1>6, <1>7 DEF r, home

LEMMA StaleAnswered ==
    ASSUME NEW s, EntryGood(s), NEW c \in s.home, ~c.live PROVE Step(s, HomeRest(s, c))
<1> DEFINE r == HomeRest(s, c)
<1>1. /\ r \in ViewModel /\ r.home = s.home \ {c} /\ IsFiniteSet(r.home)
      /\ SameActs(s, r) /\ SameLists(s, r) /\ SameService(s, r) /\ r.logins = s.logins /\ r.view = s.view /\ r.session = s.session
      /\ r.busy = s.busy /\ r.initial = s.initial /\ r.warm = s.warm
      /\ r.genres = s.genres /\ r.genresLoading = s.genresLoading /\ r.loading = s.loading
      /\ ActsFit(r) /\ StaysHere(r) /\ ResultsFit(r) /\ ListsFit(r) /\ BusyFits(r) /\ RefreshFits(r)
  BY HomeRestIs
<1>. HIDE DEF r
<1>2. Live(r.home) = Live(s.home) /\ Owners(r) = Owners(s) /\ Counted(r) = Counted(s)
  BY <1>1 DEF Live, Owners, Counted
<1>3. HomeFits(r, 0)
  BY <1>1, <1>2 DEF EntryGood, Core, HomeFits
<1>4. Core(r, 0)
  BY <1>1, <1>3 DEF Core
<1>5. LoadingFits(r)
  BY <1>1, <1>2 DEF EntryGood, LoadingFits, SameActs, SameLists
<1>. QED  BY <1>1, <1>4, <1>5, ServiceStep DEF r, EntryGood, Core

\* The answer of a visible request takes its count with it.
LEMMA LiveAnswered ==
    ASSUME NEW s, EntryGood(s), NEW c \in s.home, c.live, c.op # "start"
    PROVE  LET r == HomeRest(s, c)
           IN  /\ c.card = s.session /\ HomeFits(r, IF c.quiet THEN 0 ELSE 1)
               /\ c.op # "libraries" \/ c.quiet => LoadingFits(r)
<1> DEFINE r == HomeRest(s, c)
<1>1. /\ r \in ViewModel /\ r.home = s.home \ {c} /\ IsFiniteSet(r.home)
      /\ SameActs(s, r) /\ SameLists(s, r) /\ r.logins = s.logins /\ r.view = s.view /\ r.session = s.session
      /\ r.busy = s.busy /\ r.initial = s.initial /\ r.warm = s.warm
      /\ r.genres = s.genres /\ r.genresLoading = s.genresLoading /\ r.loading = s.loading
  BY HomeRestIs
<1>. HIDE DEF r
<1>2. HomeFits(s, 0) /\ LoadingFits(s) /\ s.busy \in Nat /\ IsFiniteSet(s.home)
  BY VmFields DEF EntryGood, Core, HomeFits
<1>3. c.card = s.session /\ c \in HomeCall /\ c.quiet \in BOOLEAN
  BY VmFields DEF EntryGood, Core, HomeFits, Live, HomeCall
<1>4. \A d \in Live(r.home) : d.card = r.session
  BY <1>1, <1>2 DEF HomeFits, Live
<1>5. r.view = "services" => Live(r.home) = {}
  BY <1>1, <1>2 DEF HomeFits, Live
<1>6. CASE c.quiet
  <2>1. Owners(r) = Owners(s) /\ Counted(r) = Counted(s)
    BY <1>1, <1>6 DEF Owners, Counted
  <2>2. HomeFits(r, 0)
    BY <1>1, <1>2, <1>4, <1>5, <2>1 DEF HomeFits
  <2>3. LoadingFits(r)
    BY <1>1, <1>2, <2>1 DEF LoadingFits, SameActs, SameLists
  <2>. QED  BY <1>3, <1>6, <2>2, <2>3 DEF r
<1>7. CASE ~c.quiet
  <2>1. /\ Owners(r) = Owners(s) \ {c} /\ c \in Owners(s)
        /\ Counted(r) = Counted(s) \ {c} /\ c \in Counted(s)
    BY <1>1, <1>7 DEF Owners, Counted
  <2>2. /\ Cardinality(Owners(r)) \in Nat /\ Cardinality(Counted(r)) \in Nat
        /\ Cardinality(Owners(r)) = Cardinality(Owners(s)) - 1 /\ Cardinality(Counted(r)) = Cardinality(Counted(s)) - 1
        /\ Cardinality(Owners(s)) \in Nat /\ Cardinality(Counted(s)) \in Nat
    BY <1>1, <1>2, <2>1, OwnersFinite, FS_RemoveElement
  <2>3. /\ r.busy <= Cardinality(Counted(r)) + 1
        /\ r.warm \/ r.view # "home" => Cardinality(Owners(r)) + 1 <= r.busy
    <3>1. /\ s.busy <= Cardinality(Counted(s)) + 0
          /\ s.warm \/ s.view # "home" => Cardinality(Owners(s)) + 0 <= s.busy
      BY <1>2 DEF HomeFits
    <3>. QED  BY <1>1, <1>2, <2>2, <3>1
  <2>4. HomeFits(r, 1)
    BY <1>1, <1>2, <1>4, <1>5, <2>3 DEF HomeFits
  <2>5. c.op # "libraries" => LoadingFits(r)
    BY <1>1, <1>2, <2>1 DEF LoadingFits, SameActs, SameLists
  <2>. QED  BY <1>3, <1>7, <2>4, <2>5 DEF r
<1>. QED  BY <1>3, <1>6, <1>7

\* What an answer shows is the data of the service of the session, or nothing.
LEMMA ShownGood ==
    ASSUME NEW s, NEW k, Core(s, k), NEW c \in HomeCall, c.op \in Rails, c.card = s.session, NEW answer, NEW other
    PROVE  LET u == Useful(s, c, answer)
               t == Shown(u, c, other)
           IN  /\ Went(s, t, k) /\ t.initial = s.initial
               /\ Went(s, Shown(s, c, other), k) /\ Shown(s, c, other).initial = s.initial
<1>1. ASSUME NEW o, Core(o, k), o.session = s.session
      PROVE  LET t == Shown(o, c, other) IN Went(o, t, k) /\ t.initial = o.initial
  <2> DEFINE shows == IF other = "items" THEN c.card ELSE None
             rails == [o.rails EXCEPT ![c.op] = shows]
             t == Shown(o, c, other)
  <2>1. o \in ViewModel
    BY <1>1 DEF Core
  <2>2. t = [o EXCEPT !.rails = rails]
    BY <2>1 DEF Shown, ViewModel
  <2>3. rails \in [Rails -> MediaCards \union {None}]
    BY <2>1, VmFields DEF HomeCall
  <2>4. \A r \in Rails : rails[r] \in {o.rails[r], None, o.session}
    BY <1>1, <2>1, VmFields
  <2>. HIDE DEF rails, t
  <2>5. t \in ViewModel
    BY <2>1, <2>2, <2>3 DEF ViewModel
  <2>6. /\ SameActs(o, t) /\ SameLists(o, t) /\ SameHome(o, t) /\ t.rails = rails /\ t.iptv = o.iptv
        /\ t.loading = o.loading /\ t.logins = o.logins /\ t.session = o.session /\ t.dav = o.dav /\ t.initial = o.initial
    BY <2>1, <2>2 DEF ViewModel, SameActs, SameLists, SameHome
  <2>7. Core(t, k)
    BY <1>1, <2>5, <2>6, CoreKept
  <2>8. LoadingFits(o) => LoadingFits(t)
    BY <2>6 DEF LoadingFits, SameActs, SameLists, SameHome, Owners
  <2>9. Kept(o, t)
    BY <2>4, <2>6 DEF Kept, Chosen
  <2>. QED  BY <2>6, <2>7, <2>8, <2>9 DEF Went, t
<1>2. LET u == Useful(s, c, answer) IN Went(s, u, k) /\ u.initial = s.initial /\ u.session = s.session
  <2> DEFINE valid == s.valid \/ (s.initial /\ ~c.quiet /\ answer = "items")
             u == Useful(s, c, answer)
  <2>1. s \in ViewModel
    BY DEF Core
  <2>2. u = [s EXCEPT !.valid = valid]
    BY <2>1 DEF Useful, ViewModel
  <2>3. valid \in BOOLEAN
    BY <2>1, VmFields
  <2>. HIDE DEF valid, u
  <2>4. u \in ViewModel
    BY <2>1, <2>2, <2>3 DEF ViewModel
  <2>5. /\ SameActs(s, u) /\ SameLists(s, u) /\ SameHome(s, u) /\ SameService(s, u)
        /\ u.loading = s.loading /\ u.logins = s.logins /\ u.initial = s.initial /\ u.session = s.session
    BY <2>1, <2>2 DEF ViewModel, SameActs, SameLists, SameHome, SameService
  <2>6. Core(u, k)
    BY <2>4, <2>5, CoreKept
  <2>7. LoadingFits(s) => LoadingFits(u)
    BY <2>5 DEF LoadingFits, SameActs, SameLists, SameHome, Owners
  <2>8. Kept(s, u)
    BY <2>5, ChosenKept DEF Kept
  <2>. QED  BY <2>5, <2>6, <2>7, <2>8 DEF Went, u
<1> DEFINE u == Useful(s, c, answer)
<1>3. Went(s, u, k) /\ u.initial = s.initial /\ u.session = s.session /\ Core(u, k)
  BY <1>2 DEF Went
<1>. HIDE DEF u
<1>4. Went(u, Shown(u, c, other), k) /\ Shown(u, c, other).initial = u.initial
  BY <1>1, <1>3
<1>5. Went(s, Shown(s, c, other), k) /\ Shown(s, c, other).initial = s.initial
  BY <1>1
<1>6. Went(s, Shown(u, c, other), k)
  BY <1>3, <1>4, WentTwice
<1>. QED  BY <1>3, <1>4, <1>5, <1>6 DEF u

\* After the last request of a visit, the visit is over.
LEMMA EndedGood ==
    ASSUME NEW s, NEW c, c.quiet \in BOOLEAN, Core(s, IF c.quiet THEN 0 ELSE 1)
    PROVE  LET t == Ended(s, c)
           IN  /\ Core(t, 0) /\ Kept(s, t) /\ (LoadingFits(s) => LoadingFits(t))
               /\ t.loading => s.initial = t.initial
<1>1. CASE c.quiet
  BY <1>1 DEF Ended, Kept
<1>2. CASE ~c.quiet
  BY <1>2, EndGood DEF Ended
<1>. QED  BY <1>1, <1>2

\* The answers of the three requests, to the record without the call.
LEMMA LibrariesFit ==
    ASSUME NEW s, NEW c \in HomeCall, c.op = "libraries", c.card = s.session, NEW answer,
           Core(s, IF c.quiet THEN 0 ELSE 1), c.quiet => LoadingFits(s)
    PROVE  LET t == LibrariesAnswered(s, c, answer) IN Core(t, 0) /\ LoadingFits(t) /\ Kept(s, t)
<1> DEFINE k == IF c.quiet THEN 0 ELSE 1
           u == IF answer = "error" THEN s ELSE Shown(Useful(s, c, answer), c, answer)
           ended == Ended(u, c)
           waits == IF answer = "error" THEN s.initial ELSE ended.initial
           off == [ended EXCEPT !.loading = FALSE]
           t == LibrariesAnswered(s, c, answer)
<1>0. c.quiet \in BOOLEAN /\ c.op \in Rails
  BY DEF HomeCall, Rails
<1>1. Went(s, u, k) /\ u.initial = s.initial
  <2>1. Went(s, s, k)
    BY DEF Went, Kept
  <2>. QED  BY <1>0, <2>1, ShownGood
<1>2. t = IF c.quiet \/ waits THEN ended ELSE off
  BY DEF LibrariesAnswered
<1>. HIDE DEF u, t
<1>3. /\ Core(ended, 0) /\ Kept(u, ended) /\ (LoadingFits(u) => LoadingFits(ended))
      /\ ended.loading => u.initial = ended.initial
  BY <1>0, <1>1, EndedGood DEF Went
<1>. HIDE DEF ended
<1>4. Kept(s, ended)
  BY <1>1, <1>3 DEF Went, Kept
<1>5. CASE c.quiet
  BY <1>1, <1>2, <1>3, <1>4, <1>5 DEF Went, t
<1>6. CASE ~c.quiet /\ waits
  <2>1. ended.loading => ended.initial
    BY <1>1, <1>3, <1>6
  <2>2. LoadingFits(ended)
    BY <2>1 DEF LoadingFits
  <2>. QED  BY <1>2, <1>3, <1>4, <1>6, <2>2 DEF t
<1>7. CASE ~c.quiet /\ ~waits
  <2>1. Core(off, 0) /\ LoadingFits(off) /\ SameService(ended, off)
    BY <1>3, LoadingOff
  <2>. HIDE DEF off
  <2>2. Kept(s, off)
    BY <1>4, <2>1, ChosenKept DEF Kept
  <2>. QED  BY <1>2, <1>7, <2>1, <2>2 DEF t
<1>. QED  BY <1>5, <1>6, <1>7

LEMMA ResumeFit ==
    ASSUME NEW s, NEW c \in HomeCall, c.op = "resume", c.card = s.session, NEW answer,
           Core(s, IF c.quiet THEN 0 ELSE 1), LoadingFits(s)
    PROVE  LET t == ResumeAnswered(s, c, answer) IN Core(t, 0) /\ LoadingFits(t) /\ Kept(s, t)
<1> DEFINE k == IF c.quiet THEN 0 ELSE 1
           u == IF answer = "error" THEN s ELSE Shown(Useful(s, c, answer), c, answer)
<1>0. c.quiet \in BOOLEAN /\ c.op \in Rails
  BY DEF HomeCall, Rails
<1>1. Went(s, u, k)
  <2>1. Went(s, s, k)
    BY DEF Went, Kept
  <2>. QED  BY <1>0, <2>1, ShownGood
<1>2. ResumeAnswered(s, c, answer) = Ended(u, c)
  BY DEF ResumeAnswered
<1>. HIDE DEF u
<1>3. LET ended == Ended(u, c) IN Core(ended, 0) /\ Kept(u, ended) /\ (LoadingFits(u) => LoadingFits(ended))
  BY <1>0, <1>1, EndedGood DEF Went
<1>. QED  BY <1>1, <1>2, <1>3 DEF Went, Kept

\* "s" may still hold the flag whose request was the last one.
LEMMA SuggestionsFit ==
    ASSUME NEW s \in ViewModel, NEW c \in HomeCall, c.op = "suggestions", c.card = s.session, NEW answer,
           ActsFit(s), StaysHere(s), ResultsFit(s), ListsFit(s), HomeFits(s, IF c.quiet THEN 0 ELSE 1), BusyFits(s),
           s.refreshing => s.session \in EmbyCards, LoadingFits(s)
    PROVE  LET t == SuggestionsAnswered(s, c, answer) IN Core(t, 0) /\ LoadingFits(t) /\ Kept(s, t)
<1> DEFINE k == IF c.quiet THEN 0 ELSE 1
           free == IF c.card \in EmbyCards THEN [s EXCEPT !.refreshing = FALSE] ELSE s
           failed == IF c.card \in EmbyCards \/ c.quiet THEN free ELSE Shown(free, c, "empty")
           u == IF answer = "error" THEN failed ELSE Shown(Useful(free, c, answer), c, answer)
<1>0. c.quiet \in BOOLEAN /\ c.op \in Rails
  BY DEF HomeCall, Rails
<1>1. SuggestionsAnswered(s, c, answer) = Ended(u, c)
  BY DEF SuggestionsAnswered
<1>2. Went(s, free, k) /\ free.session = s.session
  <2>1. CASE c.card \in EmbyCards
    <3>1. free = [s EXCEPT !.refreshing = FALSE]
      BY <2>1
    <3>. HIDE DEF free
    <3>2. free \in ViewModel
      BY <3>1 DEF ViewModel
    <3>3. /\ SameActs(s, free) /\ SameLists(s, free) /\ SameService(s, free) /\ ~free.refreshing
          /\ free.session = s.session /\ free.loading = s.loading /\ free.logins = s.logins
          /\ free.busy = s.busy /\ free.initial = s.initial /\ free.home = s.home /\ free.warm = s.warm
          /\ free.genres = s.genres /\ free.genresLoading = s.genresLoading /\ free.view = s.view
      BY <3>1 DEF ViewModel, SameActs, SameLists, SameService
    <3>4. Owners(free) = Owners(s) /\ Counted(free) = Counted(s)
      BY <3>3 DEF Owners, Counted
    <3>5. HomeFits(free, k) /\ BusyFits(free) /\ RefreshFits(free)
      BY <3>3, <3>4 DEF HomeFits, BusyFits, RefreshFits
    <3>6. Core(free, k)
      BY <3>2, <3>3, <3>5, ActsKept, ListsKept DEF Core
    <3>7. LoadingFits(free)
      BY <3>3, <3>4 DEF LoadingFits, SameActs, SameLists
    <3>8. Kept(s, free)
      BY <3>3, ChosenKept DEF Kept
    <3>. QED  BY <3>3, <3>6, <3>7, <3>8 DEF Went, free
  <2>2. CASE c.card \notin EmbyCards
    <3>1. free = s
      BY <2>2
    <3>2. RefreshFits(s)
      BY <2>2 DEF RefreshFits
    <3>3. Core(s, k)
      BY <3>2 DEF Core
    <3>. HIDE DEF free
    <3>. QED  BY <3>1, <3>3 DEF Went, Kept
  <2>. QED  BY <2>1, <2>2
<1>. HIDE DEF free
<1>3. Core(free, k) /\ c.card = free.session
  BY <1>2 DEF Went
<1>4. Went(free, free, k)
  BY <1>3 DEF Went, Kept
<1>5. Went(free, u, k)
  BY <1>0, <1>3, <1>4, ShownGood
<1>6. Went(s, u, k)
  BY <1>2, <1>5, WentTwice
<1>. HIDE DEF u
<1>7. LET ended == Ended(u, c) IN Core(ended, 0) /\ Kept(u, ended) /\ (LoadingFits(u) => LoadingFits(ended))
  BY <1>0, <1>6, EndedGood DEF Went
<1>. QED  BY <1>1, <1>6, <1>7 DEF Went, Kept

LEMMA HomeAnsweredStep ==
    ASSUME EntryGood(vm), NEW c, HomeAnswered(c) PROVE Step(vm, vm')
<1> DEFINE r == HomeRest(vm, c)
           t == vm'
           k == IF c.quiet THEN 0 ELSE 1
<1>0. c \in vm.home /\ c.op # "start" /\ c \in HomeCall /\ vm \in ViewModel
  BY VmFields DEF HomeAnswered, EntryGood, Core
<1>1. CASE ~c.live
  <2>1. vm' = HomeRest(vm, c)
    BY <1>0, <1>1 DEF HomeAnswered, Standing, HomeRest
  <2>. QED  BY <1>0, <1>1, <2>1, StaleAnswered
<1>2. CASE c.live
  <2>1. c.card = vm.session /\ HomeFits(r, k) /\ (c.op # "libraries" \/ c.quiet => LoadingFits(r))
    BY <1>0, <1>2, LiveAnswered
  <2>2. PICK answer \in Answer :
            vm' = CASE c.op = "libraries" -> LibrariesAnswered(r, c, answer)
                    [] c.op = "resume" -> ResumeAnswered(r, c, answer)
                    [] c.op = "suggestions" -> SuggestionsAnswered(r, c, answer)
    <3>1. Standing(vm, c) = "current"
      BY <1>2, <2>1 DEF Standing
    <3>. QED  BY <3>1 DEF HomeAnswered, HomeRest
  <2>3. /\ r \in ViewModel /\ SameService(vm, r) /\ r.session = vm.session /\ r.refreshing = vm.refreshing
        /\ ActsFit(r) /\ StaysHere(r) /\ ResultsFit(r) /\ ListsFit(r) /\ BusyFits(r)
        /\ c.op # "suggestions" => RefreshFits(r)
    BY <1>0, HomeRestIs
  <2>. HIDE DEF r
  <2>4. c.op # "suggestions" => Core(r, k)
    BY <2>1, <2>3 DEF Core
  <2>5. Core(t, 0) /\ LoadingFits(t) /\ Kept(r, t)
    <3>1. CASE c.op = "libraries"
      <4>1. t = LibrariesAnswered(r, c, answer)
        BY <2>2, <3>1
      <4>. HIDE DEF t
      <4>. QED  BY <1>0, <2>1, <2>3, <2>4, <3>1, <4>1, LibrariesFit
    <3>2. CASE c.op = "resume"
      <4>1. t = ResumeAnswered(r, c, answer)
        BY <2>2, <3>2
      <4>. HIDE DEF t
      <4>. QED  BY <1>0, <2>1, <2>3, <2>4, <3>2, <4>1, ResumeFit
    <3>3. CASE c.op = "suggestions"
      <4>1. t = SuggestionsAnswered(r, c, answer)
        BY <2>2, <3>3
      <4>2. r.refreshing => r.session \in EmbyCards
        BY <2>3 DEF EntryGood, Core, RefreshFits
      <4>. HIDE DEF t
      <4>. QED  BY <1>0, <2>1, <2>3, <3>3, <4>1, <4>2, SuggestionsFit
    <3>. QED  BY <1>0, <3>1, <3>2, <3>3 DEF HomeCall, Rails
  <2>6. Chosen(vm, t)
    BY <1>0, <2>3, <2>5, ChosenSelf, ChosenKept DEF Kept
  <2>. QED  BY <2>5, <2>6 DEF Step, EntryGood
<1>. QED  BY <1>0, <1>1, <1>2 DEF HomeCall

\* The reserved count of the first visit is taken back by the fan-out, or was never one.
LEMMA HomeStartedStep ==
    ASSUME EntryGood(vm), NEW c, HomeStarted(c) PROVE Step(vm, vm')
<1> DEFINE r == HomeRest(vm, c)
<1>0. c \in vm.home /\ c.op = "start" /\ c \in HomeCall /\ vm \in ViewModel /\ vm.busy \in Nat /\ Refreshable(vm)
  BY VmFields DEF HomeStarted, EntryGood, Core
<1>1. CASE ~c.live
  <2>1. vm' = HomeRest(vm, c)
    BY <1>0, <1>1 DEF HomeStarted, Standing, HomeRest
  <2>. QED  BY <1>0, <1>1, <2>1, StaleAnswered
<1>2. CASE c.live
  <2>1. c.card = vm.session /\ HomeFits(vm, 0) /\ LoadingFits(vm) /\ IsFiniteSet(vm.home)
    BY <1>0, <1>2 DEF EntryGood, Core, HomeFits, Live
  <2>2. Standing(vm, c) = "current"
    BY <1>2, <2>1 DEF Standing
  <2>3. /\ r \in ViewModel /\ r.home = vm.home \ {c} /\ IsFiniteSet(r.home)
        /\ SameActs(vm, r) /\ SameLists(vm, r) /\ SameService(vm, r) /\ r.logins = vm.logins /\ r.view = vm.view
        /\ r.session = vm.session
        /\ r.busy = vm.busy /\ r.initial = vm.initial /\ r.warm = vm.warm
        /\ r.genres = vm.genres /\ r.genresLoading = vm.genresLoading /\ r.loading = vm.loading
        /\ ActsFit(r) /\ StaysHere(r) /\ ResultsFit(r) /\ ListsFit(r) /\ BusyFits(r) /\ RefreshFits(r)
    BY <1>0, HomeRestIs
  <2>. HIDE DEF r
  <2>4. /\ \A d \in Live(r.home) : d.card = r.session
        /\ r.view = "services" => Live(r.home) = {}
    BY <2>1, <2>3 DEF HomeFits, Live
  <2>5. /\ Cardinality(Owners(r)) \in Nat /\ Cardinality(Counted(r)) \in Nat
        /\ Cardinality(Owners(vm)) \in Nat /\ Cardinality(Counted(vm)) \in Nat
        /\ Cardinality(Owners(r)) <= Cardinality(Owners(vm))
        /\ Cardinality(Counted(vm)) <= Cardinality(Counted(r)) + 1
    <3>1. IsFiniteSet(Owners(vm)) /\ IsFiniteSet(Counted(r)) /\ Owners(r) \subseteq Owners(vm)
      BY <2>1, <2>3, OwnersFinite DEF Owners
    <3>2. Cardinality(Owners(r)) <= Cardinality(Owners(vm))
      BY <3>1, FS_Subset
    <3>3. Counted(vm) \subseteq Counted(r) \union {c} /\ IsFiniteSet(Counted(r) \union {c})
          /\ Cardinality(Counted(r) \union {c}) <= Cardinality(Counted(r)) + 1 /\ Cardinality(Counted(r) \union {c}) \in Nat
      <4>1. Counted(vm) \subseteq Counted(r) \union {c}
        BY <2>3 DEF Owners, Counted
      <4>2. Cardinality(Counted(r)) \in Nat
        BY <2>3, OwnersFinite
      <4>. QED  BY <3>1, <4>1, <4>2, FS_AddElement, FS_CardinalityType
    <3>4. Cardinality(Counted(vm)) <= Cardinality(Counted(r) \union {c})
      BY <3>3, FS_Subset
    <3>5. /\ Cardinality(Owners(r)) \in Nat /\ Cardinality(Counted(r)) \in Nat
          /\ Cardinality(Owners(vm)) \in Nat /\ Cardinality(Counted(vm)) \in Nat
      BY <2>1, <2>3, OwnersFinite
    <3>. QED  BY <3>2, <3>3, <3>4, <3>5
  <2>6. CASE vm.initial
    <3>1. PICK cached \in Cached(r.session) : vm' = endHomeLoading(refreshHome(r, FALSE, cached))
      BY <2>2, <2>6 DEF HomeStarted, HomeRest, r
    <3> DEFINE no == FALSE
               h == refreshHome(r, no, cached)
               t == endHomeLoading(h)
    <3>2. r.view = "home" /\ ~r.warm /\ r.session # None /\ r.session \in MediaCards /\ r.initial
      BY <2>1, <2>3, <2>6, VmFields DEF HomeFits
    <3>3. r.busy <= Cardinality(Counted(r)) + 1
      <4>1. vm.busy <= Cardinality(Counted(vm)) + 0
        BY <2>1 DEF HomeFits
      <4>. QED  BY <1>0, <2>3, <2>5, <4>1
    <3>4. HomeFits(r, 1)
      BY <2>1, <2>3, <2>4, <3>2, <3>3 DEF HomeFits
    <3>5. Core(r, 1)
      BY <2>3, <3>4 DEF Core
    <3>6. LoadingFits(r)
      BY <3>2 DEF LoadingFits
    <3>7. no \in BOOLEAN /\ Free(r, Rails, no)
      <4>1. ASSUME NEW op \in Rails PROVE FreeCopies(vm, op, FALSE) \subseteq FreeCopies(r, op, FALSE)
        BY <2>3 DEF FreeCopies, Same
      <4>. QED  BY <1>0, <4>1 DEF Free, Refreshable
    <3>. HIDE DEF no
    <3>8. Went(r, h, 1)
      BY <3>1, <3>2, <3>5, <3>7, RefreshGood
    <3>. HIDE DEF h
    <3>9. Core(t, 0) /\ Kept(h, t) /\ (LoadingFits(h) => LoadingFits(t))
      BY <3>8, EndGood DEF Went
    <3>. HIDE DEF t
    <3>10. Chosen(vm, t)
      BY <1>0, <2>3, <3>8, <3>9, ChosenSelf, ChosenKept DEF Kept, Went
    <3>11. vm' = t
      BY <3>1 DEF t, h, no
    <3>. QED  BY <3>6, <3>8, <3>9, <3>10, <3>11 DEF Step, EntryGood, Went
  <2>7. CASE ~vm.initial
    <3>1. vm' = r
      BY <2>7 DEF HomeStarted, HomeRest, r
    <3>2. Counted(r) = Counted(vm)
      BY <1>0, <2>3, <2>7 DEF Owners, Counted
    <3>3. r.warm \/ r.view # "home" => Cardinality(Owners(r)) + 0 <= r.busy
      <4>1. vm.warm \/ vm.view # "home" => Cardinality(Owners(vm)) + 0 <= vm.busy
        BY <2>1 DEF HomeFits
      <4>. QED  BY <1>0, <2>3, <2>5, <4>1
    <3>4. HomeFits(r, 0)
      BY <2>1, <2>3, <2>4, <2>7, <3>2, <3>3 DEF HomeFits
    <3>5. Core(r, 0)
      BY <2>3, <3>4 DEF Core
    <3>6. LoadingFits(r)
      BY <1>0, <2>1, <2>3 DEF LoadingFits, SameActs, SameLists, Owners
    <3>. QED  BY <1>0, <2>3, <3>1, <3>5, <3>6, ServiceStep
  <2>. QED  BY <1>0, <2>6, <2>7, VmFields
<1>. QED  BY <1>0, <1>1, <1>2 DEF HomeCall

LEMMA GenresStep ==
    ASSUME EntryGood(vm), GenresAnswered PROVE Step(vm, vm')
<1> DEFINE none == "none"
           t == vm'
<1>1. vm \in ViewModel /\ Core(vm, 0) /\ LoadingFits(vm)
  BY DEF EntryGood, Core
<1>2. t = [vm EXCEPT !.genres = none, !.genresLoading = FALSE]
  BY DEF GenresAnswered
<1>3. none \in {"none", "live", "stale"}
  OBVIOUS
<1>. HIDE DEF none, t
<1>4. t \in ViewModel
  BY <1>1, <1>2, <1>3 DEF ViewModel
<1>5. /\ SameActs(vm, t) /\ SameLists(vm, t) /\ SameService(vm, t) /\ ~t.genresLoading
      /\ t.view = vm.view /\ t.session = vm.session /\ t.busy = vm.busy /\ t.initial = vm.initial /\ t.home = vm.home
      /\ t.warm = vm.warm /\ t.refreshing = vm.refreshing /\ t.loading = vm.loading /\ t.logins = vm.logins
  BY <1>1, <1>2 DEF ViewModel, SameActs, SameLists, SameService
<1>6. Owners(t) = Owners(vm) /\ Counted(t) = Counted(vm)
  BY <1>5 DEF Owners, Counted
<1>7. HomeFits(t, 0) /\ BusyFits(t) /\ RefreshFits(t)
  BY <1>1, <1>5, <1>6 DEF Core, HomeFits, BusyFits, RefreshFits
<1>8. Core(t, 0)
  BY <1>1, <1>4, <1>5, <1>7, ActsKept, ListsKept DEF Core
<1>9. LoadingFits(t)
  BY <1>1, <1>5, <1>6 DEF LoadingFits, SameActs, SameLists
<1>. QED  BY <1>1, <1>5, <1>8, <1>9, ServiceStep DEF t

\* The timer no longer runs.
LEMMA WarmOff ==
    ASSUME EntryGood(vm)
    PROVE  LET t == [vm EXCEPT !.warm = FALSE] IN Core(t, 0) /\ LoadingFits(t) /\ SameService(vm, t) /\ t.view = vm.view
<1> DEFINE t == [vm EXCEPT !.warm = FALSE]
<1>1. vm \in ViewModel /\ Core(vm, 0) /\ LoadingFits(vm)
  BY DEF EntryGood, Core
<1>2. t \in ViewModel
  BY <1>1 DEF ViewModel
<1>3. /\ SameActs(vm, t) /\ SameLists(vm, t) /\ SameService(vm, t) /\ ~t.warm
      /\ t.view = vm.view /\ t.session = vm.session /\ t.busy = vm.busy /\ t.initial = vm.initial /\ t.home = vm.home
      /\ t.refreshing = vm.refreshing /\ t.genres = vm.genres /\ t.genresLoading = vm.genresLoading
      /\ t.loading = vm.loading /\ t.logins = vm.logins
  BY <1>1 DEF ViewModel, SameActs, SameLists, SameService
<1>. HIDE DEF t
<1>4. Owners(t) = Owners(vm) /\ Counted(t) = Counted(vm)
  BY <1>3 DEF Owners, Counted
<1>5. HomeFits(t, 0) /\ BusyFits(t) /\ RefreshFits(t)
  BY <1>1, <1>3, <1>4 DEF Core, HomeFits, BusyFits, RefreshFits
<1>6. Core(t, 0)
  BY <1>1, <1>2, <1>3, <1>5, ActsKept, ListsKept DEF Core
<1>7. LoadingFits(t)
  BY <1>1, <1>3, <1>4 DEF LoadingFits, SameActs, SameLists
<1>. QED  BY <1>3, <1>6, <1>7 DEF t

\* A visit of the home that loads nothing visible, on its way to the requests of the timer.
LEMMA BackgroundStep ==
    ASSUME EntryGood(vm), BackgroundRefreshHome PROVE Step(vm, vm')
<1>1. /\ vm \in ViewModel /\ Core(vm, 0) /\ LoadingFits(vm) /\ vm.warm /\ vm.busy \in Nat
      /\ HomeFits(vm, 0) /\ IsFiniteSet(vm.home)
  BY VmFields DEF EntryGood, Core, HomeFits, BackgroundRefreshHome
<1>2. CASE ~(vm.session # None /\ vm.view = "home")
  <2>1. vm' = [vm EXCEPT !.warm = FALSE]
    BY <1>2 DEF BackgroundRefreshHome
  <2>. QED  BY <1>1, <2>1, WarmOff, ServiceStep
<1>3. CASE vm.session # None /\ vm.view = "home"
  <2> DEFINE yes == TRUE
             home == StaleHome(vm)
             genres == IF vm.genres = "live" THEN "stale" ELSE vm.genres
             h == [HomeIncremented(vm) EXCEPT !.warm = FALSE]
  <2>1. PICK cached \in Cached(vm.session) : vm' = refreshHome(h, yes, cached)
    BY <1>3 DEF BackgroundRefreshHome
  <2>2. vm.busy = 0 /\ ~vm.refreshing /\ ~vm.initial
    BY <1>1, <1>3 DEF BackgroundRefreshHome, HomeFits
  <2>3. h = [vm EXCEPT !.home = home, !.genres = genres, !.warm = FALSE]
    BY <1>1 DEF HomeIncremented, ViewModel
  <2>4. home \in SUBSET HomeCall /\ Live(home) = {} /\ IsFiniteSet(home)
    BY <1>1, StaleHomeIs
  <2>5. genres \in {"none", "live", "stale"} /\ (vm.genres # "none" => genres # "none")
    BY <1>1, VmFields
  <2>6. yes \in BOOLEAN
    OBVIOUS
  <2>. HIDE DEF home, genres, h, yes
  <2>7. h \in ViewModel
    BY <1>1, <2>3, <2>4, <2>5 DEF ViewModel
  <2>8. /\ SameActs(vm, h) /\ SameLists(vm, h) /\ SameService(vm, h) /\ ~h.warm /\ h.home = home /\ h.genres = genres
        /\ h.view = vm.view /\ h.session = vm.session /\ h.busy = vm.busy /\ h.initial = vm.initial
        /\ h.refreshing = vm.refreshing /\ h.genresLoading = vm.genresLoading
        /\ h.loading = vm.loading /\ h.logins = vm.logins
    BY <1>1, <2>3 DEF ViewModel, SameActs, SameLists, SameService
  <2>9. Owners(h) = {} /\ Counted(h) = {} /\ Owners(vm) = {}
    <3>1. Owners(h) = {} /\ Counted(h) = {}
      BY <2>4, <2>8 DEF Owners, Counted, Live
    <3>2. Cardinality(Owners(vm)) + 0 <= vm.busy
      BY <1>1 DEF HomeFits
    <3>3. IsFiniteSet(Owners(vm)) /\ Cardinality(Owners(vm)) \in Nat
      BY <1>1, OwnersFinite
    <3>4. Cardinality(Owners(vm)) = 0
      BY <2>2, <3>2, <3>3
    <3>. QED  BY <3>1, <3>3, <3>4, FS_EmptySet
  <2>10. Core(h, 0)
    <3>1. Cardinality(Owners(h)) = 0 /\ Cardinality(Counted(h)) = 0
      BY <2>9, FS_EmptySet
    <3>2. h.genresLoading => h.genres # "none"
      BY <1>1, <2>5, <2>8 DEF HomeFits
    <3>3. HomeFits(h, 0)
      BY <1>3, <2>2, <2>4, <2>8, <3>1, <3>2 DEF HomeFits
    <3>4. BusyFits(h) /\ RefreshFits(h)
      BY <2>2, <2>8 DEF BusyFits, RefreshFits
    <3>. QED  BY <1>1, <2>7, <2>8, <3>3, <3>4, ActsKept, ListsKept DEF Core
  <2>11. LoadingFits(h)
    <3>1. ~(\E c \in Owners(vm) : c.op = "libraries")
      BY <2>9
    <3>. QED  BY <1>1, <2>8, <3>1 DEF LoadingFits, SameActs, SameLists
  <2>12. Free(h, Rails, yes)
    <3>1. \A op \in Rails : Same(h, op, yes) = {}
      BY <2>4, <2>8 DEF Same, Live
    <3>2. 1 \in 1..MaxCopies
      BY CardsAssumption
    <3>. QED  BY <3>1, <3>2 DEF Free, FreeCopies
  <2>13. h.session \in MediaCards /\ h.view # "services"
    BY <1>1, <1>3, <2>8, VmFields
  <2>14. cached \in Cached(h.session)
    BY <2>1, <2>8
  <2> DEFINE t == refreshHome(h, yes, cached)
  <2>15. Went(h, t, 0)
    BY <2>6, <2>10, <2>12, <2>13, <2>14, RefreshGood
  <2>. HIDE DEF t
  <2>16. Chosen(vm, t)
    BY <1>1, <2>8, <2>15, ChosenSelf, ChosenKept DEF Kept, Went
  <2>17. vm' = t
    BY <2>1 DEF t
  <2>. QED  BY <2>11, <2>15, <2>16, <2>17 DEF Step, EntryGood, Went
<1>. QED  BY <1>2, <1>3

-----------------------------------------------------------------------------
(* The pages *)

LEMMA ListedStep ==
    ASSUME EntryGood(vm), NEW l, DirectoryListed(l) PROVE Step(vm, vm')
<1> DEFINE lists == vm.lists \ {l}
           r == [vm EXCEPT !.lists = lists]
           off == [vm EXCEPT !.lists = lists, !.loading = FALSE]
           on == [vm EXCEPT !.lists = lists, !.loading = FALSE, !.listing = l.card]
<1>1. vm \in ViewModel /\ Core(vm, 0) /\ LoadingFits(vm) /\ l \in vm.lists /\ l \in ListCall
  BY VmFields DEF EntryGood, Core, DirectoryListed
<1>2. lists \in SUBSET ListCall /\ Live(lists) \subseteq Live(vm.lists) /\ (~l.live => Live(lists) = Live(vm.lists))
  BY <1>1, VmFields DEF Live
<1>3. CASE ~l.live \/ vm.dav # l.card
  <2>1. ~l.live
    BY <1>1, <1>3 DEF Core, ListsFit, Live
  <2>2. vm' = r
    BY <1>3 DEF DirectoryListed
  <2>. HIDE DEF lists, r
  <2>3. r \in ViewModel
    BY <1>1, <1>2 DEF ViewModel, r
  <2>4. /\ SameActs(vm, r) /\ SameHome(vm, r) /\ SameService(vm, r) /\ r.lists = lists /\ r.loading = vm.loading /\ r.logins = vm.logins
    BY <1>1 DEF ViewModel, SameActs, SameHome, SameService, r
  <2>5. ListsFit(r)
    BY <1>1, <1>2, <2>4 DEF Core, ListsFit, SameService
  <2>6. Core(r, 0)
    BY <1>1, <2>3, <2>4, <2>5, ActsKept, HomeKept DEF Core
  <2>7. LoadingFits(r)
    BY <1>1, <1>2, <2>1, <2>4 DEF LoadingFits, SameActs, SameHome, Owners
  <2>. QED  BY <1>1, <2>2, <2>4, <2>6, <2>7, ServiceStep
<1>4. CASE ~(~l.live \/ vm.dav # l.card)
  <2>0. l.card \in DavCards \union {None}
    BY <1>1 DEF ListCall
  <2>1. vm' = off \/ vm' = setCurrentView(on, "webdav")
    <3>1. \/ vm' = [[vm EXCEPT !.lists = @ \ {l}] EXCEPT !.loading = FALSE]
          \/ vm' = setCurrentView([[vm EXCEPT !.lists = @ \ {l}] EXCEPT !.loading = FALSE, !.listing = l.card], "webdav")
      BY <1>4 DEF DirectoryListed
    <3>. QED  BY <3>1
  <2>2. ASSUME NEW t, t = off \/ t = on PROVE Core(t, 0) /\ ~t.loading /\ SameService(vm, t)
    <3>. HIDE DEF lists
    <3>1. t \in ViewModel
      <4>1. vm \in ViewModel /\ lists \in SUBSET ListCall
        BY <1>1, <1>2
      <4>2. off \in ViewModel
        BY <4>1 DEF ViewModel
      <4>3. on = [off EXCEPT !.listing = l.card]
        OBVIOUS
      <4>. HIDE DEF off, on
      <4>4. on \in ViewModel
        BY <2>0, <4>2, <4>3 DEF ViewModel
      <4>. QED  BY <2>2, <4>2, <4>4
    <3>2. SameActs(vm, t) /\ SameHome(vm, t) /\ SameService(vm, t) /\ t.lists = lists /\ ~t.loading
      BY <1>1, <2>2 DEF ViewModel, SameActs, SameHome, SameService
    <3>. HIDE DEF off, on
    <3>3. ListsFit(t)
      BY <1>1, <1>2, <3>2 DEF Core, ListsFit, SameService
    <3>4. Core(t, 0)
      BY <1>1, <3>1, <3>2, <3>3, ActsKept, HomeKept DEF Core
    <3>. QED  BY <3>2, <3>4
  <2>. HIDE DEF lists, r, off, on
  <2>3. CASE vm' = off
    <3>1. Core(off, 0) /\ ~off.loading /\ SameService(vm, off)
      BY <2>2
    <3>2. LoadingFits(off)
      BY <3>1 DEF LoadingFits
    <3>. QED  BY <1>1, <2>3, <3>1, <3>2, ServiceStep
  <2>4. CASE vm' = setCurrentView(on, "webdav")
    <3> DEFINE t == setCurrentView(on, "webdav")
    <3>1. Core(on, 0) /\ ~on.loading /\ SameService(vm, on)
      BY <2>2
    <3>2. "webdav" \in Pages /\ "webdav" # "services"
      BY DEF Pages
    <3>3. Turned(on, t, 0)
      BY <3>1, <3>2, ViewGood
    <3>. HIDE DEF t
    <3>4. Core(t, 0) /\ LoadingFits(t) /\ SameService(vm, t)
      BY <3>1, <3>3 DEF Turned, LoadingFits, SameService
    <3>. QED  BY <1>1, <2>4, <3>4, ServiceStep DEF t
  <2>. QED  BY <2>1, <2>3, <2>4
<1>. QED  BY <1>3, <1>4

LEMMA ListingStep ==
    ASSUME EntryGood(vm), vm' = loadWebDavDirectory(vm) PROVE Step(vm, vm')
<1> DEFINE t == loadWebDavDirectory(vm)
<1>1. Core(t, 0) /\ (LoadingFits(vm) => LoadingFits(t)) /\ SameService(vm, t)
  BY ListingGood DEF EntryGood
<1>. HIDE DEF t
<1>2. vm \in ViewModel /\ LoadingFits(vm) /\ vm' = t
  BY DEF EntryGood, Core, t
<1>. QED  BY <1>1, <1>2, ServiceStep

LEMMA BackStep ==
    ASSUME EntryGood(vm), vm' = backToServices(vm) PROVE Step(vm, vm')
<1> DEFINE t == backToServices(vm)
<1>1. vm \in ViewModel /\ ResultsFit(vm) /\ StaysHere(vm) /\ ListsFit(vm)
  BY DEF EntryGood, Core
<1>2. Core(t, 0) /\ ~t.loading /\ Kept(vm, t)
  BY <1>1, BackGood
<1>. HIDE DEF t
<1>3. LoadingFits(t)
  BY <1>2 DEF LoadingFits
<1>4. Went(vm, t, 0)
  BY <1>2, <1>3 DEF Went
<1>. QED  BY <1>4, WentStep DEF t

\* A page is turned to, from a record of the same service.
LEMMA PageStep ==
    ASSUME EntryGood(vm), NEW s, Core(s, 0), LoadingFits(s), SameService(vm, s),
           NEW view \in Pages \ {"services"}, vm' = setCurrentView(s, view)
    PROVE  Step(vm, vm')
<1> DEFINE t == setCurrentView(s, view)
<1>1. Turned(s, t, 0)
  BY ViewGood
<1>2. vm' = t /\ vm \in ViewModel
  BY DEF EntryGood, Core
<1>. HIDE DEF t
<1>3. Core(t, 0) /\ LoadingFits(t) /\ SameService(vm, t)
  BY <1>1 DEF Turned, SameService
<1>. QED  BY <1>2, <1>3, ServiceStep

LEMMA RefreshHomeStep ==
    ASSUME EntryGood(vm), RefreshHome PROVE Step(vm, vm')
<1> DEFINE no == FALSE
<1>1. PICK cached \in Cached(vm.session) : vm' = refreshHome(vm, no, cached)
  BY DEF RefreshHome
<1>2. Core(vm, 0) /\ vm \in ViewModel /\ vm.view # "services" /\ Free(vm, Rails, no) /\ no \in BOOLEAN
  BY DEF EntryGood, Core, RefreshHome, Refreshable, Free
<1>. HIDE DEF no
<1>3. CASE vm.session = None
  <2>1. vm' = vm
    BY <1>1, <1>3 DEF refreshHome
  <2>2. Went(vm, vm, 0)
    BY <1>2 DEF Went, Kept
  <2>. QED  BY <2>1, <2>2, WentStep
<1>4. CASE vm.session # None
  <2>1. vm.session \in MediaCards
    BY <1>2, <1>4, VmFields
  <2>2. Went(vm, refreshHome(vm, no, cached), 0)
    BY <1>1, <1>2, <2>1, RefreshGood
  <2>. QED  BY <1>1, <2>2, WentStep
<1>. QED  BY <1>3, <1>4

LEMMA RecommendationsStep ==
    ASSUME EntryGood(vm), RefreshEmbyRecommendations PROVE Step(vm, vm')
<1> DEFINE no == FALSE
           yes == TRUE
<1>1. PICK cached \in Cached(vm.session) : vm' = refreshRecommendations(vm, yes, no, cached)
  BY DEF RefreshEmbyRecommendations
<1>2. /\ Core(vm, 0) /\ vm.session \in MediaCards /\ vm.view # "services"
      /\ FreeCopies(vm, "suggestions", no) # {} /\ no \in BOOLEAN /\ yes \in BOOLEAN
  BY CardsAssumption DEF EntryGood, RefreshEmbyRecommendations, Refreshable, Rails
<1>. HIDE DEF no, yes
<1>3. Went(vm, refreshRecommendations(vm, yes, no, cached), 0)
  BY <1>1, <1>2, RecommendationsGood
<1>. QED  BY <1>1, <1>3, WentStep

LEMMA SettingsStep ==
    ASSUME EntryGood(vm), OpenSettings PROVE Step(vm, vm')
<1> DEFINE s == setCurrentView(vm, "settings")
           t == refreshEmbyRecommendationGenres(s)
<1>1. vm' = s \/ vm' = t
  BY DEF OpenSettings
<1>2. Turned(vm, s, 0)
  BY ViewGood DEF EntryGood, Pages
<1>. HIDE DEF s
<1>3. Turned(s, t, 0)
  BY <1>2, GenresGood DEF Turned
<1>4. Turned(vm, t, 0)
  BY <1>2, <1>3, TurnedTwice
<1>. QED  BY <1>1, <1>2, <1>4, TurnedWent, WentStep

LEMMA BackToHomeStep ==
    ASSUME EntryGood(vm), BackToHome PROVE Step(vm, vm')
<1>1. PICK fresh \in BOOLEAN : vm' = backToHome([vm EXCEPT !.stamped = @ /\ fresh])
  BY DEF BackToHome
<1> DEFINE stamped == vm.stamped /\ fresh
           s == [vm EXCEPT !.stamped = stamped]
<1>2. vm \in ViewModel /\ Core(vm, 0) /\ LoadingFits(vm) /\ stamped \in BOOLEAN
  BY DEF EntryGood, Core
<1>3. vm' = backToHome(s)
  BY <1>1
<1>. HIDE DEF stamped
<1>4. s \in ViewModel
  BY <1>2 DEF ViewModel
<1>5. SameActs(vm, s) /\ SameLists(vm, s) /\ SameHome(vm, s) /\ SameService(vm, s) /\ s.loading = vm.loading /\ s.logins = vm.logins
  BY <1>2 DEF ViewModel, SameActs, SameLists, SameHome, SameService
<1>. HIDE DEF s
<1>6. Step(vm, s)
  BY <1>4, <1>5, SameStep
<1>7. Went(s, backToHome(s), 0)
  BY <1>6, BackHomeGood DEF Step, EntryGood
<1>. QED  BY <1>3, <1>6, <1>7 DEF Step, EntryGood, Went, Kept

LEMMA EntryStep == EntryGood(vm) /\ Next => Step(vm, vm')
<1>. SUFFICES ASSUME EntryGood(vm), Next PROVE Step(vm, vm')
  OBVIOUS
<1>0. Core(vm, 0) /\ LoadingFits(vm) /\ vm \in ViewModel
  BY DEF EntryGood, Core
<1>1. CASE Callback
  <2>1. ASSUME NEW a \in vm.acts, FeedbackShown(a) \/ Prepared(a) \/ Commit(a) PROVE Step(vm, vm')
    BY <2>1, FeedbackStep, PreparedStep, CommitStep
  <2>2. ASSUME NEW card \in vm.logins, LoginAnswered(card) PROVE Step(vm, vm')
    BY <2>2, LoginAnsweredStep
  <2>3. ASSUME NEW c \in vm.home, HomeStarted(c) \/ HomeAnswered(c) PROVE Step(vm, vm')
    BY <2>3, HomeStartedStep, HomeAnsweredStep
  <2>4. ASSUME NEW l \in vm.lists, DirectoryListed(l) PROVE Step(vm, vm')
    BY <2>4, ListedStep
  <2>. QED  BY <1>1, <2>1, <2>2, <2>3, <2>4, GenresStep, ExpandedStep, BackgroundStep DEF Callback
<1>2. CASE User
  <2>1. ASSUME NEW card \in Cards, SelectServiceCard(card) \/ EditServiceCard(card) PROVE Step(vm, vm')
    <3>1. EditServiceCard(card) => vm' = [vm EXCEPT !.pending = card]
      BY DEF EditServiceCard
    <3>. QED  BY <2>1, <3>1, SelectStep, EditStep
  <2>2. ASSUME BeginAddServiceCard PROVE Step(vm, vm')
    <3>1. vm' = [vm EXCEPT !.pending = None]
      BY <2>2 DEF BeginAddServiceCard
    <3>. QED  BY <3>1, EditStep
  <2>3. ASSUME OpenWebDavFolder \/ RefreshWebDavDirectory \/ WebDavBack PROVE Step(vm, vm')
    <3>1. vm' = loadWebDavDirectory(vm) \/ vm' = backToServices(vm)
      BY <2>3 DEF OpenWebDavFolder, RefreshWebDavDirectory, WebDavBack
    <3>. QED  BY <3>1, ListingStep, BackStep
  <2>4. ASSUME OpenLibrary PROVE Step(vm, vm')
    <3> DEFINE s == [vm EXCEPT !.warm = FALSE]
    <3>1. vm' = setCurrentView(s, "library") /\ "library" \in Pages \ {"services"}
      BY <2>4 DEF OpenLibrary, Pages
    <3>2. Core(s, 0) /\ LoadingFits(s) /\ SameService(vm, s)
      BY WarmOff
    <3>. HIDE DEF s
    <3>. QED  BY <3>1, <3>2, PageStep
  <2>5. ASSUME OpenTransfers PROVE Step(vm, vm')
    <3>1. vm' = setCurrentView(vm, "transfers") /\ "transfers" \in Pages \ {"services"} /\ SameService(vm, vm)
      BY <2>5 DEF OpenTransfers, Pages, SameService
    <3>. QED  BY <1>0, <3>1, PageStep
  <2>6. ASSUME BackToServices PROVE Step(vm, vm')
    BY <2>6, BackStep DEF BackToServices
  <2>. QED  BY <1>2, <2>1, <2>2, <2>3, <2>4, <2>5, <2>6, LoginStep, AbortedStep, RefreshHomeStep, RecommendationsStep,
               SettingsStep, BackToHomeStep DEF User
<1>. QED  BY <1>1, <1>2 DEF Next

LEMMA EntryStarts == Init => EntryGood(vm)
<1>. SUFFICES ASSUME Init PROVE EntryGood(vm)
  OBVIOUS
<1>1. /\ vm.view = "services" /\ ~vm.loading /\ ~vm.inFlight /\ vm.gate = None /\ vm.acts = {} /\ vm.home = {} /\ vm.lists = {}
      /\ vm.busy = 0 /\ ~vm.initial /\ ~vm.refreshing /\ ~vm.genresLoading /\ ~vm.warm
  BY DEF Init
<1>2. Live(vm.acts) = {} /\ Live(vm.home) = {} /\ Live(vm.lists) = {} /\ IsFiniteSet(vm.home)
  BY <1>1, FS_EmptySet DEF Live
<1>3. vm \in ViewModel
  <2> DEFINE rails == NoRails
             zero == 0
             empty == {}
  <2>1. rails \in [Rails -> MediaCards \union {None}] /\ zero \in Nat
    BY DEF NoRails
  <2>2. /\ empty \in SUBSET Act /\ empty \in SUBSET MediaCards /\ empty \in SUBSET HomeCall /\ empty \in SUBSET ListCall
    OBVIOUS
  <2>3. vm = [view |-> "services", loading |-> FALSE, pending |-> None,
              session |-> None, dav |-> None, iptv |-> None,
              inFlight |-> FALSE, moving |-> FALSE, expanded |-> TRUE, gate |-> None, acts |-> empty,
              logins |-> empty, busy |-> zero, initial |-> FALSE, valid |-> FALSE, home |-> empty,
              rails |-> rails, stamped |-> FALSE, warm |-> FALSE,
              refreshing |-> FALSE, genresLoading |-> FALSE, genres |-> "none", lists |-> empty, listing |-> None]
    BY DEF Init
  <2>. HIDE DEF rails, zero, empty
  <2>. QED  BY <2>1, <2>2, <2>3 DEF ViewModel, Pages
<1>4. ActsFit(vm) /\ StaysHere(vm) /\ ResultsFit(vm) /\ ListsFit(vm)
  BY <1>1, <1>2 DEF ActsFit, StaysHere, ResultsFit, ListsFit
<1>5. HomeFits(vm, 0) /\ BusyFits(vm) /\ RefreshFits(vm)
  BY <1>1, <1>2, StillFits
<1>. QED  BY <1>1, <1>3, <1>4, <1>5 DEF EntryGood, Core, LoadingFits

\* The invariant is what the properties ask for.
LEMMA EntryHolds == EntryGood(vm) => EntryInv
<1>. SUFFICES ASSUME EntryGood(vm) PROVE EntryInv
  OBVIOUS
<1>1. /\ vm \in ViewModel /\ vm.busy \in Nat /\ IsFiniteSet(vm.home) /\ ActsFit(vm) /\ HomeFits(vm, 0) /\ BusyFits(vm)
      /\ RefreshFits(vm) /\ LoadingFits(vm) /\ vm.home \in SUBSET HomeCall
  BY VmFields DEF EntryGood, Core, HomeFits
<1>2. /\ Cardinality(Counted(vm)) \in Nat /\ Cardinality(Owners(vm)) \in Nat
      /\ Cardinality(Counted(vm)) <= Cardinality(Owners(vm)) /\ vm.busy <= Cardinality(Counted(vm)) + 0
  BY <1>1, OwnersFinite DEF HomeFits
<1>3. SpinnerHasOwners
  <2>1. vm.busy <= Cardinality(Owners(vm))
    BY <1>1, <1>2
  <2>. QED  BY <2>1 DEF SpinnerHasOwners, Owners
<1>4. FlagsHaveOwners
  BY <1>1 DEF FlagsHaveOwners, RefreshFits, HomeFits
<1>5. vm.inFlight => Live(vm.acts) # {} \/ (vm.gate # None /\ vm.moving)
  BY <1>1 DEF ActsFit
<1>6. vm.initial => \E c \in Live(vm.home) : ~c.quiet
  <2>. SUFFICES ASSUME vm.initial PROVE \E c \in Live(vm.home) : ~c.quiet
    OBVIOUS
  <2>1. Cardinality(Counted(vm)) # 0
    BY <1>1, <1>2 DEF BusyFits
  <2>2. Counted(vm) # {}
    BY <2>1, FS_EmptySet
  <2>. QED  BY <2>2 DEF Counted, Owners, Live
<1>7. LoadingHasOwners
  BY <1>1, <1>5, <1>6 DEF LoadingHasOwners, LoadingFits, Owners, Live
<1>. QED  BY <1>1, <1>3, <1>4, <1>7 DEF EntryInv, TypeOK

\* One step of what RightServiceOnly promises
FillsStep == \A r \in Rails : vm'.rails[r] # vm.rails[r] => vm'.rails[r] \in {None, vm'.session}
EntersStep ==
    /\ vm'.dav \notin {vm.dav, None} => vm'.dav = vm.pending
    /\ vm'.iptv \notin {vm.iptv, None} => vm'.iptv = vm.pending
    /\ vm'.session \notin {vm.session, None} => vm'.session = vm.pending \/ vm'.session \in vm.logins

LEMMA StepHolds == Step(vm, vm') => FillsStep /\ EntersStep
BY DEF Step, Chosen, FillsStep, EntersStep

LEMMA RestHolds == UNCHANGED vars => FillsStep /\ EntersStep
BY DEF vars, FillsStep, EntersStep

-----------------------------------------------------------------------------
(* The pages of a library *)

(***************************************************************************)
(* The rows of a folder are its pages from the first one on, without a gap *)
(* and without one twice; at most one page is on its way, the next one of  *)
(* the folder that is shown.  The episodes are those of the season, and    *)
(* the results of a search are its pages from the first one on.            *)
(***************************************************************************)

Places(rows, folder) == {i \in DOMAIN rows : rows[i].folder = folder}
Numbers(rows, folder) == {rows[i].page : i \in Places(rows, folder)}

Gapless(rows) ==
    \A f \in Folders : IsFiniteSet(Places(rows, f)) /\ Numbers(rows, f) = 0..(Cardinality(Places(rows, f)) - 1)

RowsFit(s) ==
    /\ Gapless(s.rows)
    /\ s.pages \subseteq {[folder |-> s.folder, page |-> s.start]}
    /\ s.folder # None => s.start <= Cardinality(Places(s.rows, s.folder))
    /\ s.folder = None => s.rows = <<>>

SeasonsFit(s) ==
    /\ s.episodesOf \in {None, s.season}
    /\ s.season # None => s.season[1] = s.seasonsOf
    /\ \A c \in s.series : IF c.op = "seasons" THEN c.of \in Shows ELSE c.of = s.season

SwitchFits(s) == s.switching => \E d \in s.details : d.by = "episode"

SearchFits(s) ==
    /\ s.results = [i \in 1..s.next |-> [term |-> s.term, page |-> i - 1]]
    /\ s.searchLoading <=> s.searches # {}
    /\ s.searches \subseteq {[term |-> s.term, page |-> s.next]}

LibraryGood(s) == s \in Browser!Library /\ RowsFit(s) /\ SeasonsFit(s) /\ SwitchFits(s) /\ SearchFits(s)

LEMMA EmptyGapless == Gapless(<<>>)
<1>. SUFFICES ASSUME NEW f \in Folders
     PROVE  IsFiniteSet(Places(<<>>, f)) /\ Numbers(<<>>, f) = 0..(Cardinality(Places(<<>>, f)) - 1)
  BY DEF Gapless
<1>1. Places(<<>>, f) = {}
  BY DEF Places
<1>2. Numbers(<<>>, f) = {}
  BY <1>1 DEF Numbers
<1>. QED  BY <1>1, <1>2, FS_EmptySet

\* A row that is not there and comes no later than the next one is the next one.
LEMMA NextIsNext ==
    ASSUME NEW rows \in Seq(Browser!Page), Gapless(rows), NEW f \in Folders, NEW n \in Nat,
           n <= Cardinality(Places(rows, f)), \A i \in DOMAIN rows : rows[i] # [folder |-> f, page |-> n]
    PROVE  n = Cardinality(Places(rows, f))
<1> DEFINE c == Cardinality(Places(rows, f))
<1>1. IsFiniteSet(Places(rows, f)) /\ Numbers(rows, f) = 0..(c - 1)
  BY DEF Gapless
<1>2. c \in Nat
  BY <1>1, FS_CardinalityType
<1>. HIDE DEF c
<1>3. ASSUME n < c PROVE FALSE
  <2>1. n \in Numbers(rows, f)
    BY <1>1, <1>2, <1>3
  <2>2. PICK i \in DOMAIN rows : rows[i].folder = f /\ rows[i].page = n
    BY <2>1 DEF Numbers, Places
  <2>3. rows[i] \in Browser!Page
    OBVIOUS
  <2>4. rows[i] = [folder |-> f, page |-> n]
    BY <2>2, <2>3 DEF Browser!Page
  <2>. QED  BY <2>4
<1>. QED  BY <1>2, <1>3 DEF c

LEMMA AppendGapless ==
    ASSUME NEW rows \in Seq(Browser!Page), Gapless(rows), NEW f \in Folders
    PROVE  LET n == Cardinality(Places(rows, f))
               more == Append(rows, [folder |-> f, page |-> n])
           IN  Gapless(more) /\ n \in Nat /\ Cardinality(Places(more, f)) = n + 1
<1> DEFINE n == Cardinality(Places(rows, f))
           row == [folder |-> f, page |-> n]
           more == Append(rows, row)
           new == Len(rows) + 1
<1>1. n \in Nat /\ IsFiniteSet(Places(rows, f))
  BY FS_CardinalityType DEF Gapless
<1>2. row \in Browser!Page /\ row.folder = f /\ row.page = n
  BY <1>1 DEF Browser!Page
<1>. HIDE DEF n, row
<1>3. /\ DOMAIN rows = 1..Len(rows) /\ Len(rows) \in Nat /\ DOMAIN more = 1..new /\ more[new] = row
      /\ \A i \in DOMAIN rows : more[i] = rows[i]
  BY <1>2
<1>. HIDE DEF more
<1>4. ASSUME NEW g \in Folders, g # f
      PROVE  IsFiniteSet(Places(more, g)) /\ Numbers(more, g) = 0..(Cardinality(Places(more, g)) - 1)
  <2>1. Places(more, g) = Places(rows, g)
    BY <1>2, <1>3, <1>4 DEF Places
  <2>2. \A i \in Places(rows, g) : more[i] = rows[i]
    BY <1>3 DEF Places
  <2>. HIDE DEF new
  <2>3. Numbers(more, g) = Numbers(rows, g)
    BY <2>1, <2>2 DEF Numbers
  <2>. QED  BY <2>1, <2>3 DEF Gapless
<1>5. Places(more, f) = Places(rows, f) \union {new} /\ new \notin Places(rows, f)
  BY <1>2, <1>3 DEF Places
<1>6. IsFiniteSet(Places(more, f)) /\ Cardinality(Places(more, f)) = n + 1
  BY <1>1, <1>5, FS_AddElement DEF n
<1>7. Numbers(more, f) = Numbers(rows, f) \union {n}
  <2>1. \A i \in Places(rows, f) : more[i] = rows[i]
    BY <1>3 DEF Places
  <2>2. more[new].page = n
    BY <1>2, <1>3
  <2>. HIDE DEF new
  <2>. QED  BY <1>5, <2>1, <2>2 DEF Numbers
<1>8. Numbers(rows, f) = 0..(n - 1)
  BY DEF Gapless, n
<1>9. Numbers(more, f) = 0..((n + 1) - 1)
  BY <1>1, <1>7, <1>8
<1>. QED  BY <1>1, <1>4, <1>6, <1>9 DEF Gapless, n, row, more

LEMMA NearIs == ASSUME NEW title \in Shows \union Browser!Episodes PROVE Browser!Near(title) \in Seasons /\ Browser!ShowOf(title) \in Shows
<1>1. Browser!ShowOf(title) \in Shows /\ (title \in Browser!Episodes => title[2] \in Seasons)
  BY DEF Browser!ShowOf, Browser!Episodes
<1>2. Seasons \subseteq Nat /\ Seasons # {}
  BY BrowserAssumption DEF Browser!LibraryAssumption
<1>3. \E n \in Seasons : \A k \in Seasons : n <= k
  <2>1. PICK n \in Seasons : \A k \in Seasons : ~(<<k, n>> \in OpToRel(<, Nat))
    BY <1>2, NatLessThanWellFounded, WFMin
  <2>2. \A k \in Seasons : ~(k < n)
    BY <1>2, <2>1 DEF OpToRel
  <2>. QED  BY <1>2, <2>2
<1>4. (CHOOSE n \in Seasons : \A k \in Seasons : n <= k) \in Seasons
  BY <1>3
<1>. QED  BY <1>1, <1>4 DEF Browser!Near

-----------------------------------------------------------------------------
(* What changes only what the other parts do not see *)

LEMMA LibFields ==
    ASSUME NEW s, s \in Browser!Library
    PROVE  /\ s.rows \in Seq(Browser!Page) /\ s.start \in Nat /\ s.folder \in Folders \union {None}
           /\ s.selected \in Browser!Titles \union {None} /\ s.above \in Seq(Folders)
           /\ s.details \in SUBSET Browser!Detail /\ s.series \in SUBSET Browser!SeriesCall /\ s.pages \in SUBSET Browser!Page
           /\ s.season \in Browser!Episodes \union {None} /\ s.next \in Nat /\ s.searches \in SUBSET Browser!Search
BY DEF Browser!Library, Browser!Page

LEMMA RowsSame ==
    ASSUME NEW s, RowsFit(s), NEW t, t.rows = s.rows, t.pages = s.pages, t.folder = s.folder, t.start = s.start
    PROVE  RowsFit(t)
BY DEF RowsFit

LEMMA SeasonsSame ==
    ASSUME NEW s, SeasonsFit(s), NEW t, t.episodesOf = s.episodesOf, t.season = s.season,
           t.seasonsOf = s.seasonsOf, t.series = s.series
    PROVE  SeasonsFit(t)
BY DEF SeasonsFit

LEMMA SearchSame ==
    ASSUME NEW s, SearchFits(s), NEW t, t.results = s.results, t.next = s.next, t.term = s.term,
           t.searches = s.searches, t.searchLoading = s.searchLoading
    PROVE  SearchFits(t)
BY DEF SearchFits

\* The view, the global loading state, the way back and what is selected.
LEMMA AsideGood ==
    ASSUME NEW s, LibraryGood(s), NEW t, t \in Browser!Library,
           t.rows = s.rows, t.pages = s.pages, t.folder = s.folder, t.start = s.start,
           t.episodesOf = s.episodesOf, t.season = s.season, t.seasonsOf = s.seasonsOf, t.series = s.series,
           t.results = s.results, t.next = s.next, t.term = s.term, t.searches = s.searches,
           t.searchLoading = s.searchLoading, SwitchFits(t)
    PROVE  LibraryGood(t)
BY RowsSame, SeasonsSame, SearchSame DEF LibraryGood

\* The parts of the record that AsideGood leaves alone.
Aside(s, t) ==
    /\ t.rows = s.rows /\ t.pages = s.pages /\ t.folder = s.folder /\ t.start = s.start
    /\ t.episodesOf = s.episodesOf /\ t.season = s.season /\ t.seasonsOf = s.seasonsOf /\ t.series = s.series
    /\ t.results = s.results /\ t.next = s.next /\ t.term = s.term /\ t.searches = s.searches
    /\ t.searchLoading = s.searchLoading

Marked(s, t) == t.details = s.details /\ t.switching = s.switching

LEMMA MarkedGood ==
    ASSUME NEW s, LibraryGood(s), NEW t, t \in Browser!Library, Aside(s, t), Marked(s, t)
    PROVE  LibraryGood(t) /\ t.switching = s.switching
<1>1. SwitchFits(t)
  BY DEF LibraryGood, SwitchFits, Marked
<1>. QED  BY <1>1, AsideGood DEF Aside, Marked

Views == {"home", "library", "details", "search", "settings"}

LEMMA PagesGood ==
    ASSUME NEW s, LibraryGood(s), NEW view \in Views
    PROVE  /\ LibraryGood(Browser!setCurrentView(s, view))
           /\ Browser!setCurrentView(s, view).details = s.details /\ Browser!setCurrentView(s, view).switching = s.switching
<1> DEFINE loading == s.loading /\ ~(s.view = "home" /\ view # "home")
           t == Browser!setCurrentView(s, view)
<1>1. t = [s EXCEPT !.view = view, !.loading = loading] /\ s \in Browser!Library
  BY DEF Browser!setCurrentView, LibraryGood, Browser!Library
<1>2. loading \in BOOLEAN
  BY DEF LibraryGood, Browser!Library
<1>. HIDE DEF loading, t
<1>3. t \in Browser!Library
  BY <1>1, <1>2 DEF Browser!Library, Views
<1>4. /\ t.rows = s.rows /\ t.pages = s.pages /\ t.folder = s.folder /\ t.start = s.start
      /\ t.episodesOf = s.episodesOf /\ t.season = s.season /\ t.seasonsOf = s.seasonsOf /\ t.series = s.series
      /\ t.results = s.results /\ t.next = s.next /\ t.term = s.term /\ t.searches = s.searches
      /\ t.searchLoading = s.searchLoading /\ t.details = s.details /\ t.switching = s.switching
  BY <1>1 DEF Browser!Library
<1>5. SwitchFits(t)
  BY <1>4 DEF LibraryGood, SwitchFits
<1>. QED  BY <1>3, <1>4, <1>5, AsideGood DEF t

LEMMA ClearGood ==
    ASSUME NEW s, LibraryGood(s)
    PROVE  /\ LibraryGood(Browser!clearSeriesDetails(s)) /\ ~Browser!clearSeriesDetails(s).switching
           /\ Browser!clearSeriesDetails(s).rows = s.rows /\ Browser!clearSeriesDetails(s).folder = s.folder
           /\ Browser!clearSeriesDetails(s).start = s.start /\ Browser!clearSeriesDetails(s).more = s.more
<1> DEFINE loading == s.loading /\ ~s.switching
           outdated == Browser!DetailsOutdated(s)
           t == Browser!clearSeriesDetails(s)
<1>1. t = [s EXCEPT !.details = outdated, !.series = {}, !.season = None, !.seasonsOf = None,
                    !.episodesOf = None, !.switching = FALSE, !.loading = loading] /\ s \in Browser!Library
  BY DEF Browser!clearSeriesDetails, LibraryGood, Browser!Library
<1>2. loading \in BOOLEAN /\ outdated \in SUBSET Browser!Detail
  BY DEF LibraryGood, Browser!Library, Browser!DetailsOutdated
<1>. HIDE DEF loading, outdated, t
<1>3. t \in Browser!Library
  BY <1>1, <1>2 DEF Browser!Library
<1>4. /\ t.rows = s.rows /\ t.pages = s.pages /\ t.folder = s.folder /\ t.start = s.start
      /\ t.episodesOf = None /\ t.season = None /\ t.seasonsOf = None /\ t.series = {}
      /\ t.results = s.results /\ t.next = s.next /\ t.term = s.term /\ t.searches = s.searches
      /\ t.searchLoading = s.searchLoading /\ t.switching = FALSE /\ t.more = s.more
  BY <1>1 DEF Browser!Library
<1>5. SeasonsFit(t) /\ SwitchFits(t) /\ RowsFit(t) /\ SearchFits(t)
  BY <1>4, RowsSame, SearchSame DEF LibraryGood, SwitchFits, SeasonsFit
<1>. QED  BY <1>3, <1>4, <1>5 DEF t, LibraryGood

\* What is asked from now on is the first page of the folder.
LEMMA ResetGood ==
    ASSUME NEW s, LibraryGood(s), NEW folder \in Folders
    PROVE  LibraryGood(Browser!resetMediaDirectory(s, folder)) /\ Browser!resetMediaDirectory(s, folder).folder = folder
<1> DEFINE t == Browser!resetMediaDirectory(s, folder)
<1>1. t = [s EXCEPT !.pages = {}, !.folder = folder, !.start = 0, !.more = TRUE] /\ s \in Browser!Library
  BY DEF Browser!resetMediaDirectory, Browser!RequestsForgotten, LibraryGood, Browser!Library
<1>. HIDE DEF t
<1>3. t \in Browser!Library
  BY <1>1 DEF Browser!Library
<1>4. /\ t.rows = s.rows /\ t.pages = {} /\ t.folder = folder /\ t.start = 0
      /\ t.episodesOf = s.episodesOf /\ t.season = s.season /\ t.seasonsOf = s.seasonsOf /\ t.series = s.series
      /\ t.results = s.results /\ t.next = s.next /\ t.term = s.term /\ t.searches = s.searches
      /\ t.searchLoading = s.searchLoading /\ t.details = s.details /\ t.switching = s.switching
  BY <1>1 DEF Browser!Library
<1>5. RowsFit(t)
  <2>1. folder # None
    BY BrowserAssumption DEF Browser!LibraryAssumption
  <2>2. Cardinality(Places(t.rows, folder)) \in Nat
    BY <1>4, FS_CardinalityType DEF LibraryGood, RowsFit, Gapless
  <2>. QED  BY <1>4, <2>1, <2>2 DEF LibraryGood, RowsFit
<1>6. SwitchFits(t) /\ SeasonsFit(t) /\ SearchFits(t)
  BY <1>4, SeasonsSame, SearchSame DEF LibraryGood, SwitchFits
<1>. QED  BY <1>3, <1>4, <1>5, <1>6 DEF t, LibraryGood

\* The rows are forgotten, and with them what was selected.
LEMMA EmptiedGood ==
    ASSUME NEW s, LibraryGood(s), s.folder # None
    PROVE  LibraryGood([s EXCEPT !.start = 0, !.more = TRUE, !.rows = <<>>, !.selected = None, !.pages = {}])
<1> DEFINE t == [s EXCEPT !.start = 0, !.more = TRUE, !.rows = <<>>, !.selected = None, !.pages = {}]
<1>0. <<>> \in Seq(Browser!Page) /\ s \in Browser!Library
  BY DEF LibraryGood
<1>3. t \in Browser!Library
  BY <1>0 DEF Browser!Library, Browser!Page
<1>4. /\ t.rows = <<>> /\ t.pages = {} /\ t.folder = s.folder /\ t.start = 0
      /\ t.episodesOf = s.episodesOf /\ t.season = s.season /\ t.seasonsOf = s.seasonsOf /\ t.series = s.series
      /\ t.results = s.results /\ t.next = s.next /\ t.term = s.term /\ t.searches = s.searches
      /\ t.searchLoading = s.searchLoading /\ t.details = s.details /\ t.switching = s.switching
  BY <1>0 DEF Browser!Library
<1>. HIDE DEF t
<1>5. RowsFit(t)
  <2>1. s.folder \in Folders
    BY <1>0 DEF Browser!Library
  <2>2. Cardinality(Places(<<>>, s.folder)) \in Nat
    BY <2>1, EmptyGapless, FS_CardinalityType DEF Gapless
  <2>. QED  BY <1>4, <2>1, <2>2, EmptyGapless DEF RowsFit
<1>6. SwitchFits(t) /\ SeasonsFit(t) /\ SearchFits(t)
  BY <1>4, SeasonsSame, SearchSame DEF LibraryGood, SwitchFits
<1>. QED  BY <1>3, <1>5, <1>6 DEF t, LibraryGood

\* A request for the next page replaces the others.
LEMMA AskedGood ==
    ASSUME NEW s, LibraryGood(s), s.folder # None
    PROVE  LibraryGood([s EXCEPT !.pages = {[folder |-> s.folder, page |-> s.start]},
                                 !.pageLoading = TRUE, !.loading = TRUE])
<1> DEFINE p == [folder |-> s.folder, page |-> s.start]
           t == [s EXCEPT !.pages = {p}, !.pageLoading = TRUE, !.loading = TRUE]
<1>1. s \in Browser!Library /\ p \in Browser!Page
  BY DEF LibraryGood, Browser!Library, Browser!Page
<1>. HIDE DEF p
<1>3. t \in Browser!Library
  BY <1>1 DEF Browser!Library
<1>4. /\ t.rows = s.rows /\ t.pages = {p} /\ t.folder = s.folder /\ t.start = s.start
      /\ t.episodesOf = s.episodesOf /\ t.season = s.season /\ t.seasonsOf = s.seasonsOf /\ t.series = s.series
      /\ t.results = s.results /\ t.next = s.next /\ t.term = s.term /\ t.searches = s.searches
      /\ t.searchLoading = s.searchLoading /\ t.details = s.details /\ t.switching = s.switching
  BY <1>1 DEF Browser!Library
<1>. HIDE DEF t
<1>5. RowsFit(t)
  BY <1>4 DEF LibraryGood, RowsFit, p
<1>6. SwitchFits(t) /\ SeasonsFit(t) /\ SearchFits(t)
  BY <1>4, SeasonsSame, SearchSame DEF LibraryGood, SwitchFits
<1>. QED  BY <1>3, <1>5, <1>6 DEF t, p, LibraryGood

LEMMA PagesForgottenGood == ASSUME NEW s, LibraryGood(s) PROVE LibraryGood([s EXCEPT !.pages = {}])
<1> DEFINE t == [s EXCEPT !.pages = {}]
<1>3. t \in Browser!Library
  BY DEF LibraryGood, Browser!Library
<1>4. /\ t.rows = s.rows /\ t.pages = {} /\ t.folder = s.folder /\ t.start = s.start
      /\ t.episodesOf = s.episodesOf /\ t.season = s.season /\ t.seasonsOf = s.seasonsOf /\ t.series = s.series
      /\ t.results = s.results /\ t.next = s.next /\ t.term = s.term /\ t.searches = s.searches
      /\ t.searchLoading = s.searchLoading /\ t.details = s.details /\ t.switching = s.switching
  BY DEF LibraryGood, Browser!Library
<1>. HIDE DEF t
<1>5. RowsFit(t)
  BY <1>4 DEF LibraryGood, RowsFit
<1>6. SwitchFits(t) /\ SeasonsFit(t) /\ SearchFits(t)
  BY <1>4, SeasonsSame, SearchSame DEF LibraryGood, SwitchFits
<1>. QED  BY <1>3, <1>5, <1>6 DEF t, LibraryGood

LEMMA LoadGood ==
    ASSUME NEW s, LibraryGood(s), NEW resetItems \in BOOLEAN
    PROVE  LibraryGood(Browser!loadMediaDirectory(s, resetItems))
<1>1. CASE s.folder = None \/ s.loading \/ (~resetItems /\ ~s.more)
  BY <1>1 DEF Browser!loadMediaDirectory
<1>2. CASE ~(s.folder = None \/ s.loading \/ (~resetItems /\ ~s.more))
  <2> DEFINE e == [s EXCEPT !.start = 0, !.more = TRUE, !.rows = <<>>, !.selected = None]
             reset == IF resetItems THEN Browser!clearSeriesDetails(e) ELSE s
             t == Browser!loadMediaDirectory(s, resetItems)
  <2>1. s \in Browser!Library /\ s.folder # None
    BY <1>2 DEF LibraryGood
  <2>2. t = [Browser!RequestsForgotten(reset) EXCEPT
                    !.pages = @ \union {[folder |-> s.folder, page |-> reset.start]},
                    !.pageLoading = TRUE, !.loading = TRUE]
    BY <1>2 DEF Browser!loadMediaDirectory
  <2>3. LibraryGood([e EXCEPT !.pages = {}])
    <3>1. [e EXCEPT !.pages = {}]
            = [s EXCEPT !.start = 0, !.more = TRUE, !.rows = <<>>, !.selected = None, !.pages = {}]
      OBVIOUS
    <3>. QED  BY <2>1, <3>1, EmptiedGood
  <2>4. LibraryGood(Browser!RequestsForgotten(reset)) /\ Browser!RequestsForgotten(reset).folder = s.folder
        /\ Browser!RequestsForgotten(reset).start = reset.start /\ Browser!RequestsForgotten(reset).pages = {}
    <3>1. CASE resetItems
      <4> DEFINE f == [e EXCEPT !.pages = {}]
      <4>1. LibraryGood(Browser!clearSeriesDetails(f)) /\ Browser!clearSeriesDetails(f).folder = f.folder
            /\ Browser!clearSeriesDetails(f).start = f.start
        BY <2>3, ClearGood
      <4>2. Browser!RequestsForgotten(Browser!clearSeriesDetails(e)) = Browser!clearSeriesDetails(f)
        <5> DEFINE outdated == Browser!DetailsOutdated(e)
                   loading == e.loading /\ ~e.switching
        <5>1. Browser!DetailsOutdated(f) = outdated /\ (f.loading /\ ~f.switching <=> loading)
              /\ e.loading \in BOOLEAN /\ f.loading \in BOOLEAN
          BY <2>1 DEF Browser!DetailsOutdated, Browser!Library
        <5>2. (f.loading /\ ~f.switching) = loading
          BY <5>1
        <5>3. Browser!clearSeriesDetails(e)
                = [e EXCEPT !.details = outdated, !.series = {}, !.season = None, !.seasonsOf = None,
                            !.episodesOf = None, !.switching = FALSE, !.loading = loading]
          BY <2>1 DEF Browser!clearSeriesDetails, Browser!Library
        <5>4. Browser!clearSeriesDetails(f)
                = [f EXCEPT !.details = outdated, !.series = {}, !.season = None, !.seasonsOf = None,
                            !.episodesOf = None, !.switching = FALSE, !.loading = loading]
          BY <2>1, <5>1, <5>2 DEF Browser!clearSeriesDetails, Browser!Library
        <5>. HIDE DEF outdated, loading, e
        <5>. QED  BY <5>3, <5>4 DEF Browser!RequestsForgotten
      <4>3. Browser!clearSeriesDetails(e).start = 0 /\ f.start = 0 /\ f.folder = s.folder
            /\ Browser!clearSeriesDetails(f).pages = {}
        BY <2>1 DEF Browser!clearSeriesDetails, Browser!Library
      <4>. QED  BY <3>1, <4>1, <4>2, <4>3
    <3>2. CASE ~resetItems
      <4>1. Browser!RequestsForgotten(s) = [s EXCEPT !.pages = {}]
        BY DEF Browser!RequestsForgotten
      <4>2. LibraryGood([s EXCEPT !.pages = {}])
        BY PagesForgottenGood
      <4>. QED  BY <2>1, <3>2, <4>1, <4>2 DEF Browser!Library
    <3>. QED  BY <3>1, <3>2
  <2> DEFINE r == Browser!RequestsForgotten(reset)
  <2>5. t = [r EXCEPT !.pages = {[folder |-> r.folder, page |-> r.start]}, !.pageLoading = TRUE, !.loading = TRUE]
    <3>1. DOMAIN r = DOMAIN r /\ r \in Browser!Library
      BY <2>4 DEF LibraryGood
    <3>. HIDE DEF reset
    <3>. QED  BY <2>2, <2>4, <3>1 DEF Browser!Library
  <2>. HIDE DEF reset, t
  <2>. QED  BY <2>1, <2>4, <2>5, AskedGood DEF t
<1>. QED  BY <1>1, <1>2

-----------------------------------------------------------------------------
(* Folders *)

LEMMA AboveGood ==
    ASSUME NEW s, LibraryGood(s), NEW above \in Seq(Folders) PROVE LibraryGood([s EXCEPT !.above = above])
<1> DEFINE t == [s EXCEPT !.above = above]
<1>1. t \in Browser!Library
  BY DEF LibraryGood, Browser!Library
<1>2. Aside(s, t) /\ Marked(s, t)
  BY DEF LibraryGood, Browser!Library, Aside, Marked
<1>. HIDE DEF t
<1>3. LibraryGood(t)
  BY <1>1, <1>2, MarkedGood
<1>. QED  BY <1>3 DEF t

LEMMA SelectedGood ==
    ASSUME NEW s, LibraryGood(s), NEW title \in Browser!Titles \union {None}, NEW toSearch \in BOOLEAN
    PROVE  LibraryGood([s EXCEPT !.toSearch = toSearch, !.selected = title])
<1> DEFINE t == [s EXCEPT !.toSearch = toSearch, !.selected = title]
<1>1. t \in Browser!Library
  BY DEF LibraryGood, Browser!Library
<1>2. Aside(s, t) /\ Marked(s, t)
  BY DEF LibraryGood, Browser!Library, Aside, Marked
<1>. HIDE DEF t
<1>3. LibraryGood(t)
  BY <1>1, <1>2, MarkedGood
<1>. QED  BY <1>3 DEF t

LEMMA OpenLibraryGood == LibraryGood(lib) /\ Browser!OpenLibrary => LibraryGood(lib')
<1>. SUFFICES ASSUME LibraryGood(lib), Browser!OpenLibrary PROVE LibraryGood(lib')
  OBVIOUS
<1> DEFINE a == [lib EXCEPT !.above = <<>>]
           r == Browser!resetMediaDirectory(a, Root)
           opened == [r EXCEPT !.selected = None, !.rows = <<>>]
           no == FALSE
<1>1. LibraryGood(a)
  <2>1. <<>> \in Seq(Folders)
    OBVIOUS
  <2>. QED  BY <2>1, AboveGood
<1>2. Root \in Folders /\ Root # None
  BY BrowserAssumption DEF Browser!LibraryAssumption
<1>3. LibraryGood(r) /\ r.folder = Root
  BY <1>1, <1>2, ResetGood
<1>4. r.start = 0 /\ r.more = TRUE /\ r.pages = {}
  BY DEF Browser!resetMediaDirectory, Browser!RequestsForgotten, LibraryGood, Browser!Library
<1>5. lib' = Browser!loadMediaDirectory(Browser!setCurrentView(Browser!clearSeriesDetails(opened), "library"), no)
  BY DEF Browser!OpenLibrary
<1>. HIDE DEF r
<1>6. LibraryGood(opened)
  <2>1. LibraryGood([r EXCEPT !.start = 0, !.more = TRUE, !.rows = <<>>, !.selected = None, !.pages = {}])
    BY <1>2, <1>3, EmptiedGood
  <2>2. opened = [r EXCEPT !.start = 0, !.more = TRUE, !.rows = <<>>, !.selected = None, !.pages = {}]
    BY <1>3, <1>4 DEF LibraryGood, Browser!Library
  <2>. QED  BY <2>1, <2>2
<1>7. no \in BOOLEAN /\ "library" \in Views
  BY DEF Views
<1>. HIDE DEF opened, no
<1>. QED  BY <1>5, <1>6, <1>7, ClearGood, PagesGood, LoadGood

LEMMA OpenFolderGood == ASSUME LibraryGood(lib), NEW row, Browser!OpenFolder(row) PROVE LibraryGood(lib')
<1> DEFINE above == Append(lib.above, lib.folder)
           yes == TRUE
<1>1. /\ row \in Folders /\ row \in Browser!ShownRows(lib) /\ yes \in BOOLEAN
      /\ lib' = Browser!loadMediaDirectory(Browser!resetMediaDirectory([lib EXCEPT !.above = above], row), yes)
  BY DEF Browser!OpenFolder, Browser!isNavigableMediaFolder, LibraryGood, Browser!Library
<1>2. lib.folder \in Folders
  <2>1. lib.rows # <<>>
    BY <1>1 DEF Browser!ShownRows
  <2>. QED  BY <2>1, LibFields DEF LibraryGood, RowsFit
<1>3. above \in Seq(Folders)
  BY <1>2, LibFields DEF LibraryGood
<1>. HIDE DEF above, yes
<1>. QED  BY <1>1, <1>3, AboveGood, ResetGood, LoadGood

LEMMA FolderBackGood == LibraryGood(lib) /\ Browser!MediaLibraryBack => LibraryGood(lib')
<1>. SUFFICES ASSUME LibraryGood(lib), Browser!MediaLibraryBack PROVE LibraryGood(lib')
  OBVIOUS
<1>1. CASE lib.above = <<>>
  BY <1>1, PagesGood DEF Browser!MediaLibraryBack, Browser!backToHome, Views
<1>2. CASE lib.above # <<>>
  <2> DEFINE above == SubSeq(lib.above, 1, Len(lib.above) - 1)
             last == lib.above[Len(lib.above)]
             yes == TRUE
  <2>1. lib' = Browser!loadMediaDirectory(Browser!resetMediaDirectory([lib EXCEPT !.above = above], last), yes) /\ yes \in BOOLEAN
    BY <1>2 DEF Browser!MediaLibraryBack, LibraryGood, Browser!Library
  <2>2. lib.above \in Seq(Folders) /\ Len(lib.above) \in Nat /\ Len(lib.above) > 0
    BY <1>2, LibFields, EmptySeq DEF LibraryGood
  <2>3. last \in Folders /\ above \in Seq(Folders)
    BY <2>2, SubSeqProperties
  <2>. HIDE DEF above, last, yes
  <2>. QED  BY <2>1, <2>3, AboveGood, ResetGood, LoadGood
<1>. QED  BY <1>1, <1>2

\* The answer to the one request there is: nothing, or the next page of the folder.
PageTaken ==
    Len(lib'.rows) > Len(lib.rows) =>
        lib'.rows = Append(lib.rows, [folder |-> lib.folder, page |-> Cardinality(Places(lib.rows, lib.folder))])

LEMMA PageGood ==
    ASSUME LibraryGood(lib), NEW p, Browser!PageAnswered(p) PROVE LibraryGood(lib') /\ PageTaken
<1> DEFINE rest == [lib EXCEPT !.pages = lib.pages \ {p}]
           ended == [rest EXCEPT !.pageLoading = FALSE, !.loading = FALSE]
           row == [folder |-> p.folder, page |-> p.page]
           known == \E i \in DOMAIN lib.rows : lib.rows[i] = row
           rows == IF known THEN lib.rows ELSE Append(lib.rows, row)
           c == Cardinality(Places(lib.rows, lib.folder))
<1>1. /\ lib \in Browser!Library /\ p \in Browser!Page /\ p = [folder |-> lib.folder, page |-> lib.start] /\ lib.pages \ {p} = {}
  BY DEF Browser!PageAnswered, LibraryGood, Browser!Library, RowsFit
<1>2. /\ lib.folder \in Folders /\ lib.start \in Nat /\ row = p /\ row \in Browser!Page /\ p.folder = lib.folder
      /\ p.page = lib.start
  BY <1>1 DEF Browser!Page
<1>3. lib.folder # None /\ lib.start <= c /\ Gapless(lib.rows) /\ lib.rows \in Seq(Browser!Page)
  BY <1>1, <1>2, BrowserAssumption, LibFields DEF LibraryGood, RowsFit, Browser!LibraryAssumption
<1>4. LibraryGood(rest) /\ rest = [lib EXCEPT !.pages = {}]
  BY <1>1, PagesForgottenGood
<1>. HIDE DEF rest
<1>5. LibraryGood(ended)
  <2>1. ended \in Browser!Library
    <3>1. rest \in Browser!Library
      BY <1>4 DEF LibraryGood
    <3>2. [rest EXCEPT !.pageLoading = FALSE, !.loading = FALSE] \in Browser!Library
      BY <3>1 DEF Browser!Library
    <3>. QED  BY <3>2
  <2>2. Aside(rest, ended) /\ Marked(rest, ended)
    BY <1>4 DEF LibraryGood, Browser!Library, Aside, Marked
  <2>. HIDE DEF ended
  <2>. QED  BY <1>4, <2>1, <2>2, MarkedGood
<1>6. ended.rows = lib.rows /\ ended.start = lib.start /\ ended.folder = lib.folder /\ ended.pages = {}
  BY <1>1, <1>4 DEF Browser!Library
<1>7. \/ lib' = ended
      \/ \E full \in BOOLEAN :
            lib' = Browser!setCurrentView([ended EXCEPT !.start = @ + 1, !.more = full /\ ~known, !.rows = rows], "library")
  <2>1. ended.rows = lib.rows
    BY <1>6
  <2>2. \A full \in BOOLEAN :
           [ended EXCEPT !.start = @ + 1, !.more = full /\ ~known, !.rows = IF known THEN @ ELSE Append(@, row)]
             = [ended EXCEPT !.start = @ + 1, !.more = full /\ ~known, !.rows = rows]
    BY <1>5, <2>1 DEF LibraryGood, Browser!Library
  <2>. QED  BY <1>2, <2>2 DEF Browser!PageAnswered, rest
<1>8. CASE lib' = ended
  BY <1>5, <1>6, <1>8 DEF PageTaken
<1>9. rows \in Seq(Browser!Page) /\ Gapless(rows) /\ lib.start + 1 <= Cardinality(Places(rows, lib.folder))
      /\ (Len(rows) > Len(lib.rows) => rows = Append(lib.rows, [folder |-> lib.folder, page |-> c]))
  <2>1. c \in Nat
    BY <1>2, <1>3, FS_CardinalityType DEF Gapless
  <2>2. CASE known
    <3>1. PICK i \in DOMAIN lib.rows : lib.rows[i] = p
      BY <1>2, <2>2
    <3>2. lib.start \in Numbers(lib.rows, lib.folder)
      BY <1>2, <3>1 DEF Numbers, Places
    <3>3. lib.start + 1 <= c
      <4>. HIDE DEF c
      <4>1. Numbers(lib.rows, lib.folder) = 0..(c - 1)
        BY <1>2, <1>3 DEF Gapless, c
      <4>. QED  BY <1>2, <2>1, <3>2, <4>1
    <3>. QED  BY <1>3, <2>2, <3>3
  <2>3. CASE ~known
    <3>1. \A i \in DOMAIN lib.rows : lib.rows[i] # [folder |-> lib.folder, page |-> lib.start]
      BY <1>1, <1>2, <2>3
    <3>2. lib.start = c
      BY <1>2, <1>3, <3>1, NextIsNext
    <3>3. row = [folder |-> lib.folder, page |-> c] /\ rows = Append(lib.rows, row)
      BY <1>1, <1>2, <2>3, <3>2
    <3>4. Gapless(rows) /\ Cardinality(Places(rows, lib.folder)) = c + 1
      BY <1>2, <1>3, <3>3, AppendGapless
    <3>5. rows \in Seq(Browser!Page)
      BY <1>2, <1>3, <3>3
    <3>. HIDE DEF row, rows, c
    <3>. QED  BY <2>1, <3>2, <3>3, <3>4, <3>5
  <2>. QED  BY <2>2, <2>3
<1>10. ASSUME NEW full \in BOOLEAN,
              lib' = Browser!setCurrentView([ended EXCEPT !.start = @ + 1, !.more = full /\ ~known, !.rows = rows], "library")
       PROVE  LibraryGood(lib') /\ PageTaken
  <2> DEFINE more == full /\ ~known
             e == [ended EXCEPT !.start = ended.start + 1, !.more = more, !.rows = rows]
  <2>1. more \in BOOLEAN
    OBVIOUS
  <2>2. lib' = Browser!setCurrentView(e, "library")
    BY <1>5, <1>10 DEF LibraryGood, Browser!Library
  <2>. HIDE DEF more, rows, c, ended
  <2>3. e \in Browser!Library
    <3>1. rows \in Seq([folder: Folders, page: Nat]) /\ ended \in Browser!Library /\ ended.start + 1 \in Nat
      BY <1>2, <1>5, <1>6, <1>9 DEF LibraryGood, Browser!Page
    <3> DEFINE later == ended.start + 1
    <3>. HIDE DEF later
    <3>2. [ended EXCEPT !.start = later, !.more = more, !.rows = rows] \in Browser!Library
      BY <3>1, <2>1 DEF later, Browser!Library
    <3>. QED  BY <3>2 DEF later
  <2>4. /\ e.rows = rows /\ e.pages = {} /\ e.folder = lib.folder /\ e.start = lib.start + 1
        /\ e.episodesOf = ended.episodesOf /\ e.season = ended.season /\ e.seasonsOf = ended.seasonsOf
        /\ e.series = ended.series
        /\ e.results = ended.results /\ e.next = ended.next /\ e.term = ended.term
        /\ e.searches = ended.searches
        /\ e.searchLoading = ended.searchLoading /\ e.details = ended.details /\ e.switching = ended.switching
    BY <1>5, <1>6 DEF LibraryGood, Browser!Library
  <2>. HIDE DEF e
  <2>5. RowsFit(e)
    BY <1>3, <1>9, <2>4 DEF RowsFit
  <2>6. SwitchFits(e) /\ SeasonsFit(e) /\ SearchFits(e)
    BY <1>5, <2>4, SeasonsSame, SearchSame DEF LibraryGood, SwitchFits
  <2>7. LibraryGood(e)
    BY <2>3, <2>5, <2>6 DEF LibraryGood
  <2>8. LibraryGood(lib') /\ lib'.rows = rows
    <3>1. LibraryGood(lib')
      BY <2>2, <2>7, PagesGood DEF Views
    <3>2. lib'.rows = e.rows
      BY <2>2, <2>3 DEF Browser!setCurrentView, Browser!Library
    <3>. QED  BY <3>1, <3>2, <2>4
  <2>. QED  BY <1>9, <2>8 DEF PageTaken, c
<1>. QED  BY <1>7, <1>8, <1>10

-----------------------------------------------------------------------------
(* Titles *)

\* The latest request for details forgets the others but those of the rail.
LEMMA RequestedGood ==
    ASSUME NEW s, LibraryGood(s), NEW title \in Browser!Titles, NEW by \in {"details", "episode"},
           by = "episode" \/ ~s.switching
    PROVE  LibraryGood(Browser!Requested(s, title, by))
<1> DEFINE d == [title |-> title, by |-> by]
           details == Browser!DetailsOutdated(s) \union {d}
           t == Browser!Requested(s, title, by)
<1>1. d \in Browser!Detail /\ d.by = by /\ d \in details
  BY DEF Browser!Detail
<1>2. t = [s EXCEPT !.details = details] /\ s \in Browser!Library
  BY DEF Browser!Requested, LibraryGood
<1>. HIDE DEF d
<1>3. details \in SUBSET Browser!Detail
  BY <1>1, <1>2 DEF Browser!DetailsOutdated, Browser!Library
<1>. HIDE DEF details, t
<1>4. t \in Browser!Library
  BY <1>2, <1>3 DEF Browser!Library
<1>5. t.details = details /\ t.switching = s.switching
  BY <1>2 DEF Browser!Library
<1>6. SwitchFits(t)
  BY <1>1, <1>5 DEF SwitchFits
<1>. QED  BY <1>2, <1>4, <1>6, AsideGood DEF t, Browser!Library

LEMMA OpenDetailsGood ==
    ASSUME NEW s, LibraryGood(s), NEW title \in Browser!Titles, NEW toSearch \in BOOLEAN
    PROVE  LibraryGood(Browser!openMediaItemDetails(s, title, toSearch))
<1> DEFINE a == [s EXCEPT !.toSearch = toSearch, !.selected = title]
           c == Browser!clearSeriesDetails(a)
           shown == Browser!setCurrentView(c, "details")
<1>1. LibraryGood(a)
  BY SelectedGood
<1>. HIDE DEF a
<1>2. LibraryGood(c) /\ ~c.switching
  BY <1>1, ClearGood
<1>. HIDE DEF c
<1>3. LibraryGood(shown) /\ ~shown.switching
  BY <1>2, PagesGood DEF Views
<1>. HIDE DEF shown
<1> DEFINE t == [shown EXCEPT !.loading = TRUE]
<1>4. LibraryGood(t) /\ ~t.switching
  <2>1. t \in Browser!Library
    BY <1>3 DEF LibraryGood, Browser!Library
  <2>2. Aside(shown, t) /\ Marked(shown, t)
    BY <1>3 DEF LibraryGood, Browser!Library, Aside, Marked
  <2>. HIDE DEF t
  <2>. QED  BY <1>3, <2>1, <2>2, MarkedGood
<1>5. Browser!openMediaItemDetails(s, title, toSearch) = Browser!Requested(t, title, "details")
  BY DEF Browser!openMediaItemDetails, shown, c, a
<1>. HIDE DEF t
<1>. QED  BY <1>4, <1>5, RequestedGood

LEMMA OpenItemGood == ASSUME LibraryGood(lib), NEW row \in Folders \union Browser!Titles, Browser!OpenItem(row) PROVE LibraryGood(lib')
<1> DEFINE no == FALSE
<1>1. row \in Browser!Titles /\ lib' = Browser!openMediaItemDetails(lib, row, no) /\ no \in BOOLEAN
  BY DEF Browser!OpenItem, Browser!isNavigableMediaFolder
<1>. HIDE DEF no
<1>. QED  BY <1>1, OpenDetailsGood

LEMMA ContinueGood == ASSUME LibraryGood(lib), NEW title, Browser!OpenContinueItem(title) PROVE LibraryGood(lib')
<1> DEFINE a == [lib EXCEPT !.toSearch = FALSE, !.selected = title]
           c == Browser!clearSeriesDetails(a)
           shown == Browser!setCurrentView(c, "details")
           d == [title |-> title, by |-> "continue"]
           details == shown.details \union {d}
           t == [shown EXCEPT !.loading = TRUE, !.details = details]
<1>1. title \in Browser!Titles
  BY BrowserAssumption DEF Browser!OpenContinueItem, Browser!LibraryAssumption
<1>2. LibraryGood(a)
  <2> DEFINE no == FALSE
  <2>1. no \in BOOLEAN
    OBVIOUS
  <2>2. a = [lib EXCEPT !.toSearch = no, !.selected = title]
    OBVIOUS
  <2>. HIDE DEF no
  <2>. QED  BY <1>1, <2>1, <2>2, SelectedGood
<1>3. lib' = [shown EXCEPT !.loading = TRUE, !.details = @ \union {d}]
  BY DEF Browser!OpenContinueItem
<1>. HIDE DEF a
<1>4. LibraryGood(c) /\ ~c.switching
  BY <1>2, ClearGood
<1>. HIDE DEF c
<1>5. LibraryGood(shown) /\ ~shown.switching
  BY <1>4, PagesGood DEF Views
<1>. HIDE DEF shown
<1>6. lib' = t
  BY <1>3, <1>5 DEF LibraryGood, Browser!Library
<1>7. details \in SUBSET Browser!Detail
  BY <1>1, <1>5 DEF LibraryGood, Browser!Library, Browser!Detail
<1>. HIDE DEF details
<1>8. t \in Browser!Library
  BY <1>5, <1>7 DEF LibraryGood, Browser!Library
<1>9. Aside(shown, t) /\ ~t.switching
  BY <1>5 DEF LibraryGood, Browser!Library, Aside
<1>. HIDE DEF t
<1>10. SwitchFits(t)
  BY <1>9 DEF SwitchFits
<1>. QED  BY <1>5, <1>6, <1>8, <1>9, <1>10, AsideGood DEF Aside

LEMMA DetailsBackGood == LibraryGood(lib) /\ Browser!MediaDetailsBack => LibraryGood(lib')
<1>. SUFFICES ASSUME LibraryGood(lib), Browser!MediaDetailsBack PROVE LibraryGood(lib')
  OBVIOUS
<1> DEFINE no == FALSE
           a == [lib EXCEPT !.toSearch = no, !.selected = None]
           b == [lib EXCEPT !.selected = None]
<1>1. \/ lib' = Browser!setCurrentView(Browser!clearSeriesDetails(a), "search")
      \/ lib' = Browser!setCurrentView(lib, "home")
      \/ lib' = Browser!setCurrentView(Browser!clearSeriesDetails(b), "library")
  BY DEF Browser!MediaDetailsBack, Browser!backToHome
<1>2. no \in BOOLEAN /\ lib.toSearch \in BOOLEAN /\ b = [lib EXCEPT !.toSearch = lib.toSearch, !.selected = None]
  BY DEF LibraryGood, Browser!Library
<1>. HIDE DEF no, b
<1>3. LibraryGood(a) /\ LibraryGood(b)
  BY <1>2, SelectedGood
<1>. HIDE DEF a
<1>. QED  BY <1>1, <1>3, ClearGood, PagesGood DEF Views

\* The seasons are asked for, and those of another series are no longer shown.
LEMMA SeasonsAskedGood ==
    ASSUME NEW s, LibraryGood(s) PROVE LibraryGood(Browser!loadSeriesSeasons(s))
<1>1. CASE ~Browser!hasSeriesEpisodes(s.selected)
  BY <1>1, ClearGood DEF Browser!loadSeriesSeasons
<1>2. CASE Browser!hasSeriesEpisodes(s.selected)
  <2> DEFINE c == [op |-> "seasons", of |-> Browser!ShowOf(s.selected), near |-> Browser!Near(s.selected)]
             t == [s EXCEPT !.series = {c}, !.season = None, !.seasonsOf = None, !.episodesOf = None]
  <2>1. Browser!loadSeriesSeasons(s) = t
    BY <1>2 DEF Browser!loadSeriesSeasons
  <2>2. Browser!Near(s.selected) \in Seasons /\ Browser!ShowOf(s.selected) \in Shows
    BY <1>2, NearIs DEF Browser!hasSeriesEpisodes
  <2>3. c \in Browser!SeriesCall /\ c.op = "seasons" /\ c.of \in Shows
    BY <2>2 DEF Browser!SeriesCall
  <2>. HIDE DEF c
  <2>4. t \in Browser!Library
    BY <2>3 DEF LibraryGood, Browser!Library
  <2>5. /\ t.rows = s.rows /\ t.pages = s.pages /\ t.folder = s.folder /\ t.start = s.start
        /\ t.episodesOf = None /\ t.season = None /\ t.seasonsOf = None /\ t.series = {c}
        /\ t.results = s.results /\ t.next = s.next /\ t.term = s.term /\ t.searches = s.searches
        /\ t.searchLoading = s.searchLoading /\ t.details = s.details /\ t.switching = s.switching
    BY DEF LibraryGood, Browser!Library
  <2>. HIDE DEF t
  <2>6. SeasonsFit(t) /\ SwitchFits(t) /\ RowsFit(t) /\ SearchFits(t)
    BY <2>3, <2>5, RowsSame, SearchSame DEF LibraryGood, SwitchFits, SeasonsFit
  <2>. QED  BY <2>1, <2>4, <2>6 DEF LibraryGood
<1>. QED  BY <1>1, <1>2

\* What an answer leaves behind: the mark is taken away, or its owner is still on its way.
LEMMA AnsweredGood ==
    ASSUME NEW s, LibraryGood(s), NEW details \in SUBSET Browser!Detail, NEW switching \in BOOLEAN, NEW title \in Browser!Titles \union {None},
           switching => \E d \in details : d.by = "episode"
    PROVE  LibraryGood([s EXCEPT !.details = details, !.loading = FALSE, !.switching = switching, !.selected = title])
<1> DEFINE t == [s EXCEPT !.details = details, !.loading = FALSE, !.switching = switching, !.selected = title]
<1>1. t \in Browser!Library
  BY DEF LibraryGood, Browser!Library
<1>2. Aside(s, t) /\ t.details = details /\ t.switching = switching
  BY DEF LibraryGood, Browser!Library, Aside
<1>. HIDE DEF t
<1>3. SwitchFits(t)
  BY <1>2 DEF SwitchFits
<1>4. LibraryGood(t)
  BY <1>1, <1>2, <1>3, AsideGood DEF Aside
<1>. QED  BY <1>4 DEF t

LEMMA DetailGood == ASSUME LibraryGood(lib), NEW d, Browser!DetailAnswered(d) PROVE LibraryGood(lib')
<1> DEFINE details == lib.details \ {d}
           ended == [lib EXCEPT !.details = details, !.loading = FALSE]
           told(title) == [lib EXCEPT !.details = details, !.loading = FALSE, !.switching = lib.switching, !.selected = title]
<1>1. d \in Browser!Detail /\ d.by # "episode" /\ lib \in Browser!Library /\ d.title \in Browser!Titles
  BY DEF Browser!DetailAnswered, LibraryGood, Browser!Library, Browser!Detail
<1>2. /\ details \in SUBSET Browser!Detail /\ lib.switching \in BOOLEAN /\ lib.selected \in Browser!Titles \union {None}
      /\ lib.switching => \E e \in details : e.by = "episode"
  BY <1>1 DEF LibraryGood, SwitchFits, Browser!Library
<1>3. lib' \in {ended, Browser!loadSeriesSeasons([ended EXCEPT !.selected = d.title])}
  BY DEF Browser!DetailAnswered
<1>4. ended = told(lib.selected) /\ [ended EXCEPT !.selected = d.title] = told(d.title)
  BY <1>1 DEF Browser!Library
<1>. HIDE DEF details
<1>5. LibraryGood(told(lib.selected)) /\ LibraryGood(told(d.title))
  BY <1>1, <1>2, AnsweredGood
<1>. HIDE DEF ended, told
<1>. QED  BY <1>3, <1>4, <1>5, SeasonsAskedGood

LEMMA EpisodeGood == ASSUME LibraryGood(lib), NEW d, Browser!EpisodeAnswered(d) PROVE LibraryGood(lib')
<1> DEFINE details == lib.details \ {d}
           no == FALSE
           ended == [lib EXCEPT !.details = details, !.loading = FALSE, !.switching = no]
           told(title) == [lib EXCEPT !.details = details, !.loading = FALSE, !.switching = no, !.selected = title]
<1>1. d \in Browser!Detail /\ lib \in Browser!Library /\ d.title \in Browser!Titles
  BY DEF Browser!EpisodeAnswered, LibraryGood, Browser!Library, Browser!Detail
<1>2. /\ details \in SUBSET Browser!Detail /\ lib.selected \in Browser!Titles \union {None} /\ no \in BOOLEAN
      /\ no => \E e \in details : e.by = "episode"
  BY <1>1 DEF Browser!Library
<1>3. lib' \in {ended, [ended EXCEPT !.selected = d.title]}
  BY DEF Browser!EpisodeAnswered
<1>4. ended = told(lib.selected) /\ [ended EXCEPT !.selected = d.title] = told(d.title)
  BY <1>1 DEF Browser!Library
<1>. HIDE DEF details, no
<1>5. LibraryGood(told(lib.selected)) /\ LibraryGood(told(d.title))
  BY <1>1, <1>2, AnsweredGood
<1>. HIDE DEF ended, told
<1>. QED  BY <1>3, <1>4, <1>5

LEMMA OpenEpisodeGood == LibraryGood(lib) /\ Browser!OpenEpisode => LibraryGood(lib')
<1>. SUFFICES ASSUME LibraryGood(lib), Browser!OpenEpisode PROVE LibraryGood(lib')
  OBVIOUS
<1> DEFINE e == lib.episodesOf
           d == [title |-> e, by |-> "episode"]
           details == Browser!DetailsOutdated(lib) \union {d}
           yes == TRUE
           marked == [lib EXCEPT !.selected = e, !.switching = yes, !.loading = yes]
           t == [lib EXCEPT !.details = details, !.loading = yes, !.switching = yes, !.selected = e]
<1>1. lib \in Browser!Library /\ e \in Browser!Titles /\ yes \in BOOLEAN
  BY DEF Browser!OpenEpisode, LibraryGood, Browser!Library, Browser!Titles
<1>2. d \in Browser!Detail /\ d.by = "episode" /\ d \in details
  BY <1>1 DEF Browser!Detail
<1>3. lib' = Browser!Requested(marked, e, "episode")
  BY DEF Browser!OpenEpisode
<1>4. Browser!DetailsOutdated(marked) = Browser!DetailsOutdated(lib)
  BY <1>1 DEF Browser!DetailsOutdated, Browser!Library
<1>5. lib' = [marked EXCEPT !.details = details]
  BY <1>3, <1>4 DEF Browser!Requested
<1>. HIDE DEF d, e, yes
<1>6. details \in SUBSET Browser!Detail
  BY <1>1, <1>2 DEF Browser!DetailsOutdated, Browser!Library
<1>. HIDE DEF details
<1>7. lib' = t
  BY <1>1, <1>5 DEF Browser!Library
<1>8. t \in Browser!Library
  BY <1>1, <1>6 DEF Browser!Library
<1>9. Aside(lib, t) /\ t.details = details
  BY <1>1 DEF Browser!Library, Aside
<1>. HIDE DEF t
<1>10. SwitchFits(t)
  BY <1>2, <1>9 DEF SwitchFits
<1>. QED  BY <1>7, <1>8, <1>9, <1>10, AsideGood DEF Aside

-----------------------------------------------------------------------------
(* Seasons and episodes *)

LEMMA SelectGood ==
    ASSUME NEW s, LibraryGood(s), NEW show \in Shows, NEW n \in Seasons
    PROVE  LibraryGood(Browser!selectSeason([s EXCEPT !.seasonsOf = show], <<show, n>>))
<1> DEFINE season == <<show, n>>
           c == [op |-> "episodes", of |-> season, near |-> season[2]]
           series == IF Browser!hasSeriesEpisodes(s.selected) THEN {c} ELSE {}
           with == [s EXCEPT !.seasonsOf = show]
           chosen == [with EXCEPT !.series = {}, !.season = season]
           t == [s EXCEPT !.seasonsOf = show, !.series = series, !.season = season, !.episodesOf = None]
<1>1. s \in Browser!Library /\ season \in Browser!Episodes /\ season[1] = show /\ season[2] = n
  BY DEF LibraryGood, Browser!Episodes
<1>2. c \in Browser!SeriesCall /\ c.op = "episodes" /\ c.of = season
  BY <1>1 DEF Browser!SeriesCall
<1>3. Browser!selectSeason(with, season) = Browser!loadSeasonEpisodes(chosen, season)
  BY DEF Browser!selectSeason
<1>. HIDE DEF season
<1>4. chosen = [s EXCEPT !.seasonsOf = show, !.series = {}, !.season = season]
  BY <1>1 DEF Browser!Library
<1>. HIDE DEF chosen
<1>5. chosen.selected = s.selected /\ chosen.series = {}
  BY <1>1, <1>4 DEF Browser!Library
<1>6. Browser!loadSeasonEpisodes(chosen, season)
        = IF ~Browser!hasSeriesEpisodes(s.selected) THEN [chosen EXCEPT !.episodesOf = None]
          ELSE [chosen EXCEPT !.episodesOf = None, !.series = {c}]
  BY <1>5 DEF Browser!loadSeasonEpisodes
<1>. HIDE DEF c
<1>7. /\ [chosen EXCEPT !.episodesOf = None]
           = [s EXCEPT !.seasonsOf = show, !.series = {}, !.season = season, !.episodesOf = None]
      /\ [chosen EXCEPT !.episodesOf = None, !.series = {c}]
           = [s EXCEPT !.seasonsOf = show, !.series = {c}, !.season = season, !.episodesOf = None]
  BY <1>1, <1>4 DEF Browser!Library
<1>8. Browser!selectSeason(with, season) = t
  BY <1>3, <1>6, <1>7
<1>9. series \in SUBSET Browser!SeriesCall /\ \A e \in series : e.op = "episodes" /\ e.of = season
  BY <1>2
<1>. HIDE DEF series
<1>10. t \in Browser!Library
  BY <1>1, <1>9 DEF Browser!Library
<1>11. /\ t.rows = s.rows /\ t.pages = s.pages /\ t.folder = s.folder /\ t.start = s.start
       /\ t.episodesOf = None /\ t.season = season /\ t.seasonsOf = show /\ t.series = series
       /\ t.results = s.results /\ t.next = s.next /\ t.term = s.term /\ t.searches = s.searches
       /\ t.searchLoading = s.searchLoading /\ t.details = s.details /\ t.switching = s.switching
  BY <1>1 DEF Browser!Library
<1>. HIDE DEF t
<1>12. SeasonsFit(t) /\ SwitchFits(t) /\ RowsFit(t) /\ SearchFits(t)
  BY <1>1, <1>9, <1>11, RowsSame, SearchSame DEF LibraryGood, SwitchFits, SeasonsFit
<1>. QED  BY <1>8, <1>10, <1>12 DEF LibraryGood, season

LEMMA SelectSeasonGood == ASSUME LibraryGood(lib), NEW n, Browser!SelectSeason(n) PROVE LibraryGood(lib')
<1>1. lib.seasonsOf \in Shows /\ n \in Seasons /\ lib' = Browser!selectSeason(lib, <<lib.seasonsOf, n>>)
  BY DEF Browser!SelectSeason, LibraryGood, Browser!Library
<1>2. [lib EXCEPT !.seasonsOf = lib.seasonsOf] = lib
  BY DEF LibraryGood, Browser!Library
<1>. QED  BY <1>1, <1>2, SelectGood

\* A request that is answered is forgotten.
LEMMA SeriesAnswered ==
    ASSUME NEW s, LibraryGood(s), NEW c
    PROVE  LibraryGood([s EXCEPT !.series = @ \ {c}])
<1> DEFINE t == [s EXCEPT !.series = @ \ {c}]
<1>1. t \in Browser!Library
  BY DEF LibraryGood, Browser!Library
<1>2. /\ t.rows = s.rows /\ t.pages = s.pages /\ t.folder = s.folder /\ t.start = s.start
      /\ t.episodesOf = s.episodesOf /\ t.season = s.season /\ t.seasonsOf = s.seasonsOf /\ t.series = s.series \ {c}
      /\ t.results = s.results /\ t.next = s.next /\ t.term = s.term /\ t.searches = s.searches
      /\ t.searchLoading = s.searchLoading /\ t.details = s.details /\ t.switching = s.switching
  BY DEF LibraryGood, Browser!Library
<1>. HIDE DEF t
<1>3. SeasonsFit(t) /\ SwitchFits(t) /\ RowsFit(t) /\ SearchFits(t)
  BY <1>2, RowsSame, SearchSame DEF LibraryGood, SwitchFits, SeasonsFit
<1>. QED  BY <1>1, <1>3 DEF LibraryGood, t

LEMMA SeasonsGood == ASSUME LibraryGood(lib), NEW c, Browser!SeasonsAnswered(c) PROVE LibraryGood(lib')
<1> DEFINE rest == [lib EXCEPT !.series = @ \ {c}]
<1>1. c \in Browser!SeriesCall /\ c.of \in Shows /\ c.near \in Seasons
  BY DEF Browser!SeasonsAnswered, LibraryGood, Browser!Library, SeasonsFit, Browser!SeriesCall
<1>2. LibraryGood(rest)
  BY SeriesAnswered
<1>3. lib' \in {rest, Browser!selectSeason([rest EXCEPT !.seasonsOf = c.of], <<c.of, c.near>>)}
  BY DEF Browser!SeasonsAnswered
<1>. HIDE DEF rest
<1>. QED  BY <1>1, <1>2, <1>3, SelectGood

LEMMA EpisodesGood == ASSUME LibraryGood(lib), NEW c, Browser!EpisodesAnswered(c) PROVE LibraryGood(lib')
<1> DEFINE rest == [lib EXCEPT !.series = @ \ {c}]
           t == [rest EXCEPT !.episodesOf = c.of]
<1>1. c.of = lib.season /\ lib.season = rest.season
  BY DEF Browser!EpisodesAnswered, LibraryGood, Browser!Library, SeasonsFit
<1>2. LibraryGood(rest)
  BY SeriesAnswered
<1>3. lib' \in {rest, t}
  BY DEF Browser!EpisodesAnswered
<1>. HIDE DEF rest
<1>4. rest \in Browser!Library /\ c.of \in Browser!Episodes \union {None}
  BY <1>1, <1>2 DEF LibraryGood, Browser!Library
<1>5. t \in Browser!Library
  BY <1>4 DEF Browser!Library
<1>6. /\ t.rows = rest.rows /\ t.pages = rest.pages /\ t.folder = rest.folder /\ t.start = rest.start
      /\ t.episodesOf = rest.season /\ t.season = rest.season /\ t.seasonsOf = rest.seasonsOf /\ t.series = rest.series
      /\ t.results = rest.results /\ t.next = rest.next /\ t.term = rest.term /\ t.searches = rest.searches
      /\ t.searchLoading = rest.searchLoading /\ t.details = rest.details /\ t.switching = rest.switching
  BY <1>1, <1>4 DEF Browser!Library
<1>. HIDE DEF t
<1>7. SeasonsFit(t) /\ SwitchFits(t) /\ RowsFit(t) /\ SearchFits(t)
  BY <1>2, <1>6, RowsSame, SearchSame DEF LibraryGood, SwitchFits, SeasonsFit
<1>. QED  BY <1>2, <1>3, <1>5, <1>7 DEF LibraryGood

-----------------------------------------------------------------------------
(* Search *)

LEMMA FoundTyped ==
    ASSUME NEW s \in Browser!Library, NEW results \in Seq([term: Terms, page: Nat]), NEW next \in Nat, NEW more \in BOOLEAN
    PROVE  [s EXCEPT !.results = results, !.next = next, !.searchMore = more] \in Browser!Library
BY DEF Browser!Library

LEMMA UnaskedTyped ==
    ASSUME NEW s \in Browser!Library, NEW term \in Terms \union {None}
    PROVE  [s EXCEPT !.searches = {}, !.searchLoading = FALSE, !.term = term] \in Browser!Library
BY DEF Browser!Library

\* Nothing of a search is left, or the first page of a new one is to be asked for.
LEMMA SearchEmptyGood ==
    ASSUME NEW s, LibraryGood(s), NEW term \in Terms \union {None}, NEW more \in BOOLEAN
    PROVE  LibraryGood([s EXCEPT !.searches = {}, !.searchLoading = FALSE, !.term = term, !.toSearch = FALSE,
                                 !.results = <<>>, !.next = 0, !.searchMore = more])
<1> DEFINE t == [s EXCEPT !.searches = {}, !.searchLoading = FALSE, !.term = term, !.toSearch = FALSE,
                          !.results = <<>>, !.next = 0, !.searchMore = more]
<1>1. t \in Browser!Library
  <2> DEFINE empty == <<>>
             zero == 0
             u == [s EXCEPT !.searches = {}, !.searchLoading = FALSE, !.term = term, !.toSearch = FALSE]
  <2>1. s \in Browser!Library /\ empty \in Seq([term: Terms, page: Nat]) /\ zero \in Nat
    BY DEF LibraryGood
  <2>. HIDE DEF empty, zero
  <2>2. u \in Browser!Library
    BY <2>1 DEF Browser!Library
  <2>3. t = [u EXCEPT !.results = empty, !.next = zero, !.searchMore = more]
    BY <2>1 DEF Browser!Library, empty, zero
  <2>. HIDE DEF u, t
  <2>4. [u EXCEPT !.results = empty, !.next = zero, !.searchMore = more] \in Browser!Library
    BY <2>1, <2>2, FoundTyped
  <2>. QED  BY <2>3, <2>4
<1>2. /\ t.rows = s.rows /\ t.pages = s.pages /\ t.folder = s.folder /\ t.start = s.start
      /\ t.episodesOf = s.episodesOf /\ t.season = s.season /\ t.seasonsOf = s.seasonsOf /\ t.series = s.series
      /\ t.results = <<>> /\ t.next = 0 /\ t.searches = {}
      /\ t.searchLoading = FALSE /\ t.details = s.details /\ t.switching = s.switching
  BY DEF LibraryGood, Browser!Library
<1>. HIDE DEF t
<1>3. t.results = [i \in 1..t.next |-> [term |-> t.term, page |-> i - 1]]
  BY <1>2
<1>4. SeasonsFit(t) /\ SwitchFits(t) /\ RowsFit(t)
  BY <1>2, RowsSame, SeasonsSame DEF LibraryGood, SwitchFits
<1>5. SearchFits(t)
  BY <1>2, <1>3 DEF SearchFits
<1>. QED  BY <1>1, <1>4, <1>5 DEF LibraryGood, t

LEMMA LoadSearchGood ==
    ASSUME NEW s, LibraryGood(s) PROVE LibraryGood(Browser!loadServerSearchResults(s))
<1>1. CASE s.term = None \/ s.searchLoading \/ ~s.searchMore
  BY <1>1 DEF Browser!loadServerSearchResults
<1>2. CASE ~(s.term = None \/ s.searchLoading \/ ~s.searchMore)
  <2> DEFINE c == [term |-> s.term, page |-> s.next]
             t == [s EXCEPT !.searches = {c}, !.searchLoading = TRUE]
  <2>1. Browser!loadServerSearchResults(s) = t
    BY <1>2 DEF Browser!loadServerSearchResults
  <2>2. c \in Browser!Search /\ s \in Browser!Library
    BY <1>2 DEF LibraryGood, Browser!Library, Browser!Search
  <2>. HIDE DEF c
  <2>3. t \in Browser!Library
    BY <2>2 DEF Browser!Library
  <2>4. /\ t.rows = s.rows /\ t.pages = s.pages /\ t.folder = s.folder /\ t.start = s.start
        /\ t.episodesOf = s.episodesOf /\ t.season = s.season /\ t.seasonsOf = s.seasonsOf /\ t.series = s.series
        /\ t.results = s.results /\ t.next = s.next /\ t.term = s.term /\ t.searches = {c}
        /\ t.searchLoading = TRUE /\ t.details = s.details /\ t.switching = s.switching
    BY <2>2 DEF Browser!Library
  <2>. HIDE DEF t
  <2>5. SeasonsFit(t) /\ SwitchFits(t) /\ RowsFit(t)
    BY <2>4, RowsSame, SeasonsSame DEF LibraryGood, SwitchFits
  <2>6. t.searches = {[term |-> t.term, page |-> t.next]} /\ (t.searchLoading <=> t.searches # {})
    BY <2>4 DEF c
  <2>7. SearchFits(t)
    BY <2>4, <2>6 DEF LibraryGood, SearchFits
  <2>. QED  BY <2>1, <2>3, <2>5, <2>7 DEF LibraryGood
<1>. QED  BY <1>1, <1>2

LEMMA SearchServerGood == ASSUME LibraryGood(lib), NEW term \in Terms, Browser!SearchMediaServer(term) PROVE LibraryGood(lib')
<1> DEFINE yes == TRUE
           asked == [lib EXCEPT !.searches = {}, !.searchLoading = FALSE, !.term = term, !.toSearch = FALSE,
                                !.results = <<>>, !.next = 0, !.searchMore = yes]
<1>1. lib' = Browser!loadServerSearchResults(Browser!setCurrentView(asked, "search")) /\ yes \in BOOLEAN
  BY DEF Browser!SearchMediaServer
<1>. HIDE DEF yes
<1>2. LibraryGood(asked)
  BY <1>1, SearchEmptyGood
<1>. HIDE DEF asked
<1>. QED  BY <1>1, <1>2, PagesGood, LoadSearchGood DEF Views

LEMMA ClearSearchGood == LibraryGood(lib) /\ Browser!ClearServerSearch => LibraryGood(lib')
<1>. SUFFICES ASSUME LibraryGood(lib), Browser!ClearServerSearch PROVE LibraryGood(lib')
  OBVIOUS
<1> DEFINE no == FALSE
           left == [lib EXCEPT !.searches = {}, !.searchLoading = FALSE, !.term = None, !.toSearch = FALSE,
                               !.results = <<>>, !.next = 0, !.searchMore = no]
<1>1. lib' = Browser!setCurrentView(left, "home") /\ no \in BOOLEAN
  <2>1. Browser!clearServerSearchState(lib) = left
    BY DEF Browser!clearServerSearchState, LibraryGood, Browser!Library
  <2>. QED  BY <2>1 DEF Browser!ClearServerSearch
<1>. HIDE DEF no
<1>2. LibraryGood(left)
  BY <1>1, SearchEmptyGood
<1>. HIDE DEF left
<1>. QED  BY <1>1, <1>2, PagesGood DEF Views

LEMMA OpenFoundGood == ASSUME LibraryGood(lib), NEW title, Browser!OpenServerSearchItem(title) PROVE LibraryGood(lib')
<1> DEFINE yes == TRUE
<1>1. title \in Browser!Titles /\ lib' = Browser!openMediaItemDetails(lib, title, yes) /\ yes \in BOOLEAN
  BY DEF Browser!OpenServerSearchItem, Browser!Titles
<1>. HIDE DEF yes
<1>. QED  BY <1>1, OpenDetailsGood

\* The page that arrives is the next one of the term.
LEMMA SearchGood == ASSUME LibraryGood(lib), NEW c, Browser!SearchAnswered(c) PROVE LibraryGood(lib')
<1> DEFINE rest == [lib EXCEPT !.searches = {}]
           ended == [lib EXCEPT !.searches = {}, !.searchLoading = FALSE]
           page == [term |-> lib.term, page |-> lib.next]
           results == Append(lib.results, page)
           next == lib.next + 1
           end(more) == [lib EXCEPT !.searches = {}, !.searchLoading = FALSE, !.searchMore = more]
           told(more) == [lib EXCEPT !.searches = {}, !.searchLoading = FALSE, !.searchMore = more,
                                     !.results = results, !.next = next]
           no == FALSE
<1>1. lib \in Browser!Library /\ c \in Browser!Search /\ c = page /\ lib.searches \ {c} = {} /\ c.term = lib.term /\ c.page = lib.next
      /\ lib.next \in Nat /\ lib.term \in Terms /\ no \in BOOLEAN
  <2>1. lib \in Browser!Library /\ c \in lib.searches /\ no \in BOOLEAN /\ lib.searches \subseteq {page}
    BY DEF Browser!SearchAnswered, LibraryGood, SearchFits
  <2>2. c \in Browser!Search /\ lib.next \in Nat
    BY <2>1 DEF Browser!Library
  <2>3. c = page /\ lib.searches \ {c} = {}
    BY <2>1
  <2>4. c.term = lib.term /\ c.page = lib.next
    BY <2>3
  <2>5. lib.term \in Terms
    BY <2>2, <2>4 DEF Browser!Search
  <2>. QED  BY <2>1, <2>2, <2>3, <2>4, <2>5
<1>2. [lib EXCEPT !.searches = @ \ {c}] = rest
  BY <1>1 DEF Browser!Library
<1>3. [rest EXCEPT !.searchLoading = FALSE] = ended
  BY <1>1 DEF Browser!Library
<1>4. \/ lib' = [ended EXCEPT !.searchMore = no]
      \/ \E full \in BOOLEAN :
            lib' = [ended EXCEPT !.results = Append(@, [term |-> c.term, page |-> c.page]),
                                 !.next = c.page + 1, !.searchMore = full]
  BY <1>1, <1>2, <1>3 DEF Browser!SearchAnswered
<1>5. page = [term |-> c.term, page |-> c.page]
  BY <1>1
<1>. HIDE DEF page, no
<1>6. /\ [ended EXCEPT !.searchMore = no] = end(no)
      /\ \A full \in BOOLEAN : [ended EXCEPT !.results = Append(@, page), !.next = c.page + 1, !.searchMore = full] = told(full)
  BY <1>1 DEF Browser!Library
<1>7. lib' = end(no) \/ \E full \in BOOLEAN : lib' = told(full)
  BY <1>4, <1>5, <1>6
<1>8. /\ results \in Seq([term: Terms, page: Nat])
      /\ results = [i \in 1..(lib.next + 1) |-> [term |-> lib.term, page |-> i - 1]]
  <2>1. lib.results = [i \in 1..lib.next |-> [term |-> lib.term, page |-> i - 1]]
    BY DEF LibraryGood, SearchFits
  <2>2. lib.results \in Seq([term: Terms, page: Nat]) /\ page \in [term: Terms, page: Nat]
    BY <1>1 DEF Browser!Library, page
  <2>3. Len(lib.results) = lib.next
    BY <1>1, <2>1, <2>2
  <2>4. results \in Seq([term: Terms, page: Nat])
    BY <2>2
  <2>5. \A i \in 1..(lib.next + 1) : results[i] = [term |-> lib.term, page |-> i - 1]
    BY <1>1, <2>1, <2>2, <2>3 DEF page
  <2>6. Len(results) = lib.next + 1
    BY <2>2, <2>3
  <2>. QED  BY <2>4, <2>5, <2>6
<1>. HIDE DEF results
<1>9. ASSUME NEW more \in BOOLEAN PROVE LibraryGood(end(more))
  <2> DEFINE t == end(more)
  <2>1. t \in Browser!Library
    BY <1>1 DEF Browser!Library
  <2>2. /\ t.rows = lib.rows /\ t.pages = lib.pages /\ t.folder = lib.folder /\ t.start = lib.start
        /\ t.episodesOf = lib.episodesOf /\ t.season = lib.season /\ t.seasonsOf = lib.seasonsOf /\ t.series = lib.series
        /\ t.results = lib.results /\ t.next = lib.next /\ t.term = lib.term /\ t.searches = {}
        /\ t.searchLoading = FALSE /\ t.details = lib.details /\ t.switching = lib.switching
    BY <1>1 DEF Browser!Library
  <2>. HIDE DEF t
  <2>3. SeasonsFit(t) /\ SwitchFits(t) /\ RowsFit(t)
    BY <2>2, RowsSame, SeasonsSame DEF LibraryGood, SwitchFits
  <2>4. SearchFits(t)
    BY <2>2 DEF SearchFits, LibraryGood
  <2>. QED  BY <2>1, <2>3, <2>4 DEF LibraryGood, t
<1>10. ASSUME NEW more \in BOOLEAN PROVE LibraryGood(told(more))
  <2> DEFINE t == told(more)
             u == [lib EXCEPT !.searches = {}, !.searchLoading = FALSE, !.term = lib.term]
  <2>1. t \in Browser!Library
    <3>1. next \in Nat
      BY <1>1
    <3>. HIDE DEF next
    <3>4. u \in Browser!Library
      BY <1>1, UnaskedTyped
    <3>2. t = [u EXCEPT !.results = results, !.next = next, !.searchMore = more]
      BY <1>1 DEF Browser!Library
    <3>. HIDE DEF t, u
    <3>3. [u EXCEPT !.results = results, !.next = next, !.searchMore = more] \in Browser!Library
      BY <1>8, <3>1, <3>4, FoundTyped
    <3>. QED  BY <3>2, <3>3
  <2>2. /\ t.rows = lib.rows /\ t.pages = lib.pages /\ t.folder = lib.folder /\ t.start = lib.start
        /\ t.episodesOf = lib.episodesOf /\ t.season = lib.season /\ t.seasonsOf = lib.seasonsOf /\ t.series = lib.series
        /\ t.results = results /\ t.next = lib.next + 1 /\ t.term = lib.term /\ t.searches = {}
        /\ t.searchLoading = FALSE /\ t.details = lib.details /\ t.switching = lib.switching
    BY <1>1 DEF Browser!Library
  <2>. HIDE DEF t
  <2>3. SeasonsFit(t) /\ SwitchFits(t) /\ RowsFit(t)
    BY <2>2, RowsSame, SeasonsSame DEF LibraryGood, SwitchFits
  <2>4. SearchFits(t)
    BY <1>8, <2>2 DEF SearchFits
  <2>. QED  BY <2>1, <2>3, <2>4 DEF LibraryGood, t
<1>. QED  BY <1>1, <1>7, <1>9, <1>10

LEMMA OpenSettingsGood == LibraryGood(lib) /\ Browser!OpenSettings => LibraryGood(lib')
BY ClearGood, PagesGood DEF Browser!OpenSettings, Views

LEMMA LeaveSettingsGood == LibraryGood(lib) /\ Browser!LeaveSettings => LibraryGood(lib')
BY PagesGood DEF Browser!LeaveSettings, Browser!backToHome, Views

LEMMA LoadMoreGood == LibraryGood(lib) /\ Browser!LoadMoreItems => LibraryGood(lib')
<1> DEFINE no == FALSE
<1>1. Browser!LoadMoreItems => lib' = Browser!loadMediaDirectory(lib, no) /\ no \in BOOLEAN
  BY DEF Browser!LoadMoreItems
<1>. HIDE DEF no
<1>. QED  BY <1>1, LoadGood

LEMMA LoadMoreSearchGood == LibraryGood(lib) /\ Browser!LoadMoreServerSearchResults => LibraryGood(lib')
BY LoadSearchGood DEF Browser!LoadMoreServerSearchResults

-----------------------------------------------------------------------------
(* Only the answer to a request for a page adds rows *)

Rowed(s, rows) == "rows" \in DOMAIN s /\ s.rows = rows

LEMMA HelpersKeepRows ==
    ASSUME NEW s, NEW rows, Rowed(s, rows)
    PROVE  /\ \A view : Rowed(Browser!setCurrentView(s, view), rows)
           /\ Rowed(Browser!clearSeriesDetails(s), rows)
           /\ \A folder : Rowed(Browser!resetMediaDirectory(s, folder), rows)
           /\ \A title, by : Rowed(Browser!Requested(s, title, by), rows)
           /\ \A season : Rowed(Browser!loadSeasonEpisodes(s, season), rows) /\ Rowed(Browser!selectSeason(s, season), rows)
           /\ Rowed(Browser!loadServerSearchResults(s), rows)
           /\ Rowed(Browser!clearServerSearchState(s), rows)
<1>1. \A view : Rowed(Browser!setCurrentView(s, view), rows)
  BY DEF Rowed, Browser!setCurrentView
<1>2. Rowed(Browser!clearSeriesDetails(s), rows)
  BY DEF Rowed, Browser!clearSeriesDetails
<1>3. \A folder : Rowed(Browser!resetMediaDirectory(s, folder), rows)
  BY DEF Rowed, Browser!resetMediaDirectory, Browser!RequestsForgotten
<1>4. \A title, by : Rowed(Browser!Requested(s, title, by), rows)
  BY DEF Rowed, Browser!Requested
<1>5. \A season : Rowed(Browser!loadSeasonEpisodes(s, season), rows)
  BY DEF Rowed, Browser!loadSeasonEpisodes
<1>6. \A season : Rowed(Browser!selectSeason(s, season), rows)
  BY DEF Rowed, Browser!selectSeason, Browser!loadSeasonEpisodes
<1>7. Rowed(Browser!loadServerSearchResults(s), rows)
  BY DEF Rowed, Browser!loadServerSearchResults
<1>8. Rowed(Browser!clearServerSearchState(s), rows)
  BY DEF Rowed, Browser!clearServerSearchState
<1>. QED  BY <1>1, <1>2, <1>3, <1>4, <1>5, <1>6, <1>7, <1>8

LEMMA SeasonsKeepRows == ASSUME NEW s, NEW rows, Rowed(s, rows) PROVE Rowed(Browser!loadSeriesSeasons(s), rows)
BY HelpersKeepRows DEF Rowed, Browser!loadSeriesSeasons

LEMMA DetailsKeepRows ==
    ASSUME NEW s, NEW rows, Rowed(s, rows), NEW title, NEW toSearch
    PROVE  Rowed(Browser!openMediaItemDetails(s, title, toSearch), rows)
<1> DEFINE a == [s EXCEPT !.toSearch = toSearch, !.selected = title]
           b == Browser!setCurrentView(Browser!clearSeriesDetails(a), "details")
           c == [b EXCEPT !.loading = TRUE]
<1>1. Rowed(a, rows)
  BY DEF Rowed
<1>. HIDE DEF a
<1>2. Rowed(b, rows)
  BY <1>1, HelpersKeepRows
<1>. HIDE DEF b
<1>3. Rowed(c, rows)
  BY <1>2 DEF Rowed
<1>4. Browser!openMediaItemDetails(s, title, toSearch) = Browser!Requested(c, title, "details")
  BY DEF Browser!openMediaItemDetails, a, b, c
<1>. HIDE DEF c
<1>. QED  BY <1>3, <1>4, HelpersKeepRows

LEMMA LoadKeepsRows ==
    ASSUME NEW s, NEW rows, Rowed(s, rows), NEW resetItems
    PROVE  \/ Rowed(Browser!loadMediaDirectory(s, resetItems), rows)
           \/ Rowed(Browser!loadMediaDirectory(s, resetItems), <<>>)
<1>1. CASE s.folder = None \/ s.loading \/ (~resetItems /\ ~s.more)
  BY <1>1 DEF Browser!loadMediaDirectory
<1>2. CASE ~(s.folder = None \/ s.loading \/ (~resetItems /\ ~s.more))
  <2> DEFINE e == [s EXCEPT !.start = 0, !.more = TRUE, !.rows = <<>>, !.selected = None]
             reset == IF resetItems THEN Browser!clearSeriesDetails(e) ELSE s
             t == Browser!loadMediaDirectory(s, resetItems)
  <2>1. t = [Browser!RequestsForgotten(reset) EXCEPT
                    !.pages = @ \union {[folder |-> s.folder, page |-> reset.start]},
                    !.pageLoading = TRUE, !.loading = TRUE]
    BY <1>2 DEF Browser!loadMediaDirectory
  <2>2. Rowed(e, <<>>)
    BY DEF Rowed
  <2>. HIDE DEF e
  <2>3. Rowed(reset, rows) \/ Rowed(reset, <<>>)
    BY <2>2, HelpersKeepRows
  <2>. HIDE DEF reset, t
  <2>4. Rowed(t, reset.rows)
    BY <2>1, <2>3 DEF Rowed, Browser!RequestsForgotten
  <2>. QED  BY <2>3, <2>4 DEF Rowed, t
<1>. QED  BY <1>1, <1>2

RowsKept == lib'.rows \in {lib.rows, <<>>}

LEMMA FoldersKeepRows ==
    LibraryGood(lib) /\ (Browser!OpenLibrary \/ Browser!LoadMoreItems \/ Browser!MediaLibraryBack \/ \E row : Browser!OpenFolder(row)) => RowsKept
<1>. SUFFICES ASSUME LibraryGood(lib), Browser!OpenLibrary \/ Browser!LoadMoreItems \/ Browser!MediaLibraryBack \/ \E row : Browser!OpenFolder(row)
     PROVE  RowsKept
  OBVIOUS
<1>1. Rowed(lib, lib.rows) /\ lib \in Browser!Library
  BY DEF Rowed, LibraryGood, Browser!Library
<1>2. CASE Browser!OpenLibrary
  <2> DEFINE a == [lib EXCEPT !.above = <<>>]
             r == Browser!resetMediaDirectory(a, Root)
             opened == [r EXCEPT !.selected = None, !.rows = <<>>]
  <2>1. lib' = Browser!loadMediaDirectory(Browser!setCurrentView(Browser!clearSeriesDetails(opened), "library"), FALSE)
    BY <1>2 DEF Browser!OpenLibrary
  <2>2. Rowed(a, lib.rows)
    BY <1>1 DEF Rowed
  <2>. HIDE DEF a
  <2>3. Rowed(r, lib.rows)
    BY <2>2, HelpersKeepRows
  <2>. HIDE DEF r
  <2>4. Rowed(opened, <<>>)
    BY <2>3 DEF Rowed
  <2>. HIDE DEF opened
  <2>5. Rowed(lib', <<>>)
    BY <2>1, <2>4, HelpersKeepRows, LoadKeepsRows
  <2>. QED  BY <2>5 DEF Rowed, RowsKept
<1>3. CASE Browser!LoadMoreItems
  BY <1>1, <1>3, LoadKeepsRows DEF Browser!LoadMoreItems, Rowed, RowsKept
<1>4. ASSUME NEW above, NEW folder, lib' = Browser!loadMediaDirectory(Browser!resetMediaDirectory([lib EXCEPT !.above = above], folder), TRUE)
      PROVE  RowsKept
  <2> DEFINE a == [lib EXCEPT !.above = above]
  <2>1. Rowed(a, lib.rows)
    BY <1>1 DEF Rowed
  <2>. HIDE DEF a
  <2>2. Rowed(Browser!resetMediaDirectory(a, folder), lib.rows)
    BY <2>1, HelpersKeepRows
  <2>3. Rowed(lib', lib.rows) \/ Rowed(lib', <<>>)
    BY <1>4, <2>2, LoadKeepsRows DEF a
  <2>. QED  BY <2>3 DEF Rowed, RowsKept
<1>5. CASE Browser!MediaLibraryBack
  <2>1. CASE lib.above = <<>>
    BY <1>1, <1>5, <2>1, HelpersKeepRows DEF Browser!MediaLibraryBack, Browser!backToHome, Rowed, RowsKept
  <2>2. CASE lib.above # <<>>
    <3> DEFINE above == SubSeq(lib.above, 1, Len(lib.above) - 1)
    <3>1. lib' = Browser!loadMediaDirectory(Browser!resetMediaDirectory([lib EXCEPT !.above = above], lib.above[Len(lib.above)]), TRUE)
      BY <1>1, <1>5, <2>2 DEF Browser!MediaLibraryBack, Browser!Library
    <3>. QED  BY <1>4, <3>1
  <2>. QED  BY <2>1, <2>2
<1>6. ASSUME NEW row, Browser!OpenFolder(row) PROVE RowsKept
  <2> DEFINE above == Append(lib.above, lib.folder)
  <2>1. lib' = Browser!loadMediaDirectory(Browser!resetMediaDirectory([lib EXCEPT !.above = above], row), TRUE)
    BY <1>1, <1>6 DEF Browser!OpenFolder, Browser!Library
  <2>. QED  BY <1>4, <2>1
<1>. QED  BY <1>2, <1>3, <1>5, <1>6

LEMMA TitlesKeepRows ==
    ASSUME LibraryGood(lib),
           \/ Browser!MediaDetailsBack \/ Browser!OpenEpisode
           \/ \E row : Browser!OpenItem(row) \/ Browser!OpenContinueItem(row) \/ Browser!OpenServerSearchItem(row)
           \/ \E d : Browser!DetailAnswered(d) \/ Browser!EpisodeAnswered(d)
    PROVE  RowsKept
<1>1. Rowed(lib, lib.rows) /\ lib \in Browser!Library
  BY DEF Rowed, LibraryGood, Browser!Library
<1>2. ASSUME NEW title, NEW toSearch, lib' = Browser!openMediaItemDetails(lib, title, toSearch) PROVE RowsKept
  BY <1>1, <1>2, DetailsKeepRows DEF Rowed, RowsKept
<1>3. ASSUME NEW row, Browser!OpenItem(row) \/ Browser!OpenServerSearchItem(row) PROVE RowsKept
  BY <1>2, <1>3 DEF Browser!OpenItem, Browser!OpenServerSearchItem
<1>4. ASSUME NEW title, Browser!OpenContinueItem(title) PROVE RowsKept
  <2> DEFINE a == [lib EXCEPT !.toSearch = FALSE, !.selected = title]
             shown == Browser!setCurrentView(Browser!clearSeriesDetails(a), "details")
  <2>1. lib' = [shown EXCEPT !.loading = TRUE, !.details = @ \union {[title |-> title, by |-> "continue"]}]
    BY <1>4 DEF Browser!OpenContinueItem
  <2>2. Rowed(a, lib.rows)
    BY <1>1 DEF Rowed
  <2>. HIDE DEF a
  <2>3. Rowed(shown, lib.rows)
    BY <2>2, HelpersKeepRows
  <2>. HIDE DEF shown
  <2>. QED  BY <2>1, <2>3 DEF Rowed, RowsKept
<1>5. CASE Browser!MediaDetailsBack
  <2> DEFINE a == [lib EXCEPT !.toSearch = FALSE, !.selected = None]
             b == [lib EXCEPT !.selected = None]
  <2>1. \/ lib' = Browser!setCurrentView(Browser!clearSeriesDetails(a), "search")
        \/ lib' = Browser!setCurrentView(lib, "home")
        \/ lib' = Browser!setCurrentView(Browser!clearSeriesDetails(b), "library")
    BY <1>5 DEF Browser!MediaDetailsBack, Browser!backToHome
  <2>2. Rowed(a, lib.rows) /\ Rowed(b, lib.rows)
    BY <1>1 DEF Rowed
  <2>. HIDE DEF a, b
  <2>3. Rowed(lib', lib.rows)
    BY <1>1, <2>1, <2>2, HelpersKeepRows
  <2>. QED  BY <2>3 DEF Rowed, RowsKept
<1>6. CASE Browser!OpenEpisode
  <2> DEFINE a == [lib EXCEPT !.selected = lib.episodesOf, !.switching = TRUE, !.loading = TRUE]
  <2>1. lib' = Browser!Requested(a, lib.episodesOf, "episode")
    BY <1>6 DEF Browser!OpenEpisode
  <2>2. Rowed(a, lib.rows)
    BY <1>1 DEF Rowed
  <2>. HIDE DEF a
  <2>3. Rowed(lib', lib.rows)
    BY <2>1, <2>2, HelpersKeepRows
  <2>. QED  BY <2>3 DEF Rowed, RowsKept
<1>7. ASSUME NEW d, Browser!DetailAnswered(d) PROVE RowsKept
  <2> DEFINE rest == [lib EXCEPT !.details = @ \ {d}]
             ended == [rest EXCEPT !.loading = FALSE]
             told == [ended EXCEPT !.selected = d.title]
  <2>1. lib' \in {ended, Browser!loadSeriesSeasons(told)}
    BY <1>7 DEF Browser!DetailAnswered
  <2>2. Rowed(ended, lib.rows) /\ Rowed(told, lib.rows)
    BY <1>1 DEF Rowed
  <2>. HIDE DEF ended, told
  <2>3. Rowed(lib', lib.rows)
    BY <2>1, <2>2, SeasonsKeepRows
  <2>. QED  BY <2>3 DEF Rowed, RowsKept
<1>8. ASSUME NEW d, Browser!EpisodeAnswered(d) PROVE RowsKept
  BY <1>1, <1>8 DEF Browser!EpisodeAnswered, Browser!Library, RowsKept
<1>. QED  BY <1>3, <1>4, <1>5, <1>6, <1>7, <1>8

LEMMA SeriesKeepsRows ==
    ASSUME LibraryGood(lib), \/ \E n : Browser!SelectSeason(n) \/ \E c : Browser!SeasonsAnswered(c) \/ Browser!EpisodesAnswered(c)
    PROVE  RowsKept
<1>1. Rowed(lib, lib.rows) /\ lib \in Browser!Library
  BY DEF Rowed, LibraryGood, Browser!Library
<1>2. ASSUME NEW n, Browser!SelectSeason(n) PROVE RowsKept
  BY <1>1, <1>2, HelpersKeepRows DEF Browser!SelectSeason, Rowed, RowsKept
<1>3. ASSUME NEW c, Browser!SeasonsAnswered(c) PROVE RowsKept
  <2> DEFINE rest == [lib EXCEPT !.series = @ \ {c}]
             of == [rest EXCEPT !.seasonsOf = c.of]
  <2>1. lib' \in {rest, Browser!selectSeason(of, <<c.of, c.near>>)}
    BY <1>3 DEF Browser!SeasonsAnswered
  <2>2. Rowed(rest, lib.rows) /\ Rowed(of, lib.rows)
    BY <1>1 DEF Rowed
  <2>. HIDE DEF rest, of
  <2>3. Rowed(lib', lib.rows)
    BY <2>1, <2>2, HelpersKeepRows
  <2>. QED  BY <2>3 DEF Rowed, RowsKept
<1>4. ASSUME NEW c, Browser!EpisodesAnswered(c) PROVE RowsKept
  BY <1>1, <1>4 DEF Browser!EpisodesAnswered, Browser!Library, RowsKept
<1>. QED  BY <1>2, <1>3, <1>4

LEMMA SearchKeepsRows ==
    ASSUME LibraryGood(lib),
           \/ \E term : Browser!SearchMediaServer(term)
           \/ Browser!LoadMoreServerSearchResults \/ Browser!ClearServerSearch \/ \E c : Browser!SearchAnswered(c)
           \/ Browser!OpenSettings \/ Browser!LeaveSettings
    PROVE  RowsKept
<1>1. Rowed(lib, lib.rows) /\ lib \in Browser!Library
  BY DEF Rowed, LibraryGood, Browser!Library
<1>2. ASSUME NEW term, Browser!SearchMediaServer(term) PROVE RowsKept
  <2> DEFINE asked == [lib EXCEPT !.searches = {}, !.searchLoading = FALSE, !.term = term,
                                  !.toSearch = FALSE, !.results = <<>>, !.next = 0, !.searchMore = TRUE]
  <2>1. lib' = Browser!loadServerSearchResults(Browser!setCurrentView(asked, "search"))
    BY <1>2 DEF Browser!SearchMediaServer
  <2>2. Rowed(asked, lib.rows)
    BY <1>1 DEF Rowed
  <2>. HIDE DEF asked
  <2>3. Rowed(lib', lib.rows)
    BY <2>1, <2>2, HelpersKeepRows
  <2>. QED  BY <2>3 DEF Rowed, RowsKept
<1>3. CASE Browser!LoadMoreServerSearchResults
  BY <1>1, <1>3, HelpersKeepRows DEF Browser!LoadMoreServerSearchResults, Rowed, RowsKept
<1>4. CASE Browser!ClearServerSearch
  <2>1. Rowed(lib', lib.rows)
    BY <1>1, <1>4, HelpersKeepRows DEF Browser!ClearServerSearch
  <2>. QED  BY <2>1 DEF Rowed, RowsKept
<1>5. ASSUME NEW c, Browser!SearchAnswered(c) PROVE RowsKept
  BY <1>1, <1>5 DEF Browser!SearchAnswered, Browser!Library, RowsKept
<1>6. CASE Browser!OpenSettings
  <2>1. Rowed(lib', lib.rows)
    BY <1>1, <1>6, HelpersKeepRows DEF Browser!OpenSettings
  <2>. QED  BY <2>1 DEF Rowed, RowsKept
<1>7. CASE Browser!LeaveSettings
  <2>1. Rowed(lib', lib.rows)
    BY <1>1, <1>7, HelpersKeepRows DEF Browser!LeaveSettings, Browser!backToHome
  <2>. QED  BY <2>1 DEF Rowed, RowsKept
<1>. QED  BY <1>2, <1>3, <1>4, <1>5, <1>6, <1>7

-----------------------------------------------------------------------------
(* The library *)

LEMMA LibraryStarts == Browser!Init => LibraryGood(lib)
<1>. SUFFICES ASSUME Browser!Init PROVE LibraryGood(lib)
  OBVIOUS
<1>1. lib \in Browser!Library
  BY DEF Browser!Init, Browser!Library
<1>2. RowsFit(lib)
  BY EmptyGapless DEF Browser!Init, RowsFit
<1>3. SeasonsFit(lib) /\ SwitchFits(lib)
  BY DEF Browser!Init, SeasonsFit, SwitchFits
<1>4. lib.results = [i \in 1..lib.next |-> [term |-> lib.term, page |-> i - 1]]
  BY DEF Browser!Init
<1>5. SearchFits(lib)
  BY <1>4 DEF Browser!Init, SearchFits
<1>. QED  BY <1>1, <1>2, <1>3, <1>5 DEF LibraryGood

LEMMA KeptIsTaken == LibraryGood(lib) /\ RowsKept => PageTaken
<1>1. LibraryGood(lib) => Len(lib.rows) \in Nat
  BY LibFields DEF LibraryGood
<1>. QED  BY <1>1 DEF RowsKept, PageTaken

LEMMA LibraryStep == LibraryGood(lib) /\ Browser!Next => LibraryGood(lib') /\ PageTaken
<1>. SUFFICES ASSUME LibraryGood(lib), Browser!Next PROVE LibraryGood(lib') /\ PageTaken
  OBVIOUS
<1>1. CASE Browser!Callback
  <2>1. ASSUME NEW p, Browser!PageAnswered(p) PROVE LibraryGood(lib') /\ PageTaken
    BY <2>1, PageGood
  <2>2. ASSUME NEW d, Browser!DetailAnswered(d) \/ Browser!EpisodeAnswered(d) PROVE LibraryGood(lib') /\ RowsKept
    BY <2>2, DetailGood, EpisodeGood, TitlesKeepRows
  <2>3. ASSUME NEW c, Browser!SeasonsAnswered(c) \/ Browser!EpisodesAnswered(c) PROVE LibraryGood(lib') /\ RowsKept
    BY <2>3, SeasonsGood, EpisodesGood, SeriesKeepsRows
  <2>4. ASSUME NEW c, Browser!SearchAnswered(c) PROVE LibraryGood(lib') /\ RowsKept
    BY <2>4, SearchGood, SearchKeepsRows
  <2>. QED  BY <1>1, <2>1, <2>2, <2>3, <2>4, KeptIsTaken DEF Browser!Callback
<1>2. CASE Browser!User
  <2>1. CASE Browser!OpenLibrary \/ Browser!LoadMoreItems \/ Browser!MediaLibraryBack
    BY <2>1, OpenLibraryGood, LoadMoreGood, FolderBackGood, FoldersKeepRows, KeptIsTaken
  <2>2. ASSUME NEW row \in Folders \union Browser!Titles, Browser!OpenFolder(row) PROVE LibraryGood(lib') /\ PageTaken
    BY <2>2, OpenFolderGood, FoldersKeepRows, KeptIsTaken
  <2>3. ASSUME NEW row \in Folders \union Browser!Titles, Browser!OpenItem(row) PROVE LibraryGood(lib') /\ PageTaken
    BY <2>3, OpenItemGood, TitlesKeepRows, KeptIsTaken
  <2>4. ASSUME NEW row \in Folders \union Browser!Titles, Browser!OpenContinueItem(row) PROVE LibraryGood(lib') /\ PageTaken
    BY <2>4, ContinueGood, TitlesKeepRows, KeptIsTaken
  <2>5. CASE Browser!MediaDetailsBack \/ Browser!OpenEpisode
    BY <2>5, DetailsBackGood, OpenEpisodeGood, TitlesKeepRows, KeptIsTaken
  <2>6. ASSUME NEW n \in Seasons, Browser!SelectSeason(n) PROVE LibraryGood(lib') /\ PageTaken
    BY <2>6, SelectSeasonGood, SeriesKeepsRows, KeptIsTaken
  <2>7. ASSUME NEW term \in Terms, Browser!SearchMediaServer(term) PROVE LibraryGood(lib') /\ PageTaken
    BY <2>7, SearchServerGood, SearchKeepsRows, KeptIsTaken
  <2>8. CASE Browser!LoadMoreServerSearchResults \/ Browser!ClearServerSearch
    BY <2>8, LoadMoreSearchGood, ClearSearchGood, SearchKeepsRows, KeptIsTaken
  <2>9. ASSUME NEW title \in Browser!Titles, Browser!OpenServerSearchItem(title) PROVE LibraryGood(lib') /\ PageTaken
    BY <2>9, OpenFoundGood, TitlesKeepRows, KeptIsTaken
  <2>10. CASE Browser!OpenSettings \/ Browser!LeaveSettings
    BY <2>10, OpenSettingsGood, LeaveSettingsGood, SearchKeepsRows, KeptIsTaken
  <2>. QED  BY <1>2, <2>1, <2>2, <2>3, <2>4, <2>5, <2>6, <2>7, <2>8, <2>9, <2>10 DEF Browser!User
<1>. QED  BY <1>1, <1>2 DEF Browser!Next

LEMMA GoodIsInv == LibraryGood(lib) => Browser!LibraryInv
BY DEF LibraryGood, Browser!LibraryInv, Browser!TypeOK, Browser!EpisodesOfSeason, Browser!SwitchingHasOwner,
       Browser!SearchHonest, SeasonsFit, SwitchFits, SearchFits

-----------------------------------------------------------------------------
(* The two together *)

\* Whichever part a behaviour is about, the other one rests in a good state.
BrowsingGood == EntryGood(vm) /\ LibraryGood(lib) /\ part \in {"entry", "library"}

LEMMA BrowsingStarts == PartsInit => BrowsingGood
BY EntryStarts, LibraryStarts DEF PartsInit, BrowsingGood

LEMMA EntryRests == EntryGood(vm) /\ UNCHANGED vars => EntryGood(vm')
BY DEF vars

LEMMA LibraryRests == LibraryGood(lib) /\ UNCHANGED lib => LibraryGood(lib') /\ PageTaken
<1>1. LibraryGood(lib) /\ UNCHANGED lib => LibraryGood(lib') /\ RowsKept
  BY DEF RowsKept
<1>. QED  BY <1>1, KeptIsTaken

\* Whatever a step does, both invariants hold after it, and what it shows is what was asked for.
LEMMA BrowsingStep ==
    ASSUME BrowsingGood, [PartsNext]_allVars
    PROVE  BrowsingGood' /\ FillsStep /\ EntersStep /\ PageTaken
<1>1. CASE part = "entry" /\ Next /\ UNCHANGED <<part, lib>>
  <2>1. Step(vm, vm')
    BY <1>1, EntryStep DEF BrowsingGood
  <2>2. EntryGood(vm') /\ FillsStep /\ EntersStep
    BY <2>1, StepHolds DEF Step
  <2>3. LibraryGood(lib') /\ PageTaken
    BY <1>1, LibraryRests DEF BrowsingGood
  <2>. QED  BY <1>1, <2>2, <2>3 DEF BrowsingGood
<1>2. CASE part = "library" /\ Browser!Next /\ UNCHANGED <<part, vars>>
  <2>1. LibraryGood(lib') /\ PageTaken
    BY <1>2, LibraryStep DEF BrowsingGood
  <2>2. EntryGood(vm') /\ FillsStep /\ EntersStep
    BY <1>2, EntryRests, RestHolds DEF BrowsingGood
  <2>. QED  BY <1>2, <2>1, <2>2 DEF BrowsingGood
<1>3. CASE UNCHANGED allVars
  <2>1. UNCHANGED vars /\ UNCHANGED lib /\ UNCHANGED part
    BY <1>3 DEF allVars
  <2>2. LibraryGood(lib') /\ PageTaken
    BY <2>1, LibraryRests DEF BrowsingGood
  <2>3. EntryGood(vm') /\ FillsStep /\ EntersStep
    BY <2>1, EntryRests, RestHolds DEF BrowsingGood
  <2>. QED  BY <2>1, <2>2, <2>3 DEF BrowsingGood
<1>. QED  BY <1>1, <1>2, <1>3 DEF PartsNext

\* The inductive invariant of both, at every moment: the counter of the home is that of the requests
\* that own it, the opening of a card has one callback, and the rows of a folder have no gap
\* (AppViewModel.cpp:4618-4736, 8620-8700, 9135-9290).
THEOREM BrowsingInvariant == PartsSpec => []BrowsingGood
<1>1. PartsInit => BrowsingGood
  BY BrowsingStarts
<1>2. BrowsingGood /\ [PartsNext]_allVars => BrowsingGood'
  BY BrowsingStep
<1>. QED  BY <1>1, <1>2, PTL DEF PartsSpec

\* No spinner, flag or loading state is left behind by a visit, an activation or a login that was
\* overtaken: each has a callback that will take it back (AppViewModel.cpp:10299-10351, 11208-11235).
THEOREM SpinnersHaveOwners == PartsSpec => []EntryInv
<1>1. BrowsingGood => EntryInv
  BY EntryHolds DEF BrowsingGood
<1>. QED  BY <1>1, BrowsingInvariant, PTL

\* A service is entered only when its card is the chosen one or its login was answered, and a rail of
\* the home is filled only with the answers of the session that is open (AppViewModel.cpp:4618-4736, 8620-8628).
THEOREM ServiceIsRight == PartsSpec => RightServiceOnly
<1>1. BrowsingGood /\ [PartsNext]_allVars => FillsStep /\ EntersStep
  BY BrowsingStep
<1>2. PartsSpec => [][FillsStep]_vars /\ [][EntersStep]_vars
  BY <1>1, BrowsingInvariant, PTL DEF PartsSpec
<1>. QED  BY <1>2 DEF RightServiceOnly, FillsOwnSessionOnly, EntersWhatIsChosen, FillsStep, EntersStep

\* The episodes shown are those of the season and of the series, the results those of the term, and
\* no mark of a request outlives it, whichever answers come first (AppViewModel.cpp:9019-9290).
THEOREM PagesMatch == PartsSpec => []LibraryInv
<1>1. BrowsingGood => LibraryInv
  BY GoodIsInv DEF BrowsingGood, LibraryInv
<1>. QED  BY <1>1, BrowsingInvariant, PTL

\* The number of rows of a folder is the same in the module of the library.
LEMMA SameCardinality == \A S : Browser!Cardinality(S) = Cardinality(S)
BY DEF Cardinality, Browser!Cardinality

\* A page is appended only to the folder it is of and only behind the pages that are there, however
\* often folders were entered and left while it was on its way (AppViewModel.cpp:9135-9148).
THEOREM PagesContinue == PartsSpec => AppendsWhatIsNext
<1>1. BrowsingGood /\ [PartsNext]_allVars => Browser!RowsContinue
  BY BrowsingStep, SameCardinality DEF PageTaken, Places, Browser!RowsContinue
<1>2. PartsSpec => [][Browser!RowsContinue]_(Browser!vars)
  BY <1>1, BrowsingInvariant, PTL DEF PartsSpec
<1>. QED  BY <1>2 DEF AppendsWhatIsNext, Browser!AppendsWhatIsNext
=============================================================================
