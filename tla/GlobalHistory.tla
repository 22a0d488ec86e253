--------------------------- MODULE GlobalHistory ---------------------------
(***************************************************************************)
(* The playback history (AppViewModel.cpp, SessionRepository.cpp): one     *)
(* table with the latest playback of every title, and the older table of   *)
(* the link page, whose rows are the same records under the same ids.      *)
(* Both pages are read by workers, the first one in pages of a fixed size; *)
(* days are looked at and deleted in a dialog.  A record is private by     *)
(* itself or because its service is.  To increment a generation counter is *)
(* to forget the request that carries its value, since an answer with an   *)
(* older value changes nothing.  Playing a record is in PlaybackSession.   *)
(***************************************************************************)
EXTENDS Naturals, Sequences, SequencesExt, FiniteSets, FiniteSetsExt

CONSTANTS
    Links, Media,       \* what can be played: links, and titles of one service
    First,              \* the records of an earlier session
    PageSize,           \* m_globalHistoryPageSize
    None,
    MaxStarts,          \* bound: playbacks that started
    MaxRare             \* bound: restarts, and changes of the service and of the settings

Title == Links \union Media
Day == {1, 2}
Today == 2
\* Ids are drawn in the order of the playbacks, so they also stand for the time.
Record == [id: 1 .. Cardinality(First) + MaxStarts, title: Title, day: Day, private: BOOLEAN]

ASSUME HistoryAssumption ==
    /\ Links \cap Media = {} /\ None \notin Title
    /\ PageSize \in Nat \ {0} /\ MaxStarts \in Nat /\ MaxRare \in Nat
    /\ IsFiniteSet(First) /\ First \subseteq Record /\ \A r \in First : r.id <= Cardinality(First)
    /\ \A r, s \in First : r # s => r.id # s.id /\ r.title # s.title /\ (r.id < s.id => r.day <= s.day)

VARIABLES
    db,         \* the tables
    ui,         \* the pages
    rare,       \* bounded
    stale       \* history: the console changed the service since the page was last read from its start
vars == <<db, ui, rare, stale>>

(***************************************************************************)
(* "history" is playback_history and "links" link_playback_history;        *)
(* "hidden" and "gone" say that the service is private, and not in use.    *)
(* "torn" is history: a record was saved in one table and not the other.   *)
(***************************************************************************)
Tables == [history: SUBSET Record, links: SUBSET Record, next: Nat, retention: Day,
           hidden: BOOLEAN, gone: BOOLEAN, torn: BOOLEAN]

(***************************************************************************)
(* "start" is m_globalHistoryNextStartIndex; "asked" the page in request   *)
(* with what the worker reads; "owed" the refresh that waits for the       *)
(* opening animation.  "linkRows" and "linkAsked" are the same for the     *)
(* link page, "days", "day" and "dayRows" the dialog's.                    *)
(* "playing" is what is open in the player and "noted" that its record is  *)
(* made.  "failed" is history: the page's last read returned an error.     *)
(* "services" also stands for every page but these three.                  *)
(***************************************************************************)
Off == [view |-> "services", privacy |-> FALSE, filter |-> "All",
        rows |-> <<>>, start |-> 0, more |-> FALSE, loading |-> FALSE, owed |-> FALSE, asked |-> {},
        linkRows |-> <<>>, linkAsked |-> {},
        dialog |-> FALSE, days |-> {}, day |-> 0, dayRows |-> <<>>,
        playing |-> None, hidden |-> FALSE, noted |-> FALSE, failed |-> FALSE]

Rarely == rare < MaxRare /\ rare' = rare + 1

TypeOK ==
    /\ db \in Tables
    /\ ui.view \in {"services", "history", "link", "player"} /\ ui.filter \in {"All", "Link"}
    /\ ui.playing \in Title \union {None}
    /\ Cardinality(ui.asked) < 2 /\ Cardinality(ui.linkAsked) < 2
    /\ ui.day \in {0} \union Day
    /\ rare \in 0 .. MaxRare

(***************************************************************************)
(* The queries.  Rows older than the retention period are not seen.        *)
(***************************************************************************)
Source(title) == IF title \in Links THEN "Link" ELSE "Media"
Fresh(d, rows) == {r \in rows : Today - r.day < d.retention}
Private(d, r) == r.private \/ (r.title \in Media /\ d.hidden)
Visible(d, privacy) == {r \in d.history : privacy \/ ~Private(d, r)}
\* ORDER BY the time of the playback, the newest first.
Newest(rows) == [i \in 1 .. Cardinality(rows) |-> CHOOSE r \in rows : Cardinality({s \in rows : s.id >= r.id}) = i]
\* What a page gets: the query computes the column for privacy, the service may be missing.
prepareGlobalHistoryItems(d, rows) ==
    [i \in DOMAIN rows |-> [id |-> rows[i].id, title |-> rows[i].title, private |-> Private(d, rows[i]),
                            available |-> rows[i].title \in Media => ~d.gone]]

Matching(d, privacy, filter) ==
    prepareGlobalHistoryItems(d, Newest({r \in Fresh(d, Visible(d, privacy)) : filter \in {"All", Source(r.title)}}))
loadPlaybackHistory(d, privacy, start, filter) ==
    LET rows == Matching(d, privacy, filter)
    IN SubSeq(rows, start + 1, Min({start + PageSize, Len(rows)}))
loadLinkPlaybackHistory(d, privacy) == Newest({r \in Fresh(d, d.links) : privacy \/ ~r.private})
loadPlaybackHistoryDates(d, privacy) == {r.day : r \in Fresh(d, Visible(d, privacy))}
loadPlaybackHistoryForDate(d, privacy, day) ==
    prepareGlobalHistoryItems(d, Newest({r \in Fresh(d, Visible(d, privacy)) : r.day = day}))

(***************************************************************************)
(* The statements that write.                                              *)
(***************************************************************************)
\* INSERT OR REPLACE under a unique index: the latest playback of a title stays.
Replaced(rows, record) == {r \in rows : r.title # record.title} \union {record}
savePlaybackHistory(d, record) == [d EXCEPT !.history = Replaced(@, record), !.next = @ + 1]
saveLinkPlaybackHistory(d, record) == [d EXCEPT !.links = Replaced(@, record)]

deletePlaybackHistory(d, id) ==
    [d EXCEPT !.history = {r \in @ : r.id # id}, !.links = {r \in @ : r.id # id}]

\* MUTANT: the day is deleted as it is.
DeleteWholeDate(d, privacy, day) ==
    [d EXCEPT !.history = {r \in @ : r.day # day}, !.links = {r \in @ : r.day # day}]

\* MUTANT: the rows of links are chosen when those of the other table are gone.
DeleteDateHistoryFirst(d, privacy, day) ==
    [d EXCEPT !.history = @ \ {q \in Visible(d, privacy) : q.day = day}]

\* The rows of links are chosen by what is visible of the other table, so they go first.
deletePlaybackHistoryForDate(d, privacy, day) ==
    LET ids == {r.id : r \in {q \in Visible(d, privacy) : q.day = day}}
    IN [d EXCEPT !.history = {r \in @ : r.id \notin ids}, !.links = {r \in @ : r.id \notin ids}]

pruneOldHistory(d) ==
    LET kept(rows) == {r \in rows : Today - r.day < d.retention}
    IN [d EXCEPT !.history = kept(@), !.links = kept(@)]

\* createSchema moves links of an old version to the new table, unless the title is there already.
MigrateLinks(d) ==
    [d EXCEPT !.history = @ \union {r \in d.links : \A h \in d.history : h.id # r.id /\ h.title # r.title}]

(***************************************************************************)
(* The history page.                                                       *)
(***************************************************************************)
Forgotten(u) == [u EXCEPT !.asked = {}, !.owed = FALSE]

\* The worker's query; one that waits sees nothing else, since what the interface writes forgets it.
Asked(u, d, reset, start) ==
    {[reset |-> reset, privacy |-> u.privacy, rows |-> loadPlaybackHistory(d, u.privacy, start, u.filter)]}

loadGlobalHistoryPage(u, d, reset) ==
    LET start == IF reset THEN 0 ELSE u.start
    IN IF u.loading THEN u
       ELSE [Forgotten(u) EXCEPT !.loading = TRUE, !.start = start, !.rows = IF reset THEN <<>> ELSE @,
                                 !.asked = Asked(u, d, reset, start)]

refreshGlobalHistory(u, d) ==
    loadGlobalHistoryPage(IF u.loading THEN [Forgotten(u) EXCEPT !.loading = FALSE] ELSE u, d, TRUE)
Refreshed == stale' = FALSE

HistoryAnswered ==
    /\ \E q \in ui.asked, ok \in BOOLEAN :
         LET u == [ui EXCEPT !.asked = {}, !.loading = FALSE]
         IN ui' = CASE q.privacy # ui.privacy -> u
                    [] q.privacy = ui.privacy /\ ~ok -> [u EXCEPT !.more = FALSE, !.failed = TRUE]
                    [] OTHER -> [u EXCEPT !.rows = IF q.reset THEN q.rows ELSE @ \o q.rows,
                                          !.start = @ + Len(q.rows), !.more = Len(q.rows) = PageSize, !.failed = FALSE]
    /\ UNCHANGED <<db, rare, stale>>

\* A page that is left, and not for the player, forgets what it asked for.
setCurrentView(u, view) ==
    LET link == IF u.view = "link" /\ view \notin {"link", "player"} THEN [u EXCEPT !.linkAsked = {}] ELSE u
        left == IF u.view = "history" /\ view \notin {"history", "player"}
                THEN [Forgotten(link) EXCEPT !.loading = FALSE] ELSE link
    IN [left EXCEPT !.view = view]

\* The rows of the last visit stay under the card that opens, until the refresh.
openGlobalHistory ==
    /\ ui.view = "services"
    /\ ui' = [setCurrentView([Forgotten(ui) EXCEPT !.loading = FALSE, !.playing = None], "history") EXCEPT !.owed = TRUE]
    /\ UNCHANGED <<db, rare, stale>>

RefreshTimer ==
    /\ ui.owed
    /\ IF ui.view = "history" THEN ui' = refreshGlobalHistory(ui, db) /\ Refreshed
       ELSE ui' = [ui EXCEPT !.owed = FALSE] /\ UNCHANGED stale
    /\ UNCHANGED <<db, rare>>

\* The card covers the page until then.
OnPage == ui.view = "history" /\ ~ui.owed /\ ~ui.dialog

Refresh ==
    /\ OnPage /\ ~ui.loading
    /\ ui' = refreshGlobalHistory(ui, db) /\ Refreshed
    /\ UNCHANGED <<db, rare>>

loadMoreGlobalHistory ==
    /\ OnPage /\ ~ui.loading /\ ui.more
    /\ ui' = loadGlobalHistoryPage(ui, db, FALSE)
    /\ UNCHANGED <<db, rare, stale>>

\* MUTANT: a change of the filter waits for the next visit.
FilterWithoutRefresh(filter) ==
    /\ OnPage /\ filter # ui.filter
    /\ ui' = [ui EXCEPT !.filter = filter]
    /\ UNCHANGED <<db, rare, stale>>

setGlobalHistoryFilter(filter) ==
    /\ OnPage /\ filter # ui.filter
    /\ ui' = refreshGlobalHistory([ui EXCEPT !.filter = filter], db) /\ Refreshed
    /\ UNCHANGED <<db, rare>>

\* In the settings; the old rows may resist.
setHistoryRetentionDays(days) ==
    /\ Rarely
    /\ ui.view = "services" /\ days # db.retention
    /\ LET d == [db EXCEPT !.retention = days]
       IN db' \in {d, pruneOldHistory(d)}
    /\ ui' = refreshGlobalHistory(ui, db') /\ Refreshed

(***************************************************************************)
(* The link page.                                                          *)
(***************************************************************************)
refreshLinkPlaybackHistory(u, d) ==
    [u EXCEPT !.linkAsked = {[privacy |-> u.privacy, rows |-> loadLinkPlaybackHistory(d, u.privacy)]}]

LinksAnswered ==
    /\ \E q \in ui.linkAsked, ok \in BOOLEAN :
         ui' = [ui EXCEPT !.linkAsked = {}, !.linkRows = IF q.privacy # ui.privacy \/ ~ok THEN @ ELSE q.rows]
    /\ UNCHANGED <<db, rare, stale>>

\* The refresh follows in the next turn of the event loop.
openLinkPlayback ==
    /\ ui.view = "services"
    /\ ui' = refreshLinkPlaybackHistory(setCurrentView([ui EXCEPT !.playing = None], "link"), db)
    /\ UNCHANGED <<db, rare, stale>>

deleteLinkPlaybackHistory ==
    /\ ui.view = "link"
    /\ \E i \in DOMAIN ui.linkRows : db' = deletePlaybackHistory(db, ui.linkRows[i].id)
    /\ ui' = refreshGlobalHistory(refreshLinkPlaybackHistory(ui, db'), db') /\ Refreshed
    /\ UNCHANGED rare

(***************************************************************************)
(* Playing, from either page, a new link, or a title of a library; what    *)
(* happens until the player opens is in PlaybackSession.                   *)
(***************************************************************************)
Play ==
    /\ \E title \in Title :
         /\ \/ OnPage /\ \E i \in DOMAIN ui.rows : ui.rows[i].title = title /\ ui.rows[i].available
            \/ ui.view = "link" /\ title \in Links
            \/ ui.view = "services" /\ title \in Media
         /\ title \in Media => ~db.gone
         /\ ui' = setCurrentView([ui EXCEPT !.playing = title, !.noted = FALSE, !.hidden = title \in Media /\ db.hidden], "player")
    /\ UNCHANGED <<db, rare, stale>>

\* The first sign that a title really plays makes its record, with what was known when it was opened.
recordGlobalPlaybackStarted ==
    /\ ui.view = "player" /\ ~ui.noted /\ db.next <= Cardinality(First) + MaxStarts
    /\ LET record == [id |-> db.next, title |-> ui.playing, day |-> Today, private |-> ui.privacy \/ ui.hidden]
           saved == savePlaybackHistory(db, record)
           noted == [ui EXCEPT !.noted = TRUE]
       IN IF ui.playing \in Media THEN db' = saved /\ ui' = noted
          ELSE \/ db' = saveLinkPlaybackHistory(saved, record) /\ ui' = refreshLinkPlaybackHistory(noted, db')
               \/ db' = [saved EXCEPT !.torn = TRUE] /\ ui' = noted
    /\ UNCHANGED <<rare, stale>>

closePlayerToDetails ==
    /\ ui.view = "player"
    /\ ui' = [setCurrentView(ui, IF ui.playing \in Links THEN "link" ELSE "services") EXCEPT !.playing = None]
    /\ UNCHANGED <<db, rare, stale>>

backToServices ==
    /\ ui.view # "services" /\ ~ui.dialog
    /\ ui' = [setCurrentView(ui, "services") EXCEPT !.playing = None]
    /\ UNCHANGED <<db, rare, stale>>

(***************************************************************************)
(* Deleting a record, and the dialog for whole days.                       *)
(***************************************************************************)
deleteGlobalHistory ==
    /\ OnPage
    /\ \E i \in DOMAIN ui.rows :
         /\ db' = deletePlaybackHistory(db, ui.rows[i].id)
         /\ ui' = refreshGlobalHistory(IF ui.rows[i].title \in Links THEN refreshLinkPlaybackHistory(ui, db') ELSE ui, db')
    /\ Refreshed /\ UNCHANGED rare

loadGlobalHistoryManagementDate(u, d, day) ==
    [u EXCEPT !.day = day, !.dayRows = loadPlaybackHistoryForDate(d, u.privacy, day)]

loadGlobalHistoryManagementDates(u, d) ==
    LET days == loadPlaybackHistoryDates(d, u.privacy)
        listed == [u EXCEPT !.days = days]
    IN IF days = {} THEN [listed EXCEPT !.day = 0, !.dayRows = <<>>]
       ELSE loadGlobalHistoryManagementDate(listed, d, IF u.day \in days THEN u.day ELSE Max(days))

\* The day is that of the last visit, if it is still there, so it may be any.
openGlobalHistoryManagement ==
    /\ OnPage
    /\ \E day \in {0} \union Day : ui' = [loadGlobalHistoryManagementDates([ui EXCEPT !.day = day], db) EXCEPT !.dialog = TRUE]
    /\ UNCHANGED <<db, rare, stale>>

selectGlobalHistoryManagementDate ==
    /\ ui.dialog
    /\ \E day \in ui.days : ui' = loadGlobalHistoryManagementDate(ui, db, day)
    /\ UNCHANGED <<db, rare, stale>>

deleteGlobalHistoryManagementDate ==
    /\ ui.dialog /\ ui.day # 0 /\ ui.dayRows # <<>>
    /\ LET d == deletePlaybackHistoryForDate(db, ui.privacy, ui.day)
       IN db' = d /\ ui' = refreshGlobalHistory(loadGlobalHistoryManagementDates(ui, d), d)
    /\ Refreshed /\ UNCHANGED rare

\* What it shows is loaded again when it opens.
CloseDialog ==
    /\ ui.dialog
    /\ ui' = [ui EXCEPT !.dialog = FALSE, !.day = 0, !.days = {}, !.dayRows = <<>>]
    /\ UNCHANGED <<db, rare, stale>>

(***************************************************************************)
(* Privacy mode and the service, and a console that changes the service    *)
(* without telling the interface.                                          *)
(***************************************************************************)
TogglePrivacyMode ==
    /\ ui.view = "services"
    /\ IF ui.privacy THEN ui' = [ui EXCEPT !.privacy = FALSE] /\ UNCHANGED stale
       ELSE ui' = refreshGlobalHistory([ui EXCEPT !.privacy = TRUE], db) /\ Refreshed
    /\ UNCHANGED <<db, rare>>

SetPrivacyCardPrivate ==
    /\ Rarely
    /\ ui.view = "services" /\ ui.privacy /\ ~db.gone
    /\ db' = [db EXCEPT !.hidden = ~@]
    /\ ui' = refreshGlobalHistory(ui, db') /\ Refreshed

DeleteServiceCard ==
    /\ Rarely
    /\ ui.view = "services" /\ ~db.gone /\ (db.hidden => ui.privacy)
    /\ \/ db' = [db EXCEPT !.gone = TRUE]
       \/ db' = [db EXCEPT !.gone = TRUE, !.hidden = FALSE, !.history = {r \in @ : r.title \in Links}]
    /\ ui' = refreshGlobalHistory(ui, db') /\ Refreshed

Console ==
    /\ Rarely
    /\ db' \in {[db EXCEPT !.hidden = ~@], [db EXCEPT !.gone = ~@]}
    /\ stale' = TRUE
    /\ UNCHANGED ui

\* Started again at any time; createSchema and initialize.
Restart ==
    /\ Rarely
    /\ db' = pruneOldHistory(MigrateLinks(db))
    /\ ui' = refreshGlobalHistory(refreshLinkPlaybackHistory(Off, db'), db') /\ Refreshed

Init ==
    /\ db = [history |-> First, links |-> {r \in First : r.title \in Links}, next |-> Cardinality(First) + 1,
             retention |-> Today, hidden |-> FALSE, gone |-> FALSE, torn |-> FALSE]
    /\ ui = refreshGlobalHistory(refreshLinkPlaybackHistory(Off, db), db)
    /\ rare = 0 /\ stale = FALSE

Next ==
    \/ HistoryAnswered \/ openGlobalHistory \/ RefreshTimer \/ Refresh \/ loadMoreGlobalHistory
    \/ \E filter \in {"All", "Link"} : setGlobalHistoryFilter(filter)
    \/ \E days \in Day : setHistoryRetentionDays(days)
    \/ LinksAnswered \/ openLinkPlayback \/ deleteLinkPlaybackHistory
    \/ Play \/ recordGlobalPlaybackStarted \/ closePlayerToDetails \/ backToServices
    \/ deleteGlobalHistory \/ openGlobalHistoryManagement \/ selectGlobalHistoryManagementDate
    \/ deleteGlobalHistoryManagementDate \/ CloseDialog
    \/ TogglePrivacyMode \/ SetPrivacyCardPrivate \/ DeleteServiceCard \/ Console \/ Restart

Spec == Init /\ [][Next]_vars

(***************************************************************************)
(* Properties.                                                             *)
(***************************************************************************)
\* Outside privacy mode the open history page and the dialog hold nothing that was private when it was
\* read, although the rows of the last visit are kept and requests outlive a change of the mode.
HistoryHidesPrivate ==
    ~ui.privacy =>
      /\ OnPage => \A i \in DOMAIN ui.rows : ~ui.rows[i].private
      /\ ui.dialog => \A i \in DOMAIN ui.dayRows : ~ui.dayRows[i].private

\* The pages continue each other: what the open page shows is the beginning of what the filter lets
\* through now, nothing skipped or twice, and all of it when no more is offered.
PageContinues ==
    OnPage /\ ~ui.loading /\ ~stale =>
      LET all == Matching(db, ui.privacy, ui.filter)
      IN /\ IsPrefix(ui.rows, all) /\ ui.start = Len(ui.rows)
         /\ ~ui.more /\ ~ui.failed => ui.rows = all

\* The page is marked as loading exactly while an answer that will be accepted is awaited; a mark
\* without one would refuse every later page.
LoadingHasOwner == ui.loading = (ui.asked # {})

\* Deleting a day outside privacy mode takes no record that is private at that time, from either table.
OrdinaryKeepsPrivate ==
    [][ui.dialog /\ ui'.dialog /\ ~ui.privacy =>
         /\ \A r \in db.history : Private(db, r) => r \in db'.history
         /\ \A r \in db.links : r.private => r \in db'.links]_vars

\* The two tables hold the same records of links, whichever page or dialog deletes them, as long as
\* both could be written when a link was played.
LinksMatch == ~db.torn => db.links = {r \in db.history : r.title \in Links}

\* What LinkPlayback.md says of the link page: normal mode excludes private link records.
LinkPageHidesPrivate ==
    ui.view = "link" /\ ~ui.privacy /\ ui.linkAsked = {} => \A i \in DOMAIN ui.linkRows : ~ui.linkRows[i].private

\* What the history page guarantees whenever privacy, the filter, the page or the data change under
\* its requests: it hides what is private, its pages fit together, and it is never stuck loading
\* (AppViewModel.cpp:5324-5757).
HistoryInv == TypeOK /\ HistoryHidesPrivate /\ LoadingHasOwner /\ PageContinues
=============================================================================
