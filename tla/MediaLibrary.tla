---------------------------- MODULE MediaLibrary ----------------------------
(***************************************************************************)
(* Browsing a media server that is open (AppViewModel.cpp): folders and   *)
(* their pages, the details of a title, the seasons and episodes of a      *)
(* series, and the search.  Each kind of request has its own generation    *)
(* counter, and an answer that captured an older value changes nothing    *)
(* whenever it comes: to increment a counter is to forget the requests     *)
(* that carry its value.  Entering and leaving the service is in        *)
(* ServiceEntry, playing a title in PlaybackSession.                       *)
(***************************************************************************)
EXTENDS Naturals, Sequences, FiniteSets

CONSTANTS
    Folders, Root,      \* the folders of one library
    Movies, Shows, Seasons,
    Resumable,          \* the titles of the home's continue-watching rail
    Terms,              \* what the user searches for
    None,
    MaxPages,           \* bound: pages of a folder
    MaxResults,         \* bound: pages of a search
    MaxDepth,           \* bound: folders entered below each other
    MaxDetails          \* bound: details requests in flight

Episodes == Shows \X Seasons
Titles == Movies \union Shows \union Episodes

LibraryAssumption ==
    /\ Root \in Folders /\ Resumable \subseteq Titles
    /\ Seasons \subseteq Nat /\ Seasons # {}
    /\ None \notin Titles \union Folders \union Terms
    /\ MaxPages \in Nat /\ MaxResults \in Nat /\ MaxDepth \in Nat /\ MaxDetails \in Nat

VARIABLE lib
vars == <<lib>>

(***************************************************************************)
(* "folder" and "above" are the current parent and the way back, "rows"    *)
(* the pages the list of the library holds, "start" the next page to ask   *)
(* for; "results" and "next" are those of the search.  A season is a pair, *)
(* and so is the episode that stands for all of the season's.              *)
(***************************************************************************)
Page == [folder: Folders, page: Nat]
Detail == [title: Titles, by: {"details", "continue", "episode"}]
SeriesCall == [op: {"seasons", "episodes"}, of: Shows \union Episodes, near: Seasons]
Search == [term: Terms, page: Nat]

Library ==
    [view: {"home", "library", "details", "search", "settings"}, loading: BOOLEAN,
     folder: Folders \union {None}, above: Seq(Folders), start: Nat, more: BOOLEAN,
     rows: Seq([folder: Folders, page: Nat]), pageLoading: BOOLEAN, pages: SUBSET Page,
     selected: Titles \union {None}, details: SUBSET Detail, switching: BOOLEAN, toSearch: BOOLEAN,
     seasonsOf: Shows \union {None}, season: Episodes \union {None}, episodesOf: Episodes \union {None},
     series: SUBSET SeriesCall,
     term: Terms \union {None}, results: Seq([term: Terms, page: Nat]), next: Nat,
     searchMore: BOOLEAN, searchLoading: BOOLEAN, searches: SUBSET Search]

TypeOK == lib \in Library

Init ==
    lib = [view |-> "home", loading |-> FALSE,
           folder |-> None, above |-> <<>>, start |-> 0, more |-> FALSE,
           rows |-> <<>>, pageLoading |-> FALSE, pages |-> {},
           selected |-> None, details |-> {}, switching |-> FALSE, toSearch |-> FALSE,
           seasonsOf |-> None, season |-> None, episodesOf |-> None, series |-> {},
           term |-> None, results |-> <<>>, next |-> 0,
           searchMore |-> FALSE, searchLoading |-> FALSE, searches |-> {}]

\* The requests of the continue-watching rail have no generation
DetailsOutdated(s) == {d \in s.details : d.by = "continue"}

ShowOf(title) == IF title \in Episodes THEN title[1] ELSE title
hasSeriesEpisodes(title) == title \in Shows \union Episodes
isNavigableMediaFolder(row) == row \in Folders

\* The rows a page of a folder shows: its subfolders and the titles
RowsOf(folder) == (IF folder = Root THEN Folders \ {Root} ELSE {}) \union Movies \union Shows
ShownRows(s) == UNION {RowsOf(s.rows[i].folder) : i \in DOMAIN s.rows}

---------------------------------------------------------------------------
(* Pages of the interface *)

\* Leaving the home invalidates its requests and the global loading state
setCurrentView(s, view) ==
    [s EXCEPT !.view = view, !.loading = @ /\ ~(s.view = "home" /\ view # "home")]

clearSeriesDetails(s) ==
    [s EXCEPT !.details = DetailsOutdated(s), !.series = {},
              !.season = None, !.seasonsOf = None, !.episodesOf = None,
              !.switching = FALSE, !.loading = @ /\ ~s.switching]

---------------------------------------------------------------------------
(* Folders *)

\* MUTANT: the counter is not incremented
RequestsKept(s) == s

\* ++m_mediaDirectoryRequestGeneration
RequestsForgotten(s) == [s EXCEPT !.pages = {}]

resetMediaDirectory(s, folder) ==
    [RequestsForgotten(s) EXCEPT !.folder = folder, !.start = 0, !.more = TRUE]

loadMediaDirectory(s, resetItems) ==
    IF s.folder = None \/ s.loading \/ (~resetItems /\ ~s.more) THEN s
    ELSE LET reset == IF resetItems
                      THEN clearSeriesDetails([s EXCEPT !.start = 0, !.more = TRUE, !.rows = <<>>, !.selected = None])
                      ELSE s
         IN  [RequestsForgotten(reset) EXCEPT
                    !.pages = @ \union {[folder |-> s.folder, page |-> reset.start]}, !.pageLoading = TRUE, !.loading = TRUE]

OpenLibrary ==
    /\ lib.view = "home"
    /\ LET opened == [resetMediaDirectory([lib EXCEPT !.above = <<>>], Root) EXCEPT !.selected = None, !.rows = <<>>]
       IN  lib' = loadMediaDirectory(setCurrentView(clearSeriesDetails(opened), "library"), FALSE)

\* The grid asks at its end, unless something is loading
LoadMoreItems ==
    /\ lib.view = "library" /\ ~lib.loading /\ lib.start < MaxPages
    /\ lib' = loadMediaDirectory(lib, FALSE)

OpenFolder(row) ==
    /\ lib.view = "library" /\ row \in ShownRows(lib) /\ isNavigableMediaFolder(row)
    /\ Len(lib.above) < MaxDepth
    /\ lib' = loadMediaDirectory(resetMediaDirectory([lib EXCEPT !.above = Append(@, lib.folder)], row), TRUE)

backToHome(s) == setCurrentView(s, "home")

MediaLibraryBack ==
    /\ lib.view = "library"
    /\ lib' = IF lib.above = <<>> THEN backToHome(lib)
              ELSE loadMediaDirectory(
                      resetMediaDirectory([lib EXCEPT !.above = SubSeq(@, 1, Len(@) - 1)], lib.above[Len(lib.above)]),
                      TRUE)

\* A page is full or the last one; a page whose rows are all known ends the folder too
PageAnswered(p) ==
    /\ p \in lib.pages
    /\ LET rest == [lib EXCEPT !.pages = @ \ {p}]
           ended == [rest EXCEPT !.pageLoading = FALSE, !.loading = FALSE]
           row == [folder |-> p.folder, page |-> p.page]
           known == \E i \in DOMAIN lib.rows : lib.rows[i] = row
       IN  IF p.folder # lib.folder THEN lib' = rest
           ELSE \/ lib' = ended
                \/ \E full \in BOOLEAN :
                      lib' = setCurrentView([ended EXCEPT !.start = @ + 1, !.more = full /\ ~known,
                                                          !.rows = IF known THEN @ ELSE Append(@, row)], "library")

---------------------------------------------------------------------------
(* Titles *)
Requested(s, title, by) ==
    [s EXCEPT !.details = DetailsOutdated(s) \union {[title |-> title, by |-> by]}]

openMediaItemDetails(s, title, toSearch) ==
    LET shown == setCurrentView(clearSeriesDetails([s EXCEPT !.toSearch = toSearch, !.selected = title]), "details")
    IN  Requested([shown EXCEPT !.loading = TRUE], title, "details")

OpenItem(row) ==
    /\ lib.view = "library" /\ row \in ShownRows(lib) /\ ~isNavigableMediaFolder(row)
    /\ Cardinality(lib.details) < MaxDetails
    /\ lib' = openMediaItemDetails(lib, row, FALSE)

\* From the rail of the home; no counter is incremented and none is captured
OpenContinueItem(title) ==
    /\ lib.view = "home" /\ title \in Resumable /\ Cardinality(lib.details) < MaxDetails
    /\ LET shown == setCurrentView(clearSeriesDetails([lib EXCEPT !.toSearch = FALSE, !.selected = title]), "details")
       IN  lib' = [shown EXCEPT !.loading = TRUE,
                                !.details = @ \union {[title |-> title, by |-> "continue"]}]

MediaDetailsBack ==
    /\ lib.view = "details"
    /\ lib' = IF lib.toSearch /\ lib.term # None
              THEN setCurrentView(clearSeriesDetails([lib EXCEPT !.toSearch = FALSE, !.selected = None]), "search")
              ELSE IF lib.folder = None THEN backToHome(lib)
              ELSE setCurrentView(clearSeriesDetails([lib EXCEPT !.selected = None]), "library")

\* What is captured is the season of the selected episode; without one the first is shown
Near(title) == IF title \in Episodes THEN title[2] ELSE CHOOSE n \in Seasons : \A k \in Seasons : n <= k

loadSeriesSeasons(s) ==
    IF ~hasSeriesEpisodes(s.selected) THEN clearSeriesDetails(s)
    ELSE [s EXCEPT !.series = {[op |-> "seasons", of |-> ShowOf(s.selected), near |-> Near(s.selected)]},
                   !.season = None, !.seasonsOf = None, !.episodesOf = None]

DetailAnswered(d) ==
    /\ d \in lib.details /\ d.by # "episode"
    /\ LET rest == [lib EXCEPT !.details = @ \ {d}]
           ended == [rest EXCEPT !.loading = FALSE]
       IN  lib' \in {ended, loadSeriesSeasons([ended EXCEPT !.selected = d.title])}

---------------------------------------------------------------------------
(* Seasons and episodes, which share a counter *)
loadSeasonEpisodes(s, season) ==
    IF ~hasSeriesEpisodes(s.selected) THEN [s EXCEPT !.episodesOf = None]
    ELSE [s EXCEPT !.episodesOf = None,
                   !.series = @ \union {[op |-> "episodes", of |-> season, near |-> season[2]]}]

\* MUTANT: the counter is not incremented, so the answers for two seasons race
SelectWithoutCounter(s, season) == loadSeasonEpisodes([s EXCEPT !.season = season], season)

selectSeason(s, season) == loadSeasonEpisodes([s EXCEPT !.series = {}, !.season = season], season)

SelectSeason(n) ==
    /\ lib.view = "details" /\ lib.seasonsOf # None /\ n \in Seasons
    /\ lib' = selectSeason(lib, <<lib.seasonsOf, n>>)

SeasonsAnswered(c) ==
    /\ c \in lib.series /\ c.op = "seasons"
    /\ LET rest == [lib EXCEPT !.series = @ \ {c}]
       IN  lib' \in {rest, selectSeason([rest EXCEPT !.seasonsOf = c.of], <<c.of, c.near>>)}

EpisodesAnswered(c) ==
    /\ c \in lib.series /\ c.op = "episodes"
    /\ LET rest == [lib EXCEPT !.series = @ \ {c}]
       IN  lib' \in {rest, [rest EXCEPT !.episodesOf = c.of]}

\* The rows of episodes stay in place while another one is opened
OpenEpisode ==
    /\ lib.view = "details" /\ lib.episodesOf # None /\ Cardinality(lib.details) < MaxDetails
    /\ lib' = Requested([lib EXCEPT !.selected = lib.episodesOf, !.switching = TRUE, !.loading = TRUE],
                        lib.episodesOf, "episode")

EpisodeAnswered(d) ==
    /\ d \in lib.details /\ d.by = "episode"
    /\ LET rest == [lib EXCEPT !.details = @ \ {d}]
           ended == [rest EXCEPT !.loading = FALSE, !.switching = FALSE]
       IN  lib' \in {ended, [ended EXCEPT !.selected = d.title]}

---------------------------------------------------------------------------
(* Search *)
clearServerSearchState(s) ==
    [s EXCEPT !.searches = {}, !.searchLoading = FALSE, !.term = None, !.next = 0,
              !.searchMore = FALSE, !.toSearch = FALSE, !.results = <<>>]

loadServerSearchResults(s) ==
    IF s.term = None \/ s.searchLoading \/ ~s.searchMore THEN s
    ELSE [s EXCEPT !.searches = {[term |-> s.term, page |-> s.next]},
                   !.searchLoading = TRUE]

\* The details hide the tool bar with the search
SearchMediaServer(term) ==
    /\ lib.view # "details"
    /\ lib' = loadServerSearchResults(
                 setCurrentView([lib EXCEPT !.searches = {}, !.searchLoading = FALSE, !.term = term,
                                            !.toSearch = FALSE, !.results = <<>>, !.next = 0, !.searchMore = TRUE],
                                "search"))

LoadMoreServerSearchResults ==
    /\ lib.view = "search" /\ lib.next < MaxResults
    /\ lib' = loadServerSearchResults(lib)

ClearServerSearch == lib.view = "search" /\ lib' = setCurrentView(clearServerSearchState(lib), "home")

OpenServerSearchItem(title) ==
    /\ lib.view = "search" /\ lib.results # <<>> /\ title \in Movies \union Shows
    /\ Cardinality(lib.details) < MaxDetails
    /\ lib' = openMediaItemDetails(lib, title, TRUE)

SearchAnswered(c) ==
    /\ c \in lib.searches
    /\ LET rest == [lib EXCEPT !.searches = @ \ {c}]
           ended == [rest EXCEPT !.searchLoading = FALSE]
       IN  IF c.term # lib.term THEN lib' = rest
           ELSE \/ lib' = [ended EXCEPT !.searchMore = FALSE]
                \/ \E full \in BOOLEAN :
                      lib' = [ended EXCEPT !.results = Append(@, [term |-> c.term, page |-> c.page]),
                                           !.next = c.page + 1, !.searchMore = full]

---------------------------------------------------------------------------
OpenSettings == lib.view # "settings" /\ lib' = setCurrentView(clearSeriesDetails(lib), "settings")

LeaveSettings == lib.view = "settings" /\ lib' = backToHome(lib)

Callback ==
    \/ \E p \in lib.pages : PageAnswered(p)
    \/ \E d \in lib.details : DetailAnswered(d) \/ EpisodeAnswered(d)
    \/ \E c \in lib.series : SeasonsAnswered(c) \/ EpisodesAnswered(c)
    \/ \E c \in lib.searches : SearchAnswered(c)

User ==
    \/ OpenLibrary \/ LoadMoreItems \/ MediaLibraryBack \/ MediaDetailsBack
    \/ \E row \in Folders \union Titles : OpenFolder(row) \/ OpenItem(row) \/ OpenContinueItem(row)
    \/ \E n \in Seasons : SelectSeason(n)
    \/ OpenEpisode
    \/ \E term \in Terms : SearchMediaServer(term)
    \/ LoadMoreServerSearchResults \/ ClearServerSearch
    \/ \E title \in Titles : OpenServerSearchItem(title)
    \/ OpenSettings \/ LeaveSettings

Next == Callback \/ User

Spec == Init /\ [][Next]_vars

---------------------------------------------------------------------------
(* Properties *)

\* The rows grow by the next page of the folder shown only.
RowsContinue ==
    Len(lib'.rows) > Len(lib.rows) =>
        LET shown == {i \in DOMAIN lib.rows : lib.rows[i].folder = lib.folder}
        IN  lib'.rows = Append(lib.rows, [folder |-> lib.folder, page |-> Cardinality(shown)])

\* A page that is appended is one of the folder shown by then, and continues the rows of that
\* folder without a gap, however often folders were entered and left while pages were on their
\* way (AppViewModel.cpp:9135-9148).
AppendsWhatIsNext == [][RowsContinue]_vars

\* The episodes shown are those of the selected season, and the season one of the series whose
\* seasons are shown, whichever answers come first (the counter shared by loadSeriesSeasons,
\* selectSeason and loadSeasonEpisodes).
EpisodesOfSeason ==
    /\ lib.episodesOf \in {None, lib.season}
    /\ lib.season # None => lib.season[1] = lib.seasonsOf

\* The mark that keeps the old episode on screen while another one loads is taken away by an
\* answer that is on its way, or was taken away with the series (AppViewModel.cpp:9163-9176).
SwitchingHasOwner == lib.switching => \E d \in lib.details : d.by = "episode"

\* The results are the pages of the active term, from the first one on and without a gap, and the
\* search is loading exactly while the latest request is out.
SearchHonest ==
    /\ lib.results = [i \in 1..lib.next |-> [term |-> lib.term, page |-> i - 1]]
    /\ lib.searchLoading <=> lib.searches # {}

\* What the pages of a library guarantee whichever answers come first: the episodes fit the season
\* and the series, the results fit the term, and no mark of a request outlives it
\* (AppViewModel.cpp:9019-9561).
LibraryInv == TypeOK /\ EpisodesOfSeason /\ SwitchingHasOwner /\ SearchHonest
=============================================================================
