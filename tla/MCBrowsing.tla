----------------------------- MODULE MCBrowsing -----------------------------
(***************************************************************************)
(* The way into a service (ServiceEntry) and the pages of a media server's *)
(* library (MediaLibrary).  Once a service is entered the two do not touch *)
(* each other's state, so a behaviour is one of them, as "part" says, and  *)
(* the other one rests.                                                    *)
(***************************************************************************)
EXTENDS ServiceEntry

CONSTANTS
    Folders, Root, Movies, Shows, Seasons, Resumable, Terms, MaxPages, MaxResults, MaxDepth, MaxDetails

VARIABLES part, lib
allVars == <<part, vars, lib>>

Browser == INSTANCE MediaLibrary

ASSUME BrowserAssumption == Browser!LibraryAssumption

PartsInit == part \in {"entry", "library"} /\ Init /\ Browser!Init

PartsNext ==
    \/ part = "entry" /\ Next /\ UNCHANGED <<part, lib>>
    \/ part = "library" /\ Browser!Next /\ UNCHANGED <<part, vars>>

PartsSpec == PartsInit /\ [][PartsNext]_allVars

\* What the pages of a library guarantee whichever answers come first: the episodes shown are those of
\* the season and the series (the counter shared by loadSeriesSeasons, selectSeason and
\* loadSeasonEpisodes), the results are those of the term, and no mark of a request outlives it
\* (AppViewModel.cpp:9019-9290).
LibraryInv == part = "library" => Browser!LibraryInv

\* A page that is appended is one of the folder shown by then, and continues the rows of that folder
\* without a gap, however often folders were entered and left while pages were on their way
\* (AppViewModel.cpp:9135-9148).
AppendsWhatIsNext == Browser!AppendsWhatIsNext
=============================================================================
