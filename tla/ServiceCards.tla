---------------------------- MODULE ServiceCards ----------------------------
(***************************************************************************)
(* The cards of the interface (AppViewModel.cpp, ServiceCardLoader.cpp) on *)
(* top of the saved services: the handlers that change a service, the      *)
(* reader that works in the background, and privacy mode.  Console         *)
(* commands change the same services and tell the interface nothing.       *)
(***************************************************************************)
EXTENDS ServiceStore

VARIABLES
    page,
    outside     \* history: something changed that no refresh of this interface follows
cardsVars == <<svars, page, outside>>

\* "all" is the list of the privacy page, "cards" the one of the services page.  "again" says that
\* the loader's generation moved since the read began, "read" is what the worker returned.
CardsOff == [on |-> FALSE, privacy |-> FALSE, cards |-> <<>>, all |-> <<>>, scheduled |-> FALSE,
        running |-> FALSE, again |-> FALSE, read |-> Nothing]

Card == [id: Service, private: BOOLEAN, session: BOOLEAN]

CardsTypeOK ==
    /\ StoreTypeOK
    /\ page.on \in BOOLEAN /\ page.privacy \in BOOLEAN /\ outside \in BOOLEAN
    /\ page.cards \in Seq(Card) /\ page.all \in Seq(Card)
    /\ page.running => ~page.scheduled
    /\ page.again => page.running

Ordinary(cards) == Subsequence(cards, {c \in Card : ~c.private})
Shown(cards, privacy) == IF privacy THEN cards ELSE Ordinary(cards)

\* The interface has started and shows what it read.
CardsInit ==
    /\ StoreInit
    /\ page = [CardsOff EXCEPT !.on = TRUE, !.cards = Ordinary(Content), !.all = Content]
    /\ outside = FALSE

\* ServiceCardLoader::refresh, after private cards are taken off the page.
refreshServiceCards(u) ==
    [u EXCEPT !.cards = Shown(u.cards, u.privacy), !.scheduled = ~u.running, !.again = u.running]

AskRefresh(p) ==
    /\ p = Gui /\ At(p, "refresh")
    /\ page' = refreshServiceCards(page)
    /\ op' = [op EXCEPT ![p] = Idle]
    /\ UNCHANGED <<store, used, left, crashes, lost, outside>>

(***************************************************************************)
(* The reader: one worker at a time, and what it returns is published only *)
(* when no refresh was asked for since it began.                           *)
(***************************************************************************)
\* The worker's query comes at any time after its start; a start that waits for it is the same.
LoaderStart ==
    /\ page.scheduled
    /\ \/ /\ page' = [page EXCEPT !.scheduled = FALSE, !.running = TRUE, !.read = [ok |-> TRUE, cards |-> Content]]
          /\ outside' = FALSE /\ op' = [op EXCEPT ![Gui].changed = FALSE]
       \/ /\ page' = [page EXCEPT !.scheduled = FALSE, !.running = TRUE, !.read = [ok |-> FALSE, cards |-> <<>>]]
          /\ UNCHANGED <<outside, op>>
    /\ UNCHANGED <<store, used, left, crashes, lost>>

\* MUTANT: what was read is published although a refresh was asked for since.
LoaderEndsOnce ==
    /\ page.running
    /\ page' = LET cards == page.read.cards
                 done == [page EXCEPT !.running = FALSE, !.read = Nothing, !.again = FALSE]
             IN IF ~page.read.ok THEN done
                ELSE [done EXCEPT !.cards = Shown(cards, page.privacy), !.all = cards]
    /\ outside' = (outside \/ ~page.read.ok)
    /\ UNCHANGED svars

LoaderEnds ==
    /\ page.running
    /\ LET cards == page.read.cards
           done == [page EXCEPT !.running = FALSE, !.read = Nothing, !.again = FALSE]
       IN CASE page.again -> page' = [done EXCEPT !.scheduled = TRUE] /\ UNCHANGED outside
            [] ~page.again /\ ~page.read.ok -> page' = done /\ outside' = TRUE
            [] OTHER -> /\ page' = [done EXCEPT !.cards = Shown(cards, page.privacy), !.all = cards]
                        /\ UNCHANGED outside
    /\ UNCHANGED svars

(***************************************************************************)
(* The handlers of the page; they run while no other handler waits for the *)
(* keyring, since the wait excludes the user's input.                      *)
(***************************************************************************)
Ids(cards) == {c.id : c \in Range(cards)}
\* What an earlier handler changed before it gave up stays unknown to the page.
Handle(old, new, steps, fields) ==
    /\ page.on /\ ~Working(Gui) /\ left > 0 /\ left' = left - 1
    /\ op' = [op EXCEPT ![Gui] = [fields EXCEPT !.old = old, !.new = new, !.steps = steps]]
    /\ outside' = (outside \/ op[Gui].changed)
    /\ UNCHANGED <<store, used, crashes, lost, page>>

initialize ==
    /\ ~page.on /\ left > 0 /\ left' = left - 1
    /\ op' = [op EXCEPT ![Gui] = [Idle EXCEPT !.steps = Start \o <<"refresh">>, !.changed = TRUE]]
    /\ page' = [CardsOff EXCEPT !.on = TRUE]
    /\ UNCHANGED <<store, used, crashes, lost, outside>>

\* Adding a service, or editing "old" into "new"; with a password a media server is asked to log in.
saveServiceCard ==
    \E new \in Service, old \in Ids(page.cards) \union {Nothing} :
      LET hideOld == IF old \in {Nothing, new} THEN <<>> ELSE <<"hideOld">>
          login == <<"login", "protect", "insert">> \o Collect
          hide == IF old = Nothing THEN page.privacy ELSE \E c \in Range(page.cards) : c.id = old /\ c.private
      IN \E steps \in {hideOld \o <<"save">>, <<"save">> \o hideOld} \union IF new \in MediaServer THEN {hideOld \o login} ELSE {} :
           /\ new \in MediaServer => Head(steps) # "save" \/ hideOld = <<>>
           /\ Handle(old, new, steps \o <<"refresh">>, [Idle EXCEPT !.hide = hide])

\* deleteLocalData = FALSE keeps the row and the session for a later return.
deleteServiceCard ==
    \E s \in Ids(page.cards) :
       \/ Handle(s, Nothing, <<"hide", "refresh">>, Idle)
       \/ Handle(s, Nothing, (IF s \in OtherService THEN <<"forget">> ELSE <<>>) \o <<"delete">> \o Collect \o <<"refresh">>, Idle)

moveServiceCard ==
    \E s \in Ids(page.cards) : Handle(s, Nothing, <<"look", "move", "refresh">>, [Idle EXCEPT !.all = page.privacy])

setPrivacyCardPrivate ==
    \E s \in Ids(page.all), hide \in BOOLEAN : Handle(s, Nothing, <<"mark", "refresh">>, [Idle EXCEPT !.hide = hide])

\* unlockPrivacyMode and exitPrivacyMode, whose other effects are in ScheduledPlayback.
togglePrivacyMode ==
    /\ page.on /\ ~Working(Gui) /\ left > 0 /\ left' = left - 1
    /\ page' = refreshServiceCards([page EXCEPT !.privacy = ~@])
    /\ UNCHANGED <<store, op, used, crashes, lost, outside>>

Handlers ==
    \/ initialize \/ saveServiceCard \/ deleteServiceCard \/ moveServiceCard \/ setPrivacyCardPrivate
    \/ togglePrivacyMode

Loader == LoaderStart \/ LoaderEnds

\* A step of a console command, which the interface does not see.
CommandStep(p) ==
    /\ p # Gui
    /\ \/ StoreStep(p)
       \/ Command(p)
       \/ Working(p) /\ Killed(p)
    /\ outside' = (outside \/ Content' # Content)
    /\ UNCHANGED page

GuiKilled ==
    /\ page.on /\ Killed(Gui)
    /\ page' = CardsOff /\ outside' = FALSE

CardsNext ==
    \/ Handlers \/ Loader \/ AskRefresh(Gui) \/ GuiKilled
    \/ StoreStep(Gui) /\ UNCHANGED <<page, outside>>
    \/ \E p \in Proc \ {Gui} : CommandStep(p)

CardsSpec == CardsInit /\ [][CardsNext]_cardsVars

(***************************************************************************)
(* Properties.                                                             *)
(***************************************************************************)
\* Outside privacy mode no card of the page is a private service's, whatever the reader was doing
\* when the mode was left.
OrdinaryPageHidesPrivate == ~page.privacy => \A c \in Range(page.cards) : ~c.private

\* When the reader rests and no handler is at work, the page shows what the database holds.  It may
\* not only after a change nobody tells the interface of: a console command, a read that failed, or a
\* handler that gave up after it had changed something (deleteServiceCard and saveServiceCard return
\* without a refresh then).
CardsCurrent ==
    page.on /\ ~page.scheduled /\ ~page.running /\ ~Working(Gui) /\ ~op[Gui].changed /\ ~outside
       => page.cards = Shown(Content, page.privacy)

\* What the page of services guarantees while its reader runs and the console changes the database:
\* it shows no private service in normal mode, and what it shows when all rests is the truth.
ServicesInv == CardsTypeOK /\ OrdinaryPageHidesPrivate /\ CardsCurrent
=============================================================================
