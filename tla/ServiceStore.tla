---------------------------- MODULE ServiceStore ----------------------------
(***************************************************************************)
(* The saved services and their sessions (SessionRepository.cpp,           *)
(* ServiceOperations.cpp, SessionTokenCipher.cpp): a database file and the *)
(* system's keyring, shared by the interface and by console commands.  A   *)
(* session's row holds only a reference to a secret of the keyring; the    *)
(* two have no common transaction, so references that may be unused are    *)
(* kept in a journal (session_credential_cleanup) that a collector works   *)
(* off.  Every process runs one operation at a time, as a program of       *)
(* steps: a step is one statement or transaction of the database, or one   *)
(* call of the keyring.                                                    *)
(***************************************************************************)
EXTENDS Naturals, Sequences, SequencesExt, FiniteSets, Subsequences

CONSTANTS
    Proc, Gui,          \* the processes; one of them is the interface
    MediaServer, OtherService,       \* services with sessions (Emby, Jellyfin), and the rest
    Saved,              \* the services saved at first, in their order
    Ref,                \* references: each is used once (bound)
    NoRef, Plain,       \* no session, and a token that an old version stored
    Nothing,
    MaxOps,             \* bound: operations started
    MaxCrashes          \* bound: processes killed

Service == MediaServer \union OtherService

StoreAssumption ==
    /\ Gui \in Proc /\ Saved \in Seq(Service)
    /\ \A i, j \in DOMAIN Saved : Saved[i] = Saved[j] => i = j
    /\ {NoRef, Plain} \cap Ref = {} /\ NoRef # Plain /\ Nothing \notin Service
    /\ MaxOps \in Nat /\ MaxCrashes \in Nat

VARIABLES
    list,       \* the services shown, by sort_order
    private,    \* those with private_mode = 1
    session,    \* sessions.access_token of each
    journal,    \* session_credential_cleanup
    keyring,    \* the secrets that exist, by reference
    op,         \* what each process does
    used, left, crashes,
    lost        \* history: secrets nothing but the keyring knows of

store == <<list, private, session, journal, keyring>>
svars == <<store, op, used, left, crashes, lost>>

(***************************************************************************)
(* "new" is the service that is saved and "old" the one that is removed,   *)
(* moved or edited; "ref" a reference whose commit is awaited, "fresh"     *)
(* those of old tokens; "todo" what the collector read; "hide" the         *)
(* private_mode to save and "all" whether private services are seen;       *)
(* "always" what follows an error too.  "changed" and "raced" are history: *)
(* rows were written that no page was told of, and a start journalled      *)
(* references between the collector's two queries.                         *)
(***************************************************************************)
Idle == [steps |-> <<>>, new |-> Nothing, old |-> Nothing, hide |-> FALSE, ref |-> NoRef,
         fresh |-> [s \in {} |-> NoRef], olds |-> {}, todo |-> {}, cards |-> <<>>, all |-> FALSE,
         always |-> <<>>, changed |-> FALSE, raced |-> FALSE]

Listed(all) == Subsequence(list, IF all THEN Service ELSE Service \ private)
Referenced == {session[s] : s \in Service} \cap Ref
InFlight(p) == ({op[p].ref} \union Range(op[p].fresh)) \cap Ref
Content == [i \in DOMAIN list |-> [id |-> list[i], private |-> list[i] \in private,
                                   session |-> session[list[i]] # NoRef]]

StoreTypeOK ==
    /\ list \in Seq(Service) /\ private \subseteq Service
    /\ session \in [Service -> Ref \union {NoRef, Plain}]
    /\ journal \subseteq Ref /\ keyring \subseteq Ref /\ used \subseteq Ref /\ lost \subseteq Ref
    /\ \A p \in Proc : op[p].new \in Service \union {Nothing} /\ op[p].old \in Service \union {Nothing}

StoreInit ==
    /\ list = Saved
    /\ private \in SUBSET Range(Saved)
    /\ session \in {f \in [Service -> {NoRef, Plain}] : \A s \in Service : f[s] = Plain => s \in Range(Saved) \cap MediaServer}
    /\ journal = {} /\ keyring = {} /\ used = {} /\ lost = {}
    /\ op = [p \in Proc |-> Idle]
    /\ left = MaxOps /\ crashes = 0

At(p, step) == op[p].steps # <<>> /\ Head(op[p].steps) = step
Working(p) == op[p].steps # <<>>

\* The next step of the program, with the fields this one leaves behind.
After(o) == IF Len(o.steps) = 1 THEN [Idle EXCEPT !.changed = o.changed] ELSE [o EXCEPT !.steps = Tail(@)]
Then(p, fields) == op' = [op EXCEPT ![p] = After(fields)]
\* The operation returns an error, and its caller goes on with what it always does.
Failed(o) == [Idle EXCEPT !.steps = o.always, !.changed = o.changed]
Fail(p) == op' = [op EXCEPT ![p] = Failed(op[p])]

\* The native call; one that times out may have been made, but reports an error.
execute(operation, r) == IF operation = "Write" THEN keyring \union {r} ELSE keyring \ {r}

Collect == <<"unlist", "select", "drain">>
\* initialize, which every writing command and the interface call first.
Start == <<"queue", "readOld">> \o Collect
Keep == UNCHANGED <<used, left, crashes, lost>>

\* MUTANT: the references in use stay in the journal.
UnlistNothing(p) ==
    /\ At(p, "unlist")
    /\ Then(p, [op[p] EXCEPT !.raced = FALSE])
    /\ UNCHANGED store /\ Keep

Unlist(p) ==
    /\ At(p, "unlist")
    /\ \/ journal' = journal \ Referenced /\ Then(p, [op[p] EXCEPT !.raced = FALSE])
       \/ UNCHANGED journal /\ Fail(p)
    /\ UNCHANGED <<list, private, session, keyring>> /\ Keep

Select(p) ==
    /\ At(p, "select")
    /\ \/ Then(p, [op[p] EXCEPT !.todo = journal])
       \/ Fail(p)
    /\ UNCHANGED store /\ Keep

RemoveSecret(p) ==
    /\ At(p, "drain") /\ op[p].ref = NoRef
    /\ \E r \in op[p].todo :
         \/ keyring' = execute("Remove", r) /\ op' = [op EXCEPT ![p].ref = r, ![p].todo = @ \ {r}]
         \/ keyring' \in {keyring, execute("Remove", r)} /\ Fail(p)
    /\ UNCHANGED <<list, private, session, journal>> /\ Keep

Strike(p) ==
    /\ At(p, "drain") /\ op[p].ref # NoRef
    /\ \/ journal' = journal \ {op[p].ref} /\ op' = [op EXCEPT ![p].ref = NoRef]
       \/ UNCHANGED journal /\ Fail(p)
    /\ UNCHANGED <<list, private, session, keyring>> /\ Keep

Drained(p) ==
    /\ At(p, "drain") /\ op[p].ref = NoRef /\ op[p].todo = {}
    /\ Then(p, op[p])
    /\ UNCHANGED store /\ Keep

collectUnusedSessionCredentials(p) == Unlist(p) \/ Select(p) \/ RemoveSecret(p) \/ Strike(p) \/ Drained(p)

(***************************************************************************)
(* A new reference is never journalled before its commit: another process  *)
(* could collect it.  When the commit fails, the secret is removed, and    *)
(* only if that fails too the reference goes to the journal.               *)
(***************************************************************************)
Discard(p) ==
    /\ At(p, "discard")
    /\ LET refs == InFlight(p)
       IN \E kept \in SUBSET refs : \E queued \in SUBSET kept :
            /\ keyring' = keyring \ (refs \ kept)
            /\ journal' = journal \union queued
            /\ lost' = lost \union (kept \ queued)
    /\ Fail(p)
    /\ UNCHANGED <<list, private, session, used, left, crashes>>

GiveUp(p) == op' = [op EXCEPT ![p].steps = <<"discard">>]

\* The trigger session_credential_update, and the one on DELETE.
ReplacedSecret(s) == {session[s]} \cap Ref

\* A start journals what is in use between the two queries of a collector.
Raced(ops, p) == [q \in Proc |-> IF q # p /\ ops[q].steps # <<>> /\ Head(ops[q].steps) = "select"
                                 THEN [ops[q] EXCEPT !.raced = TRUE] ELSE ops[q]]

(***************************************************************************)
(* initialize: every reference in use is queued before tables may be       *)
(* replaced, tokens an old version stored are moved to the keyring, and    *)
(* the collector runs.                                                     *)
(***************************************************************************)
initializeSessionTokenCleanup(p) ==
    /\ At(p, "queue")
    /\ \/ /\ journal' = journal \union Referenced
          /\ op' = Raced([op EXCEPT ![p] = After(@)], p)
       \/ UNCHANGED journal /\ Fail(p)
    /\ UNCHANGED <<list, private, session, keyring>> /\ Keep

ReadOldTokens(p) ==
    /\ At(p, "readOld")
    /\ LET olds == {s \in Service : session[s] = Plain}
       IN \/ IF olds = {} THEN Then(p, op[p])
             ELSE op' = [op EXCEPT ![p].olds = olds, ![p].steps = <<"protectOld", "replace">> \o Collect \o Tail(@)]
          \/ Fail(p)
    /\ UNCHANGED store /\ Keep

ProtectOldToken(p) ==
    /\ At(p, "protectOld")
    /\ LET o == op[p]
           ready == DOMAIN o.fresh
       IN \/ /\ ready = o.olds /\ Then(p, o)
             /\ UNCHANGED <<keyring, used, lost>>
          \/ \E s \in o.olds \ ready, r \in Ref \ used :
               /\ keyring' = execute("Write", r) /\ used' = used \union {r}
               /\ \/ /\ op' = [op EXCEPT ![p].fresh = [t \in ready \union {s} |-> IF t = s THEN r ELSE o.fresh[t]]]
                     /\ UNCHANGED lost
                  \/ GiveUp(p) /\ lost' = lost \union {r}
          \/ ready # o.olds /\ GiveUp(p) /\ UNCHANGED <<keyring, used, lost>>
    /\ UNCHANGED <<list, private, session, journal, left, crashes>>

\* Rows that another process wrote meanwhile keep what they hold.
ReplaceOldTokens(p) ==
    /\ At(p, "replace")
    /\ LET fresh == op[p].fresh
       IN \/ /\ journal' = journal \union Range(fresh)
             /\ session' = [s \in Service |-> IF s \in DOMAIN fresh /\ session[s] = Plain THEN fresh[s] ELSE session[s]]
             /\ op' = Raced([op EXCEPT ![p] = After([@ EXCEPT !.fresh = Idle.fresh, !.olds = {}])], p)
          \/ GiveUp(p) /\ UNCHANGED <<journal, session>>
    /\ UNCHANGED <<list, private, keyring>> /\ Keep

protectLegacySessionTokens(p) == ReadOldTokens(p) \/ ProtectOldToken(p) \/ ReplaceOldTokens(p)

(***************************************************************************)
(* The rows of services.  A service that returns keeps its old number and  *)
(* may stand anywhere; a new one comes last.                               *)
(***************************************************************************)
Upserted(s) == IF s \in Range(list) THEN {list} ELSE {InsertAt(list, i, s) : i \in 1 .. Len(list) + 1}

SaveRow(p, s) ==
    /\ list' \in Upserted(s)
    /\ private' = IF op[p].hide THEN private \union {s} ELSE private \ {s}

saveServer(p) ==
    /\ At(p, "save")
    /\ \/ SaveRow(p, op[p].new) /\ Then(p, [op[p] EXCEPT !.changed = TRUE])
       \/ Fail(p) /\ UNCHANGED <<list, private>>
    /\ UNCHANGED <<session, journal, keyring>> /\ Keep

ProtectToken(p) ==
    /\ At(p, "protect")
    /\ \/ \E r \in Ref \ used :
            /\ keyring' = execute("Write", r) /\ used' = used \union {r}
            /\ \/ Then(p, [op[p] EXCEPT !.ref = r]) /\ UNCHANGED lost
               \/ Fail(p) /\ lost' = lost \union {r}
       \/ Fail(p) /\ UNCHANGED <<keyring, used, lost>>
    /\ UNCHANGED <<list, private, session, journal, left, crashes>>

InsertSession(p) ==
    /\ At(p, "insert")
    /\ LET s == op[p].new
       IN \/ /\ SaveRow(p, s)
             /\ journal' = journal \union ReplacedSecret(s)
             /\ session' = [session EXCEPT ![s] = op[p].ref]
             /\ Then(p, [op[p] EXCEPT !.ref = NoRef, !.changed = TRUE])
          \/ GiveUp(p) /\ UNCHANGED <<list, private, journal, session>>
    /\ UNCHANGED keyring /\ Keep

saveSession(p) == ProtectToken(p) \/ InsertSession(p)

clearServerSession(p) ==
    /\ At(p, "clear")
    /\ LET s == op[p].old
       IN \/ /\ journal' = journal \union ReplacedSecret(s)
             /\ session' = [session EXCEPT ![s] = NoRef]
             /\ Then(p, [op[p] EXCEPT !.changed = TRUE])
          \/ Fail(p) /\ UNCHANGED <<journal, session>>
    /\ UNCHANGED <<list, private, keyring>> /\ Keep

\* deleteServer with its data, and without: then the row is only disabled.
DeleteRows(p) ==
    /\ At(p, "delete")
    /\ LET s == op[p].old
       IN \/ /\ list' = Subsequence(list, Service \ {s}) /\ private' = private \ {s}
             /\ journal' = journal \union ReplacedSecret(s)
             /\ session' = [session EXCEPT ![s] = NoRef]
             /\ Then(p, [op[p] EXCEPT !.changed = TRUE])
          \/ Fail(p) /\ UNCHANGED <<list, private, journal, session>>
    /\ UNCHANGED keyring /\ Keep

HideRow(p) ==
    /\ At(p, "hide") \/ At(p, "hideOld")
    /\ \/ /\ list' = Subsequence(list, Service \ {op[p].old})
          /\ Then(p, [op[p] EXCEPT !.changed = TRUE])
       \/ /\ UNCHANGED list
          /\ IF At(p, "hideOld") THEN Then(p, op[p]) ELSE Fail(p)
    /\ UNCHANGED <<private, session, journal, keyring>> /\ Keep

deleteServer(p) == DeleteRows(p) \/ HideRow(p)

setServerPrivateMode(p) ==
    /\ At(p, "mark")
    /\ LET s == op[p].old
       IN \/ /\ private' = IF s \notin Range(list) THEN private
                           ELSE IF op[p].hide THEN private \union {s} ELSE private \ {s}
             /\ Then(p, [op[p] EXCEPT !.changed = TRUE])
          \/ Fail(p) /\ UNCHANGED private
    /\ UNCHANGED <<list, session, journal, keyring>> /\ Keep

(***************************************************************************)
(* Moving a card.  The cards one sees are read and reordered; inside the   *)
(* transaction the whole list is read again and what one sees is put into  *)
(* the places it had, so the others stay where they are.                   *)
(***************************************************************************)
Look(p) ==
    /\ At(p, "look")
    /\ LET seen == Listed(op[p].all)
           rest == Subsequence(seen, Service \ {op[p].old})
       IN \/ /\ op[p].old \in Range(seen)
             /\ \E i \in 1 .. Len(seen) : Then(p, [op[p] EXCEPT !.cards = InsertAt(rest, i, op[p].old)])
          \/ op[p].old \notin Range(seen) /\ op' = [op EXCEPT ![p] = After(After(@))]
          \/ Fail(p)
    /\ UNCHANGED store /\ Keep

\* The place of list[i] among the visible ones.
Slot(i, all) == Cardinality({j \in 1 .. i : all \/ list[j] \notin private})

\* MUTANT: the list read inside the transaction is not compared with the other.
ReorderUnchecked(p) ==
    /\ At(p, "move")
    /\ list' = op[p].cards \o Subsequence(list, Service \ Range(op[p].cards))
    /\ Then(p, [op[p] EXCEPT !.changed = TRUE])
    /\ UNCHANGED <<private, session, journal, keyring>> /\ Keep

Reorder(p) ==
    /\ At(p, "move")
    /\ LET all == op[p].all
           cards == op[p].cards
       IN \/ /\ Range(Listed(all)) = Range(cards)
             /\ list' = [i \in DOMAIN list |-> IF all \/ list[i] \notin private THEN cards[Slot(i, all)] ELSE list[i]]
             /\ Then(p, [op[p] EXCEPT !.changed = TRUE])
          \/ Fail(p) /\ UNCHANGED list
    /\ UNCHANGED <<private, session, journal, keyring>> /\ Keep

moveServerTo(p) == Look(p) \/ Reorder(p)

\* deletePassword may fail; passwords themselves are not modelled.
deletePassword(p) ==
    /\ At(p, "forget")
    /\ Then(p, op[p]) \/ Fail(p)
    /\ UNCHANGED store /\ Keep

(***************************************************************************)
(* Console commands (CliEngine.cpp): the service a command names must be   *)
(* shown, one that it creates must not be; both are read before anything   *)
(* is written.                                                             *)
(***************************************************************************)
Resolve(p) ==
    /\ At(p, "resolve")
    /\ LET s == op[p].old
       IN \/ s \in Range(list) /\ Then(p, [op[p] EXCEPT !.hide = s \in private, !.all = s \in private])
          \/ Fail(p)
    /\ UNCHANGED store /\ Keep

NotTaken(p) ==
    /\ At(p, "free")
    /\ IF op[p].new \in Range(list) /\ op[p].new # op[p].old THEN Fail(p)
       ELSE \E hide \in BOOLEAN : Then(p, [op[p] EXCEPT !.hide = hide])
    /\ UNCHANGED store /\ Keep

\* The server's answer; the interface refreshes its cards whether the session can be saved or not.
Answered(p) ==
    /\ At(p, "login")
    /\ \/ Then(p, [op[p] EXCEPT !.always = IF p = Gui THEN <<"refresh">> ELSE <<>>])
       \/ Fail(p)
    /\ UNCHANGED store /\ Keep

\* ServiceOperations::remove with its defaults.
RemoveService == <<"forget", "clear">> \o Collect \o <<"hide">>

Begin(p, old, new, steps) ==
    /\ ~Working(p) /\ left > 0 /\ left' = left - 1
    /\ op' = [op EXCEPT ![p] = [Idle EXCEPT !.old = old, !.new = new, !.steps = steps]]
    /\ UNCHANGED <<store, used, crashes, lost>>

Command(p) ==
    /\ p # Gui
    /\ \E s \in Service :
         \/ Begin(p, Nothing, s, Start \o <<"free", "save">>)
         \/ \E t \in Service : Begin(p, s, t, Start \o <<"resolve", "free", "save">> \o (IF s = t THEN <<>> ELSE RemoveService))
         \/ Begin(p, s, Nothing, Start \o <<"resolve", "look", "move">>)
         \/ Begin(p, s, Nothing, Start \o <<"resolve", "forget", "clear">> \o Collect)
         \/ Begin(p, s, Nothing, Start \o <<"resolve">> \o RemoveService)
         \/ s \in MediaServer /\ Begin(p, s, s, Start \o <<"resolve", "login", "protect", "insert">> \o Collect)

\* A process is killed: a secret that nothing refers to is nobody's any more.
Killed(p) ==
    /\ crashes < MaxCrashes /\ crashes' = crashes + 1
    /\ lost' = lost \union ((InFlight(p) \cap keyring) \ (Referenced \union journal))
    /\ op' = [op EXCEPT ![p] = Idle]
    /\ UNCHANGED <<store, used, left>>

StoreStep(p) ==
    \/ initializeSessionTokenCleanup(p) \/ protectLegacySessionTokens(p)
    \/ collectUnusedSessionCredentials(p) \/ Discard(p)
    \/ saveServer(p) \/ saveSession(p) \/ clearServerSession(p) \/ deleteServer(p)
    \/ setServerPrivateMode(p) \/ moveServerTo(p) \/ deletePassword(p)
    \/ Resolve(p) \/ NotTaken(p) \/ Answered(p)

(***************************************************************************)
(* Properties.                                                             *)
(***************************************************************************)
\* A secret of the keyring is used by a session, queued for removal or held by an operation that
\* has not committed: removing it is never forgotten.  The exceptions are those the code accepts: a
\* process killed between the keyring and the commit, a journal that could not be written, and a write
\* that was made after it timed out.
SecretsAccounted ==
    keyring \subseteq Referenced \union journal \union lost \union UNION {InFlight(p) : p \in Proc}

\* A session loses its secret, and the user has to log in again, only in the one window the collector
\* leaves open: a process that starts journals what is in use between the collector's two queries.
LosesOnlyToAStart ==
    \A s \in Service : session[s] \in keyring /\ session'[s] = session[s] =>
        \/ session[s] \in keyring'
        \/ \E p \in Proc : op[p].raced

KeepsSecrets == SecretsAccounted' /\ LosesOnlyToAStart

\* After every step a secret of the keyring is used by a session, queued for removal or held by an
\* operation that has not committed, so removing it is never forgotten; the exceptions are those the code accepts
\* (SessionRepository.cpp:396-400, 2516-2580).  And none is removed under a session, but by a collector
\* between whose two queries another process started (SessionRepository.cpp:2547-2575).
SecretsKept == [][KeepsSecrets]_svars

\* What the documents promise: a secret that the database refers to is not removed.
ReferencedSecretsStay ==
    [][\A s \in Service : session[s] \in keyring /\ session'[s] = session[s] => session[s] \in keyring']_svars

\* A move by someone who does not see private services leaves each of them in its place,
\* although another process may add, hide and mark services meanwhile.
MovesKeepPrivatePlaces ==
    [][\A p \in Proc : At(p, "move") /\ ~At(p, "move")' /\ ~op[p].all /\ list' # list =>
         /\ Len(list') = Len(list)
         /\ \A i \in DOMAIN list : list[i] \in private => list'[i] = list[i]]_svars
=============================================================================
