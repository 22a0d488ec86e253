---------------------------- MODULE PlaybackProxy ----------------------------
(***************************************************************************)
(* EncryptedHlsPlaybackProxy: the HTTP server on the loopback interface    *)
(* that serves an encrypted HLS package, decrypted, to the player and to   *)
(* the restorer, and the queue that reads the identifiers of the packages  *)
(* a WebDAV folder lists.                                                  *)
(*                                                                         *)
(* All of it runs on the interface's thread, in callbacks of sockets,      *)
(* replies, timers and workers: between a request and its answer the       *)
(* client may go away, the session may be revoked and the package may be   *)
(* replaced on the server. Contents are abstracted to the revision of the  *)
(* package they belong to: a digest, or the tag of AES-GCM, matches when   *)
(* the revision does.                                                      *)
(***************************************************************************)
EXTENDS Naturals, Sequences, FiniteSets

CONSTANTS
    Sess,            \* the sessions prepareStream may make
    Sockets,         \* the connections of the local server
    MaxPreviews,     \* bound: the calls of resolveIdentifierPreview
    Urls,            \* the packages of a folder
    MaxChanges,      \* bound: how often a package is replaced on the server
    MaxJobs,         \* maximumConcurrentPreviewJobs
    MaxRetries,      \* maximumPreviewRetries
    CacheMax         \* previewCacheMaxEntries

ASSUME ProxyAssumption ==
    /\ MaxPreviews \in Nat /\ MaxJobs \in Nat \ {0} /\ MaxRetries \in Nat /\ CacheMax \in Nat \ {0}
    /\ MaxChanges \in Nat /\ IsFiniteSet(Urls)

Previews == 1..MaxPreviews    \* in the order of the calls
Kinds == {"container", "folder", "local"}
Whats == {"manifest", "segment", "resource", "absent"}

VARIABLES
    remote,      \* the revision of the package that can be read now
    session,     \* "none", "index", "manifest", "live" or "gone"
    kind, etag,  \* of a session: its source, and the revision of its index
    package,     \* the revision its keys and digests are for
    told,        \* streamFailed was emitted for these sessions
    conn,        \* "none", "header", "request", "writing" or "closed"
    job,         \* what is under way for a connection: "none", "fetch", "decrypt"
    owner, what, \* of a connection: its session and what was requested
    got,         \* the revision that was fetched
    answers,     \* the responses written on a connection
    body,        \* the revision of the content of the response
    plain,       \* the connections whose decrypted bytes are in memory
    pv,          \* "none", "hit", "queued", "active", "backoff" or "answered"
    asked,       \* of a preview: its package and the revision of the listing
    attempt, shown,
    previewQueue, activePreviewJobs,
    previewCache \* the revision the cached preview of a package is of, or none

sessions == <<remote, session, kind, etag, package, told>>
sockets == <<conn, job, owner, what, got, answers, body, plain>>
previews == <<pv, asked, attempt, shown, previewQueue, activePreviewJobs, previewCache>>
proxyVars == <<sessions, sockets, previews>>

NoRevision == MaxChanges + 1
Uncached == 0
None == <<>>

ProxyInit ==
    /\ remote = 0
    /\ session = [s \in Sess |-> "none"] /\ kind = [s \in Sess |-> "folder"]
    /\ etag = [s \in Sess |-> NoRevision] /\ package = [s \in Sess |-> NoRevision]
    /\ told = {}
    /\ conn = [c \in Sockets |-> "none"] /\ job = [c \in Sockets |-> "none"]
    /\ owner \in [Sockets -> Sess] /\ what = [c \in Sockets |-> "nothing"]
    /\ got = [c \in Sockets |-> NoRevision] /\ body = [c \in Sockets |-> NoRevision]
    /\ answers = [c \in Sockets |-> 0] /\ plain = {}
    /\ pv = [p \in Previews |-> "none"] /\ attempt = [p \in Previews |-> 0]
    /\ asked = [p \in Previews |-> None]
    /\ shown = [p \in Previews |-> Uncached]
    /\ previewQueue = <<>> /\ activePreviewJobs = 0
    /\ previewCache = [u \in Urls |-> Uncached]

\* The package is replaced where it is stored.
Replaced ==
    /\ remote < MaxChanges /\ remote' = remote + 1
    /\ UNCHANGED <<session, kind, etag, package, told, sockets, previews>>

-----------------------------------------------------------------------------
(* Sessions *)

\* prepareStream, prepareLocalStream
PrepareStream(s) ==
    /\ session[s] = "none"
    /\ \E k \in Kinds :
        /\ kind' = [kind EXCEPT ![s] = k]
        /\ session' = [session EXCEPT ![s] = IF k = "container" THEN "index" ELSE "manifest"]
    /\ UNCHANGED <<remote, etag, package, told, sockets, previews>>

\* EncryptedHlsTarContainer::readIndexPrefix, readIndex
readIndexPrefix == {TRUE, FALSE}

\* The callback of the first range: the index, and the ETag it is of; or an error.
IndexRead(s) ==
    /\ session[s] = "index"
    /\ \E read \in readIndexPrefix :
        /\ session' = [session EXCEPT ![s] = IF read THEN "manifest" ELSE "gone"]
        /\ etag' = IF read THEN [etag EXCEPT ![s] = remote] ELSE etag
    /\ UNCHANGED <<remote, kind, package, told, sockets, previews>>

\* What can be read of a package, or nothing: of a remote container only what
\* If-Match lets through.
fetchRemoteRange(s) == {remote, NoRevision} \cap {etag[s], NoRevision}
fetchRemoteBytes == {remote, NoRevision}
readBoundedLocalFile == {remote, NoRevision}

fetchSessionBytes(s) ==
    CASE kind[s] = "container" -> fetchRemoteRange(s)
      [] kind[s] = "folder" -> fetchRemoteBytes
      [] kind[s] = "local" -> readBoundedLocalFile

\* TsslStore: the package that has the digest of a manifest, if there is one.
packageForRootDigest(revision) == {revision, NoRevision}

\* resolvePackageBytes: none either when identifiers or names do not match.
resolvePackageBytes(revision) == packageForRootDigest(revision) \cup {NoRevision}

\* finishPreparingStream; resolveRootDigest revokes the session at once.
FinishPreparingStream(s, revision) ==
    /\ package' = [package EXCEPT ![s] = revision]
    /\ \E how \in {"live", "gone"} : session' = [session EXCEPT ![s] = how]

ManifestRead(s) ==
    /\ session[s] = "manifest"
    /\ \E manifest \in fetchSessionBytes(s) : \E revision \in resolvePackageBytes(manifest) :
        IF revision # NoRevision THEN FinishPreparingStream(s, revision)
        ELSE session' = [session EXCEPT ![s] = "gone"] /\ UNCHANGED package
    /\ UNCHANGED <<remote, kind, etag, told, sockets, previews>>

Live(s) == session[s] = "live"

Connected(c) == conn[c] \in {"header", "request", "writing"}

\* revoke: the connections it aborts.
AbortedBy(s) == {c \in Sockets : Connected(c) /\ owner[c] = s /\ conn[c] # "header"}

\* A reply is aborted with its connection; workers go on.
JobAfterAbort(c) ==
    IF job[c] = "fetch" /\ kind[owner[c]] # "local" THEN "none" ELSE job[c]

CloseAll(cs) ==
    /\ conn' = [c \in Sockets |-> IF c \in cs THEN "closed" ELSE conn[c]]
    /\ job' = [c \in Sockets |-> IF c \in cs THEN JobAfterAbort(c) ELSE job[c]]
    /\ plain' = {c \in plain : c \notin cs \/ job[c] = "decrypt"}

\* revoke: the keys are wiped and the session is erased first, so that the
\* callbacks of the aborted replies find none.
Revoke(s) ==
    /\ Live(s)
    /\ session' = [session EXCEPT ![s] = "gone"]
    /\ CloseAll(AbortedBy(s))
    /\ UNCHANGED <<remote, kind, etag, package, told, owner, what, got, answers, body, previews>>

-----------------------------------------------------------------------------
(* Connections *)

Connect(c) ==
    /\ conn[c] = "none" /\ conn' = [conn EXCEPT ![c] = "header"]
    /\ UNCHANGED <<sessions, job, owner, what, got, answers, body, plain, previews>>

Respond(c) == answers' = [answers EXCEPT ![c] = @ + 1]

\* writeError
WriteError(c) ==
    /\ Respond(c) /\ conn' = [conn EXCEPT ![c] = "closed"]
    /\ job' = [job EXCEPT ![c] = "none"]

\* MUTANT: an error is answered, and nobody hears of it.
RefusedUntold(c) == WriteError(c) /\ UNCHANGED told

\* streamFailed, then the error.
Refused(c) == WriteError(c) /\ told' = told \cup {owner[c]}

\* writeVerifiedBytes: the writer keeps the contents until the client has taken
\* them; HEAD and an unsatisfiable range need none.
WriteVerifiedBytes(c, revision, sensitive) ==
    /\ Respond(c) /\ job' = [job EXCEPT ![c] = "none"]
    /\ body' = [body EXCEPT ![c] = revision]
    /\ \/ /\ conn' = [conn EXCEPT ![c] = "writing"]
          /\ plain' = IF sensitive THEN plain \cup {c} ELSE plain
       \/ conn' = [conn EXCEPT ![c] = "closed"] /\ plain' = plain \ {c}

\* MUTANT: the timer runs on after the header is complete.
HeaderMissingOrNot(c) == conn[c] \in {"header", "request"}

HeaderMissing(c) == conn[c] = "header"

\* The header's deadline, after 15 s.
Deadline(c) ==
    /\ HeaderMissing(c) /\ Respond(c)
    /\ conn' = [conn EXCEPT ![c] = IF @ = "header" THEN "closed" ELSE @]
    /\ UNCHANGED <<sessions, job, owner, what, got, body, plain, previews>>

\* handleRequest: 400, 404, 405, 431.
BadRequest(c) ==
    /\ conn[c] = "header" /\ WriteError(c)
    /\ UNCHANGED <<sessions, owner, what, got, body, plain, previews>>

\* handleRequest, for a session that is live.
HandleRequest(c, s) ==
    /\ conn[c] = "header" /\ Live(s) /\ owner[c] = s
    /\ UNCHANGED <<remote, session, kind, etag, package, owner, got, previews>>
    /\ \/ WriteVerifiedBytes(c, package[s], FALSE) /\ UNCHANGED <<told, what>>   \* the root manifest
       \/ /\ Refused(c) /\ what' = [what EXCEPT ![c] = "absent"]     \* or unsafe
          /\ UNCHANGED <<body, plain>>
       \/ /\ conn' = [conn EXCEPT ![c] = "request"] /\ job' = [job EXCEPT ![c] = "fetch"]
          /\ \E w \in Whats \ {"absent"} : what' = [what EXCEPT ![c] = w]
          /\ UNCHANGED <<told, answers, body, plain>>

\* The guards of the callbacks of serveManifest, serveSegment and serveResource.
StillWanted(c) == conn[c] = "request" /\ Live(owner[c])

\* The digest that TSSL has, or the tag of AES-GCM.
Verified(c, revision) == revision = package[owner[c]]

\* HlsManifestValidator::validate, for what the digest says is the manifest.
validate == {TRUE, FALSE}

\* The callback of fetchSessionBytes, for what is served as it was read.
PartFetched(c, acceptable) ==
    /\ job[c] = "fetch"
    /\ IF ~StillWanted(c)
       THEN job' = [job EXCEPT ![c] = "none"] /\ UNCHANGED <<told, conn, answers, body, plain>>
       ELSE \E revision \in fetchSessionBytes(owner[c]), ok \in acceptable :
              IF ok /\ Verified(c, revision)
              THEN WriteVerifiedBytes(c, revision, FALSE) /\ UNCHANGED told
              ELSE Refused(c) /\ UNCHANGED <<body, plain>>
    /\ UNCHANGED <<remote, session, kind, etag, package, owner, what, got, previews>>

\* serveManifest
ManifestFetched(c) == what[c] = "manifest" /\ PartFetched(c, validate)

\* serveResource
ResourceFetched(c) == what[c] = "resource" /\ PartFetched(c, {TRUE})

\* serveSegment: what was fetched goes to a worker.
SegmentFetched(c) ==
    /\ job[c] = "fetch" /\ what[c] = "segment"
    /\ IF ~StillWanted(c)
       THEN job' = [job EXCEPT ![c] = "none"] /\ UNCHANGED <<told, conn, answers, got>>
       ELSE \E revision \in fetchSessionBytes(owner[c]) :
              IF revision # NoRevision
              THEN /\ job' = [job EXCEPT ![c] = "decrypt"]
                   /\ got' = [got EXCEPT ![c] = revision]
                   /\ UNCHANGED <<told, conn, answers>>
              ELSE Refused(c) /\ UNCHANGED got
    /\ UNCHANGED <<remote, session, kind, etag, package, owner, what, body, plain, previews>>

\* decryptTsSegmentInPlace: what the worker comes back with.
decryptTsSegment(c) == IF Verified(c, got[c]) THEN {TRUE, FALSE} ELSE {FALSE}

\* MUTANT: the bytes of a client that is gone are forgotten, not wiped.
Forgotten(c) == plain' = plain \cup {c}

\* Nobody wants the plaintext: it is wiped.
Wiped(c) == plain' = plain \ {c}

\* serveSegment: the worker's watcher.
Decrypted(c) ==
    /\ job[c] = "decrypt"
    /\ \E ok \in decryptTsSegment(c) :
        IF StillWanted(c)
        THEN IF ok THEN WriteVerifiedBytes(c, got[c], TRUE) /\ UNCHANGED told
             ELSE Refused(c) /\ UNCHANGED <<body, plain>>
        ELSE /\ job' = [job EXCEPT ![c] = "none"] /\ Wiped(c)
             /\ UNCHANGED <<told, conn, answers, body>>
    /\ UNCHANGED <<remote, session, kind, etag, package, owner, what, got, previews>>

\* VerifiedResponseWriter::pump: the last chunk went to the socket's queue.
Written(c) ==
    /\ conn[c] = "writing" /\ conn' = [conn EXCEPT ![c] = "closed"]
    /\ plain' = plain \ {c}
    /\ UNCHANGED <<sessions, job, owner, what, got, answers, body, previews>>

\* The client goes away. The reply's error comes before the socket is deleted,
\* and serveManifest and serveResource take it for a part that is missing.
Disconnect(c) ==
    /\ Connected(c) /\ CloseAll({c})
    /\ told' = IF job[c] = "fetch" /\ job'[c] = "none" /\ what[c] # "segment" /\ Live(owner[c])
               THEN told \cup {owner[c]} ELSE told
    /\ UNCHANGED <<remote, session, kind, etag, package, owner, what, got, answers, body, previews>>

-----------------------------------------------------------------------------
(* Previews *)

PackageUrl(p) == asked[p][1]
Revision(p) == asked[p][2]

\* MUTANT: a cached preview is used whatever the revision of the listing.
CachedAnyRevision(u, revision) == previewCache[u] # Uncached

\* cachedPreviewResult
Cached(u, revision) == previewCache[u] = revision

\* startNextPreviewJobs: what is started when this queue and this many jobs are there.
Started(queue, active) ==
    LET n == IF Len(queue) < MaxJobs - active THEN Len(queue) ELSE MaxJobs - active
    IN SubSeq(queue, 1, n)

StartNextPreviewJobs(states, queue, active) ==
    LET now == Started(queue, active)
        ids == {now[i] : i \in 1..Len(now)}
    IN /\ pv' = [p \in Previews |-> IF p \in ids THEN "active" ELSE states[p]]
       /\ previewQueue' = SubSeq(queue, Len(now) + 1, Len(queue))
       /\ activePreviewJobs' = active + Len(now)

\* resolveIdentifierPreview, with the revision the listing gave; a server that
\* gives none is as one whose previews are never in the cache.
ResolveIdentifierPreview(p, u) ==
    /\ pv[p] = "none" /\ \A q \in 1..p - 1 : pv[q] # "none"
    /\ asked' = [asked EXCEPT ![p] = <<u, remote + 1>>]
    /\ IF Cached(u, remote + 1)
       THEN /\ pv' = [pv EXCEPT ![p] = "hit"]
            /\ shown' = [shown EXCEPT ![p] = previewCache[u]]
            /\ UNCHANGED <<previewQueue, activePreviewJobs>>
       ELSE /\ StartNextPreviewJobs([pv EXCEPT ![p] = "queued"], Append(previewQueue, p),
                                    activePreviewJobs)
            /\ UNCHANGED shown
    /\ UNCHANGED <<sessions, sockets, attempt, previewCache>>

\* The timer that delivers a cached preview.
HitDelivered(p) ==
    /\ pv[p] = "hit" /\ pv' = [pv EXCEPT ![p] = "answered"]
    /\ UNCHANGED <<sessions, sockets, asked, attempt, shown, previewQueue, activePreviewJobs, previewCache>>

\* runPreviewJob: the slot is kept over the backoff.
SlotsOverBackoff == activePreviewJobs

\* runPreviewJob: a failure that may pass is tried again later.
Backoff(p) ==
    /\ attempt[p] < MaxRetries
    /\ attempt' = [attempt EXCEPT ![p] = @ + 1]
    /\ StartNextPreviewJobs([pv EXCEPT ![p] = "backoff"], previewQueue, SlotsOverBackoff)
    /\ UNCHANGED <<shown, previewCache>>

\* cachePreviewResult: a full cache is emptied first.
CachePreviewResult(p) ==
    LET full == Cardinality({u \in Urls : previewCache[u] # Uncached}) >= CacheMax
        kept == IF full THEN [u \in Urls |-> Uncached] ELSE previewCache
    IN [kept EXCEPT ![PackageUrl(p)] = Revision(p)]

\* The head of a manifest tells its identifier, or is not enough for it.
parseMetadataHead == {"read", "unknown"}

\* extractM3u8sIdentifier: what is wrong with a whole manifest stays wrong.
extractM3u8sIdentifier == {"read", "permanent"}

\* isTransientPreviewError, of an error of the network.
isTransientPreviewError == {"transient", "permanent"}

\* The whole manifest is read when its head is not enough.
resolvePreviewFromFullManifest ==
    (parseMetadataHead \ {"unknown"}) \cup extractM3u8sIdentifier \cup isTransientPreviewError

\* The index of a container, then the head of its manifest.
resolvePreviewFromContainerHead ==
    {IF how = "unknown" THEN "permanent" ELSE how : how \in parseMetadataHead}
        \cup isTransientPreviewError

\* runPreviewJob: finish
PreviewEnds(p) ==
    /\ pv[p] = "active"
    /\ UNCHANGED <<sessions, sockets, asked>>
    /\ \E how \in resolvePreviewFromFullManifest \cup resolvePreviewFromContainerHead :
        IF how = "transient" /\ attempt[p] < MaxRetries THEN Backoff(p)
        ELSE /\ previewCache' = IF how = "read" THEN CachePreviewResult(p)
                                ELSE [previewCache EXCEPT ![PackageUrl(p)] = Uncached]
             /\ shown' = [shown EXCEPT ![p] = IF how = "read" THEN Revision(p) ELSE Uncached]
             /\ StartNextPreviewJobs([pv EXCEPT ![p] = "answered"], previewQueue,
                                     activePreviewJobs - 1)
             /\ UNCHANGED attempt

\* MUTANT: a retry waits for a slot, and holds one.
RetryIfSlotFree(p) == pv[p] = "backoff" /\ activePreviewJobs < MaxJobs

RetryDue(p) == pv[p] = "backoff"

\* runPreviewJob: the timer of the backoff.
PreviewRetried(p) ==
    /\ RetryDue(p) /\ pv' = [pv EXCEPT ![p] = "active"]
    /\ UNCHANGED <<sessions, sockets, asked, attempt, shown, previewQueue, activePreviewJobs, previewCache>>

\* A cached preview is older than five minutes.
Expires(u) ==
    /\ previewCache[u] # Uncached
    /\ previewCache' = [previewCache EXCEPT ![u] = Uncached]
    /\ UNCHANGED <<sessions, sockets, pv, asked, attempt, shown, previewQueue, activePreviewJobs>>

-----------------------------------------------------------------------------
ProxyNext ==
    \/ Replaced
    \/ \E s \in Sess : PrepareStream(s) \/ IndexRead(s) \/ ManifestRead(s) \/ Revoke(s)
    \/ \E c \in Sockets :
        \/ Connect(c) \/ Deadline(c) \/ BadRequest(c) \/ ManifestFetched(c)
        \/ ResourceFetched(c) \/ SegmentFetched(c)
        \/ Decrypted(c) \/ Written(c) \/ Disconnect(c)
        \/ \E s \in Sess : HandleRequest(c, s)
    \/ \E p \in Previews :
        (\E u \in Urls : ResolveIdentifierPreview(p, u)) \/ HitDelivered(p) \/ PreviewEnds(p) \/ PreviewRetried(p)
    \/ \E u \in Urls : Expires(u)

ProxySpec == ProxyInit /\ [][ProxyNext]_proxyVars

\* Replies, workers and timers come back: a reply is aborted 30 s after its last
\* byte, and after 15 minutes. Nothing is assumed of the clients.
Fairness ==
    /\ \A c \in Sockets : /\ WF_proxyVars(Deadline(c)) /\ WF_proxyVars(ManifestFetched(c))
                          /\ WF_proxyVars(ResourceFetched(c)) /\ WF_proxyVars(SegmentFetched(c))
                          /\ WF_proxyVars(Decrypted(c))
    /\ \A p \in Previews : /\ WF_proxyVars(HitDelivered(p)) /\ WF_proxyVars(PreviewEnds(p))
                           /\ WF_proxyVars(PreviewRetried(p))

FairSpec == ProxySpec /\ Fairness

-----------------------------------------------------------------------------
ProxyTypeOK ==
    /\ remote \in 0..MaxChanges
    /\ session \in [Sess -> {"none", "index", "manifest", "live", "gone"}]
    /\ kind \in [Sess -> Kinds] /\ told \subseteq Sess
    /\ etag \in [Sess -> 0..NoRevision] /\ package \in [Sess -> 0..NoRevision]
    /\ conn \in [Sockets -> {"none", "header", "request", "writing", "closed"}]
    /\ job \in [Sockets -> {"none", "fetch", "decrypt"}]
    /\ owner \in [Sockets -> Sess] /\ what \in [Sockets -> Whats \cup {"nothing"}]
    /\ got \in [Sockets -> 0..NoRevision] /\ body \in [Sockets -> 0..NoRevision]
    /\ answers \in [Sockets -> Nat] /\ plain \subseteq Sockets
    /\ pv \in [Previews -> {"none", "hit", "queued", "active", "backoff", "answered"}]
    /\ asked \in [Previews -> {None} \cup (Urls \X Nat)] /\ attempt \in [Previews -> 0..MaxRetries]
    /\ previewQueue \in Seq(Previews) /\ activePreviewJobs \in 0..MaxJobs

\* A connection gets one response at most, whatever comes first: the deadline of
\* its header, an error, the answer of a worker, or a revocation.
OneResponse == \A c \in Sockets : answers[c] <= 1

\* What a client is given is of the package its session was prepared for, though
\* the package was replaced on the server between two of its requests.
OnePackage == \A c \in Sockets : body[c] # NoRevision => body[c] = package[owner[c]]

\* A session that was revoked gives nothing away any more: no response is begun
\* for it, none goes on, and nothing decrypted is kept, also when the worker that
\* decrypts comes back after the revocation or after the client has gone.
NothingAfterRevoke ==
    /\ \A c \in Sockets : conn[c] \in {"request", "writing"} => Live(owner[c])
    /\ \A c \in plain : conn[c] = "writing" /\ Live(owner[c])

\* The consumer of a session hears of every part that could not be given: FFmpeg
\* goes on after an error, and its exit status does not tell. Until the session
\* is revoked, no segment is missing in silence.
MissingIsTold ==
    \A c \in Sockets : conn[c] = "closed" /\ answers[c] > 0 /\ body[c] = NoRevision /\ what[c] # "nothing"
                         /\ Live(owner[c])
                       => owner[c] \in told

\* The previews of a folder of hundreds: no more than MaxJobs read at a time,
\* those waiting for their next attempt included, no slot is lost, none idle
\* while a package waits, and the cache has its limit.
PreviewSlots ==
    /\ activePreviewJobs = Cardinality({p \in Previews : pv[p] \in {"active", "backoff"}})
    /\ previewQueue # <<>> => activePreviewJobs = MaxJobs
    /\ Cardinality({u \in Urls : previewCache[u] # Uncached}) <= CacheMax

\* A preview is of the revision the listing asked for, also from the cache.
PreviewHonest == \A p \in Previews : shown[p] # Uncached => shown[p] = Revision(p)

\* What the proxy guarantees at every moment, whatever the order of requests, replies, workers,
\* deadlines and changes on the server: one response for a connection, one package for a session,
\* the job limit of the previews, and previews of the revision that was asked for
\* (EncryptedHlsPlaybackProxy::handleRequest, startPreviewJobs).
ProxyInv == ProxyTypeOK /\ OneResponse /\ OnePackage /\ PreviewSlots /\ PreviewHonest

\* Every package of a folder gets its answer, which ends the row's loading icon,
\* and every client its response.
EveryoneAnswered ==
    /\ \A p \in Previews : pv[p] # "none" ~> pv[p] = "answered"
    /\ \A c \in Sockets : conn[c] \in {"header", "request"} ~> conn[c] \in {"writing", "closed"}
=============================================================================
