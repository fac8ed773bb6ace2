-------------------------------- MODULE Pod --------------------------------
(***************************************************************************)
(* One process: requests in the handler of services/web.go, the cache of   *)
(* file lists and the torrent store client they share, and run() in        *)
(* configure.go, which starts and ends it all.  Size and Write are one     *)
(* step each, with the ends that the writers' own modules show them to     *)
(* have; what a format makes of its entries is a length.                   *)
(***************************************************************************)
EXTENDS Selection, RangeHeader, Metrics

CONSTANTS
    Requests,
    Asks,       \* of each request, what it may ask
    Torrents,   \* what the torrent store holds: a torrent for each info hash
    Defaults,   \* what the flags supply: of "token" (a secret), "key", "url"
    MaxName,    \* the longest name zip can carry: 65535
    Faults      \* of "bind", "dial", "pull", "upstream", "reset"

ASSUME PodAssumption ==
    /\ IsFiniteSet(Requests)
    /\ Defaults \subseteq {"token", "key", "url"}
    /\ MaxName \in Nat
    /\ Faults \subseteq {"bind", "dial", "pull", "upstream", "reset"}
    /\ \A r \in Requests : \A a \in Asks[r] :
          /\ a.hash \in DOMAIN Torrents /\ a.range \in Headers /\ a.format \in {"zip", "tar"}
          /\ a.path \in Strings /\ a.values \in Seq(Strings)
    /\ \A h \in DOMAIN Torrents :
          /\ Torrents[h].name \in Strings /\ Torrents[h].utf8 \in Strings
          /\ Torrents[h].files \in Seq(FileInfos)

VARIABLES
    process,    \* "new", "serving", "draining", "closing", "exited"
    expired,    \* WEB_SHUTDOWN_TIMEOUT is over
    closed,     \* of "redis", "store": the clients run() has closed
    client,     \* TorrentStoreClient: "none", "ready" or "failed", for good
    cache,      \* of each info hash: "none", "dialing", "pulling", "files", "error"
    asked,      \* what each request asks
    phase,      \* where its handler is
    gone,       \* its client hung up
    status,     \* its status line; 0 before
    answer,     \* the window of the archive it is given
    active,     \* archives_active
    total,      \* archives_total, by outcome
    broken      \* history: info hashes whose pull the store, or the shutdown, failed

shared  == <<client, cache, broken>>
life    == <<process, expired, closed>>
books   == <<active, total>>
vars    == <<life, shared, books, asked, phase, gone, status, answer>>

\* A length for every part of the archive: an entry's header, its content, the end.
ArchiveSize(files, entries) ==
    LET size[n \in 0 .. Len(files)] ==
            IF n = 0 THEN Len(entries) + 1 ELSE size[n - 1] + files[n].size
    IN  size[Len(files)]

\* Zip refuses a name that does not fit its field.
SizeFails(a, entries) ==
    a.format = "zip" /\ \E n \in DOMAIN entries : Len(entries[n]) > MaxName

\* What ServeHTTP makes of a request once it has the torrent's files.
Planned(a) ==
    LET path     == TrimmedLeft(a.path)
        selected == SelectedPaths(a.values)
        files    == GenerateFileList(Listed(Torrents[a.hash]), path, selected)
        entries  == Entries(files, path)
        size     == ArchiveSize(files, entries)
    IN  [files   |-> files, entries |-> entries, size |-> size,
         missing |-> selected # <<>> /\ files = <<>>,
         fails   |-> SizeFails(a, entries),
         range   |-> ParseRange(a.range, size),
         etag    |-> EtagSource(a.hash, path, selected)]

AllAsks == UNION { Asks[r] : r \in Requests }

Plans == [a \in AllAsks |-> Planned(a)]

Plan(r) == Plans[asked[r]]

Nothing == [begin |-> 0, end |-> -1]

Handling == {"list", "waiting", "listed", "unlisted", "writing"}
InFlight == { r \in Requests : phase[r] \in Handling }

Init ==
    /\ process = "new" /\ expired = FALSE /\ closed = {}
    /\ client = "none" /\ cache = [h \in DOMAIN Torrents |-> "none"] /\ broken = {}
    /\ asked \in { f \in [Requests -> AllAsks] : \A r \in Requests : f[r] \in Asks[r] }
    /\ phase = [r \in Requests |-> "idle"]
    /\ gone = [r \in Requests |-> FALSE]
    /\ status = [r \in Requests |-> 0]
    /\ answer = [r \in Requests |-> Nothing]
    /\ active = 0 /\ total = [o \in Outcomes |-> 0]
-----------------------------------------------------------------------------
(* The handler *)

\* ServeHTTP returns; the deferred Dec.
Return(r) ==
    /\ phase' = [phase EXCEPT ![r] = "done"]
    /\ active' = active - 1

Count(o) == total' = [total EXCEPT ![o] = @ + 1]

Answer(r, s) == status' = [status EXCEPT ![r] = s]

\* The checks in front of the file list: nothing of them is counted.
Arrive(r) ==
    /\ process = "serving" /\ phase[r] = "idle"
    /\ IF \/ ~({"hash", "token", "key", "url"} \subseteq asked[r].has \cup Defaults)
          \/ Rejected(asked[r].values)
       THEN /\ phase' = [phase EXCEPT ![r] = "done"]
            /\ Answer(r, 400)
            /\ UNCHANGED books
       ELSE /\ phase' = [phase EXCEPT ![r] = "list"]
            /\ active' = active + 1
            /\ UNCHANGED <<status, total>>
    /\ UNCHANGED <<life, shared, asked, gone, answer>>

\* TorrentStore.Get: what the cache has, or a place in the queue of the one pull
\* of this hash, which the first to ask starts.
List(r) ==
    LET h == asked[r].hash
    IN  /\ phase[r] = "list"
        /\ phase' = [phase EXCEPT ![r] = CASE cache[h] = "files" -> "listed"
                                           [] cache[h] = "error" -> "unlisted"
                                           [] OTHER -> "waiting"]
        /\ cache' = IF cache[h] = "none" THEN [cache EXCEPT ![h] = "dialing"] ELSE cache
        /\ UNCHANGED <<life, books, client, broken, asked, gone, status, answer>>

\* Mutant of Deliver: only one of those who wait goes on.
DeliverOne(h, p) ==
    phase' = [r \in Requests |->
                IF /\ phase[r] = "waiting" /\ asked[r].hash = h
                   /\ \A q \in Requests : phase[q] = "waiting" /\ asked[q].hash = h => r <= q
                THEN p ELSE phase[r]]

\* Everybody who waits for h goes on with what there is.
Deliver(h, p) ==
    phase' = [r \in Requests |->
                IF phase[r] = "waiting" /\ asked[r].hash = h THEN p ELSE phase[r]]

\* An error is kept, or not (the cache's own business).
PullFailed(h) ==
    /\ \E kept \in {"none", "error"} : cache' = [cache EXCEPT ![h] = kept]
    /\ broken' = broken \cup {h}
    /\ Deliver(h, "unlisted")

\* TorrentStoreClient.Get: made once, and its error kept for ever.
Dial(h) ==
    /\ cache[h] = "dialing"
    /\ client' \in IF client = "none"
                   THEN {"ready"} \cup (IF "dial" \in Faults THEN {"failed"} ELSE {})
                   ELSE {client}
    /\ IF client' = "failed" THEN PullFailed(h)
       ELSE /\ cache' = [cache EXCEPT ![h] = "pulling"]
            /\ UNCHANGED <<broken, phase>>
    /\ UNCHANGED <<life, books, asked, gone, status, answer>>

\* Mutant of Pull: it runs in the context of whoever started it.
PullOfTheFirst(h) ==
    /\ cache[h] = "pulling"
    /\ \/ /\ cache' = [cache EXCEPT ![h] = "files"]
          /\ Deliver(h, "listed")
          /\ UNCHANGED broken
       \/ /\ \E r \in Requests : phase[r] = "waiting" /\ asked[r].hash = h /\ gone[r]
          /\ cache' = [cache EXCEPT ![h] = "none"]
          /\ Deliver(h, "unlisted")
          /\ UNCHANGED broken
    /\ UNCHANGED <<life, client, books, asked, gone, status, answer>>

\* Mutant of Pull: without a time limit.
PullUntimed(h) ==
    /\ cache[h] = "pulling" /\ "pull" \notin Faults
    /\ cache' = [cache EXCEPT ![h] = "files"]
    /\ Deliver(h, "listed")
    /\ UNCHANGED <<life, client, broken, books, asked, gone, status, answer>>

\* TorrentStore.get, in a context of its own with ten seconds: whether anybody
\* who waits for it is still there makes no difference.
Pull(h) ==
    /\ cache[h] = "pulling"
    /\ \/ /\ "store" \notin closed
          /\ cache' = [cache EXCEPT ![h] = "files"]
          /\ Deliver(h, "listed")
          /\ UNCHANGED broken
       \/ /\ "pull" \in Faults \/ "store" \in closed
          /\ PullFailed(h)
    /\ UNCHANGED <<life, client, books, asked, gone, status, answer>>

\* The cache lets go of an entry.
Evict(h) ==
    /\ cache[h] \in {"files", "error"}
    /\ cache' = [cache EXCEPT ![h] = "none"]
    /\ UNCHANGED <<life, client, broken, books, asked, phase, gone, status, answer>>

\* No file list: 500.
Unlisted(r) ==
    /\ phase[r] = "unlisted"
    /\ Answer(r, 500) /\ Count("error") /\ Return(r)
    /\ UNCHANGED <<life, shared, asked, gone, answer>>

\* Mutant of NotFound: counted as an error.
NotFoundCounted(r) ==
    /\ phase[r] = "listed" /\ Plan(r).missing
    /\ Answer(r, 404) /\ Return(r) /\ Count("error")
    /\ UNCHANGED <<life, shared, asked, gone, answer>>

\* The selection meets nothing: 404, not counted.
NotFound(r) ==
    /\ phase[r] = "listed" /\ Plan(r).missing
    /\ Answer(r, 404) /\ Return(r)
    /\ UNCHANGED <<life, shared, total, asked, gone, answer>>

\* Size, the Range header, and the response up to its first byte.
Respond(r) ==
    /\ phase[r] = "listed" /\ ~Plan(r).missing
    /\ \/ /\ Plan(r).fails
          /\ Answer(r, 500) /\ Count("error") /\ Return(r)
          /\ UNCHANGED answer
       \/ /\ ~Plan(r).fails /\ Plan(r).range.status = 416
          /\ Answer(r, 416) /\ Return(r)
          /\ UNCHANGED <<total, answer>>
       \/ /\ ~Plan(r).fails /\ Plan(r).range.status # 416
          /\ Answer(r, Plan(r).range.status)
          /\ phase' = [phase EXCEPT ![r] = "writing"]
          /\ answer' = [answer EXCEPT ![r] =
                          [begin |-> Plan(r).range.begin, end |-> Plan(r).range.end]]
          /\ UNCHANGED books
    /\ UNCHANGED <<life, shared, asked, gone>>

\* What Write may return: its client's doing, if that is gone, or upstream's.
WriteErrors(r) ==
    {"nil"} \cup (IF gone[r] THEN {"write", "fetch"} ELSE {})
            \cup (IF "upstream" \in Faults THEN {"fetch"} ELSE {})
            \cup (IF "reset" \in Faults THEN {"reset"} ELSE {})

\* Write ends, however; the response has its status already.
Write(r) ==
    /\ phase[r] = "writing"
    /\ \E e \in WriteErrors(r) : Count(ArchiveOutcome(gone[r], e))
    /\ Return(r)
    /\ UNCHANGED <<life, shared, asked, gone, status, answer>>

\* The client hangs up.
Leave(r) ==
    /\ r \in InFlight /\ ~gone[r]
    /\ gone' = [gone EXCEPT ![r] = TRUE]
    /\ UNCHANGED <<life, shared, books, asked, phase, status, answer>>
-----------------------------------------------------------------------------
(* run() *)

Stay == UNCHANGED <<shared, books, asked, phase, gone, status, answer>>

\* The web port is bound in front of everything; if it cannot be, run returns.
Listen ==
    /\ process = "new"
    /\ process' \in {"serving"} \cup (IF "bind" \in Faults THEN {"closing"} ELSE {})
    /\ UNCHANGED <<expired, closed>> /\ Stay

\* Mutant of Stop: the web service is closed with everything else, by a defer.
StopUndrained ==
    /\ process = "serving"
    /\ process' = "closing"
    /\ UNCHANGED <<expired, closed>> /\ Stay

\* A signal, or the end of any servable; web.Close: no new requests.
Stop ==
    /\ process = "serving"
    /\ process' = "draining"
    /\ UNCHANGED <<expired, closed>> /\ Stay

\* Mutant of Deadline: the drain has no end of its own.
DeadlineNone == process = "new" /\ expired /\ UNCHANGED vars

\* The time for it is up: what is still open is cut.
Deadline ==
    /\ process = "draining" /\ InFlight # {} /\ ~expired
    /\ expired' = TRUE
    /\ gone' = [r \in Requests |-> gone[r] \/ r \in InFlight]
    /\ UNCHANGED <<process, closed, shared, books, asked, phase, status, answer>>

\* web.Close returns: the last handler has, or it is cut.
Drained ==
    /\ process = "draining" /\ (InFlight = {} \/ expired)
    /\ process' = "closing"
    /\ UNCHANGED <<expired, closed>> /\ Stay

\* The deferred closes, last first: Redis, then the torrent store's client.
CloseClient ==
    /\ process = "closing"
    /\ \/ closed = {} /\ closed' = {"redis"}
       \/ closed = {"redis"} /\ closed' = {"redis", "store"}
    /\ UNCHANGED <<process, expired>> /\ Stay

\* main returns; handlers that are left are no more.
Exit ==
    /\ process = "closing" /\ closed = {"redis", "store"}
    /\ process' = "exited"
    /\ phase' = [r \in Requests |-> IF r \in InFlight THEN "cut" ELSE phase[r]]
    /\ UNCHANGED <<expired, closed, shared, books, asked, gone, status, answer>>

Step(r) == List(r) \/ Unlisted(r) \/ NotFound(r) \/ Respond(r)

Fetches(h) == Dial(h) \/ Pull(h)

Running == process # "exited"

Next ==
    \/ /\ Running
       /\ \/ \E r \in Requests : Arrive(r) \/ Step(r) \/ Write(r) \/ Leave(r)
          \/ \E h \in DOMAIN Torrents : Fetches(h) \/ Evict(h)
          \/ Listen \/ Stop \/ Deadline \/ Drained \/ CloseClient \/ Exit
    \/ ~Running /\ UNCHANGED vars

Spec == Init /\ [][Next]_vars

\* Handlers run, the pull has its ten seconds, and Write ends where its client is
\* gone; while the client is there, upstream may keep it waiting for ever.  run()
\* goes on, and the drain has its limit; nobody has to stop the process.
FairSpec ==
    /\ Spec
    /\ \A r \in Requests : WF_vars(Running /\ Step(r))
    /\ \A r \in Requests : WF_vars(Running /\ gone[r] /\ Write(r))
    /\ \A h \in DOMAIN Torrents : WF_vars(Running /\ Fetches(h))
    /\ WF_vars(Listen) /\ WF_vars(Deadline) /\ WF_vars(Drained)
    /\ WF_vars(CloseClient) /\ WF_vars(Exit)
-----------------------------------------------------------------------------
TypeOK ==
    /\ process \in {"new", "serving", "draining", "closing", "exited"}
    /\ expired \in BOOLEAN /\ closed \subseteq {"redis", "store"}
    /\ client \in {"none", "ready", "failed"}
    /\ cache \in [DOMAIN Torrents -> {"none", "dialing", "pulling", "files", "error"}]
    /\ broken \subseteq DOMAIN Torrents
    /\ phase \in [Requests -> Handling \cup {"idle", "done", "cut"}]
    /\ gone \in [Requests -> BOOLEAN]
    /\ status \in [Requests -> {0, 200, 206, 400, 404, 416, 500}]
    /\ answer \in [Requests -> [begin : Nat, end : Int]]
    /\ active \in Nat /\ total \in [Outcomes -> Nat]
    /\ \A r \in Requests : phase[r] = "waiting" => cache[asked[r].hash] \in {"dialing", "pulling"}

\* strings.Split(s, sep)
Parts(s, sep) ==
    LET parts[n \in 0 .. Len(s)] ==
            IF n = 0 THEN << <<>> >>
            ELSE LET ps == parts[n - 1]
                 IN  IF s[n] = sep THEN Append(ps, <<>>)
                     ELSE [ps EXCEPT ![Len(ps)] = Append(@, s[n])]
    IN  parts[Len(s)]

\* A name or a selected path component by component, the empty ones dropped.
Names(s) == Nonempty(Parts(s, Slash))

\* The set of paths a request selects.
Chosen(a) == { Names(a.values[n]) : n \in DOMAIN a.values } \ {<<>>}

\* The names of the files README.md promises for it.
Promised(a) ==
    LET torrent == Torrents[a.hash]
        NamesOf(f) == Nonempty(<<TorrentName(torrent)>> \o Components(f))
        held == Kept(torrent.files, { f \in ToSet(torrent.files) :
                    /\ ~IsPadFile(f)
                    /\ IsPrefix(Names(a.path), NamesOf(f))
                    /\ Chosen(a) = {} \/ \E v \in Chosen(a) : IsPrefix(v, NamesOf(f)) })
    IN  [n \in DOMAIN held |-> NamesOf(held[n])]

\* What torrents are like (BEP 3), though the code does not look: they have a name,
\* and no component of a path has a separator in it.
WellNamed ==
    \A h \in DOMAIN Torrents :
        /\ TorrentName(Torrents[h]) # <<>>
        /\ \A f \in ToSet(Torrents[h].files) :
              \A c \in {TorrentName(Torrents[h])} \cup ToSet(Components(f)) : Slash \notin ToSet(c)

\* What the path and the values asked for are once the code has trimmed them: their
\* components with one slash between them.  A slash behind X-Origin-Path stays there,
\* and is in front of no file.
WellAsked ==
    \A a \in AllAsks :
        /\ TrimmedLeft(a.path) = Joined(Names(a.path), Slash)
        /\ \A n \in DOMAIN a.values : Trimmed(a.values[n]) = Joined(Names(a.values[n]), Slash)

\* No path has the "?paths=" of an ETag in it.
Unmarked == \A a \in AllAsks : Marker \notin ToSet(a.path)

Chosens  == [a \in AllAsks |-> Chosen(a)]
Promises == [a \in AllAsks |-> Promised(a)]
Held     == [a \in AllAsks |->
                [n \in DOMAIN Plans[a].files |-> Names(Plans[a].files[n].path)]]

\* README.md:9-13 "every file under the requested path", "only files matching a
\* value exactly or living under a value-as-folder": the archive holds exactly the
\* torrent's files whose folders are those of X-Origin-Path and of one of the
\* ?paths= values, in the torrent's order, however the values are written, and 404
\* is the answer if and only if the values meet nothing; padding is no file.
SelectedExactly ==
    \A r \in Requests :
        /\ phase[r] = "writing" => Held[asked[r]] = Promises[asked[r]]
        /\ status[r] = 404 => Promises[asked[r]] = <<>> /\ Chosens[asked[r]] # {}
        /\ status[r] \in {200, 206, 416} => Promises[asked[r]] # <<>> \/ Chosens[asked[r]] = {}

\* The folders a name is in.
FoldersOf(name) == { SubSeq(name, 1, k) : k \in { j \in DOMAIN name : name[j] = Slash } }

\* The walk over the folders, done right: in front of an entry there is each folder
\* it is in, once, and no folder is there without a file behind it.
Walked(es) ==
    LET IsFolder(k) == Last(es[k]) = Slash
    IN  \A k \in DOMAIN es :
          /\ \A d \in FoldersOf(es[k]) :
                LET at == { j \in DOMAIN es : es[j] = d }
                IN  Cardinality(at) = 1 /\ \A j \in at : j <= k
          /\ IsFolder(k) =>
                \E j \in k + 1 .. Len(es) : ~IsFolder(j) /\ IsPrefix(es[k], es[j])

Walks == [a \in AllAsks |-> Walked(Plans[a].entries)]

\* archive.go:70-71 "every parent folder of the files it sees exactly once, in
\* first-seen order", in every archive that is sent.
FoldersOnce == \A r \in Requests : phase[r] = "writing" => Walks[asked[r]]

\* web.go:319-321 "differently-filtered archives of the same path never validate
\* against each other", web.go:101-105 "identical however the client ordered the
\* values": two requests have one ETag if and only if they ask for the same torrent,
\* path and set of paths.
EtagTellsApart ==
    \A r, s \in Requests : status[r] \in {200, 206} /\ status[s] \in {200, 206} =>
        ( Plan(r).etag = Plan(s).etag <=>
            /\ asked[r].hash = asked[s].hash
            /\ Names(asked[r].path) = Names(asked[s].path)
            /\ Chosens[asked[r]] = Chosens[asked[s]] )

\* The answer a request was given, as parseRange would give it.
Given(r) == [begin |-> answer[r].begin, end |-> answer[r].end, status |-> status[r]]

\* web.go:124-128: against the size of the archive that is really sent, a single range
\* gets exactly the bytes it asks for, or 416 if there are none, and any other header
\* the whole archive with 200.  The code differs from that comment in two places, and
\* Exact says what it does there: a malformed header whose first number is beyond the
\* archive or whose suffix is negative gets 416, a number no int64 holds makes any
\* header one to ignore, also where the range is unsatisfiable.
RangeAnswered ==
    \A r \in Requests : status[r] \in {200, 206, 416} =>
        Exact(asked[r].range, Plan(r).size, Given(r))

\* configure.go:99-103, web.go:367-368 "Close must run before the torrent-store and
\* Redis clients the handlers use are closed": no handler is left without its
\* clients, and no download is cut by the process, unless the drain took too long.
DrainedBeforeClosing ==
    /\ closed # {} /\ ~expired => InFlight = {}
    /\ \A r \in Requests : phase[r] = "cut" => expired

\* web.go:268-272, README.md:41: the gauge is the requests in flight, through every
\* interleaving of those that enter and leave; a request is counted once, and as an
\* error if and only if the client was told so.  Not every request "that reached the
\* file list stage" is (README.md:40, metrics.go:29): the 404s and 416s, both answered
\* behind that stage, are left out, as web.go:270-272 has it.
Accounted ==
    /\ active = Cardinality({ r \in Requests : phase[r] \in Handling \cup {"cut"} })
    /\ total["ok"] + total["client_gone"] + total["upstream_error"] + total["error"]
         = Cardinality({ r \in Requests : phase[r] = "done" /\ status[r] \in {200, 206, 500} })
    /\ total["error"] = Cardinality({ r \in Requests : status[r] = 500 })

\* torrent_store.go:107-112: requests share a pull, and none of them fails because
\* another one's client has left: a 500 has the store behind it, or the shutdown,
\* or a name no zip can carry.
LeaverCostsNobody ==
    \A r \in Requests : status[r] = 500 =>
        \/ asked[r].hash \in broken
        \/ Plan(r).fails

\* The store may be as slow as it likes and upstream may never answer: whoever asks
\* for an archive gets a status line in the end, and a client that hangs up sets its
\* handler free, wherever that is (torrent_store.go:109, web.go:343).
Answered ==
    \A r \in Requests :
        /\ phase[r] = "list" ~> phase[r] \in {"writing", "done", "cut"}
        /\ gone[r] ~> phase[r] \in {"done", "cut"}

\* A process that is told to stop does, though upstream may never answer.
Stops == process = "draining" ~> process = "exited"
=============================================================================
