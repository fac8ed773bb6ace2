------------------------------ MODULE Prefetch ------------------------------
(***************************************************************************)
(* The per-request read-ahead of services/prefetch.go and the sequential   *)
(* archive writer that calls it.                                           *)
(*                                                                         *)
(* Processes: the writer (the handler's goroutine: it asks for the files   *)
(* of its window one after the other) and one goroutine per prefetch       *)
(* (Prefetcher.run).  The environment: the client, who may leave at any    *)
(* moment, and the upstream proxy, whose answer may be an error, a body    *)
(* that is too short or too long, or no answer at all (no response timeout *)
(* is set, configure.go).                                                  *)
(*                                                                         *)
(* Positions in the plan are 1..NFiles (the code counts from 0).  Every    *)
(* critical section of Prefetcher.mu is one step or, for the loop of       *)
(* startAhead, a sequence of steps of the writer: all of them are executed *)
(* by the writer's goroutine, run never takes the mutex.                   *)
(***************************************************************************)
EXTENDS Integers, Sequences, FiniteSets, RangeClip

CONSTANTS
    NFiles,     \* length of the request's file list
    Size,       \* declared size of each file
    Url,        \* the url of each file: equal for files of equal path
    Start,      \* archive offset at which the content of each file begins
    Depth, MaxFile, Budget,     \* PrefetchConfig
    Windows,    \* the byte windows [b |-> first, e |-> last] of requests
    GapFetches, \* TRUE for zip, whose CRC resume re-reads a gap of the first file
    ColdFiles,  \* candidates for the file upstream never answers for; 0 is none
    RunFaults,  \* what upstream may do to a prefetch
    LiveFaults, \* may a live fetch fail while the client is there?
    ClientMayLeave,
    NoUrl,      \* the empty string of nextURL
    Total       \* the sum of the sizes of a set of files

Positions == 1 .. NFiles
Urls == {Url[i] : i \in Positions}

\* NewPrefetcher returns nil, and no prefetcher exists, unless these hold.
ASSUME ConfigAssumption ==
    /\ NFiles \in Nat /\ NFiles >= 2
    /\ Depth \in Nat \ {0}
    /\ MaxFile \in Nat \ {0}
    /\ Budget \in Nat \ {0}

\* The file list of a torrent: sizes are unsigned, contents do not overlap.
ASSUME PlanAssumption ==
    /\ Size \in [Positions -> Nat]
    /\ Start \in [Positions -> Nat]
    /\ \A i, j \in Positions : i < j => Start[i] + Size[i] <= Start[j]
    /\ NoUrl \notin Urls
    /\ \A w \in Windows : w.b \in Nat /\ w.e \in Nat /\ w.b <= w.e
    /\ RunFaults \subseteq {"error", "short", "long"}
    /\ ColdFiles \subseteq 0 .. NFiles

\* What makes Total the sum.
ASSUME TotalAssumption ==
    /\ Total \in [SUBSET Positions -> Nat]
    /\ Total[{}] = 0
    /\ \A S \in SUBSET Positions : \A i \in Positions \ S :
          Total[S \cup {i}] = Total[S] + Size[i]

VARIABLES
    window,     \* the byte window this request serves
    cold,       \* the file upstream never answers for in this behaviour
    ctxDone,    \* the request context is cancelled
    faults,     \* which faults hit the writer itself: "live", "client"
    \* Prefetcher
    next, nextURL, used,
    entries,    \* position -> index in heap (the map's pointers)
    heap,       \* every prefetched record ever allocated, in order
    \* the writer
    pc, at,     \* at: the file of the archive loop it is emitting
    gapped,     \* has the gap of file `at' been asked for?
    call,       \* arguments of the Fetch call in progress
    found,      \* locate's answer; 0 when the url is not planned
    ahead,      \* startAhead's loop variable
    held,       \* the entry Fetch picked up; 0 is nil
    body,       \* what Fetch returned: where it comes from, whose, how long
    served      \* history: the entries whose body the writer consumed

envVars      == <<window, cold>>
locateVars   == <<next, nextURL>>
prefetchVars == <<used, entries, heap>>
fetchVars    == <<call, found, ahead, held>>
vars == <<envVars, ctxDone, faults, locateVars, prefetchVars,
          pc, at, gapped, fetchVars, body, served>>

\* A prefetched record: `pc' is where its goroutine is, "done" once e.done is
\* closed; `len' and `cap' are those of buf, `of' the url it was read from.
RunPCs == {"get", "read", "done"}
Entry == [pos : Positions, pc : RunPCs, err : BOOLEAN,
          of : Urls \cup {NoUrl}, len : Nat, cap : Nat]

NewEntry(j) == [pos |-> j, pc |-> "get", err |-> FALSE,
                of |-> NoUrl, len |-> 0, cap |-> 0]

NoBody == [from |-> "none", of |-> NoUrl, len |-> 0]
NoCall == [url |-> NoUrl, begin |-> 0, end |-> 0]

Init ==
    /\ window \in Windows
    /\ cold \in ColdFiles
    /\ ctxDone = FALSE
    /\ faults = {}
    /\ next = 1 /\ nextURL = NoUrl
    /\ used = 0 /\ entries = [j \in {} |-> 0] /\ heap = << >>
    /\ pc = "file" /\ at = 1 /\ gapped = FALSE
    /\ call = NoCall /\ found = 0 /\ ahead = 0 /\ held = 0
    /\ body = NoBody
    /\ served = {}
-----------------------------------------------------------------------------
(* The archive writer: which fetches it makes, in which order.             *)

\* Where the window cuts file i.
Cut(i) == Clip(Start[i], window.b, window.e, Size[i])

\* The content fetch: no Range for a whole file, a closed range for a cut one.
ContentCall(i) ==
    [url |-> Url[i], begin |-> Cut(i).b,
     end |-> IF Cut(i).partial THEN Cut(i).e ELSE Unbounded]

\* The window leaves nothing of this file: the writer does not fetch it.
SkipFile ==
    /\ pc = "file" /\ at <= NFiles /\ Cut(at).skip
    /\ at' = at + 1
    /\ UNCHANGED <<envVars, ctxDone, faults, locateVars, prefetchVars,
                   pc, gapped, fetchVars, body, served>>

\* Prefetcher.locate: the scan resumes at next, where nextURL caches the url
\* built by the previous call.
UrlAt(k) == IF k = next /\ nextURL # NoUrl THEN nextURL ELSE Url[k]

Matches(url) == {k \in next .. NFiles : UrlAt(k) = url}

LocateStale(url) ==     \* mutant: and keeps the url of the file it left
    IF Matches(url) = {}
    THEN /\ found' = 0 /\ next' = NFiles + 1 /\ nextURL' = NoUrl
    ELSE \E k \in Matches(url) :
            /\ \A m \in Matches(url) : k <= m
            /\ found' = k /\ next' = k + 1 /\ nextURL' = url

Locate(url) ==
    IF Matches(url) = {}
    THEN /\ found' = 0 /\ next' = NFiles + 1 /\ nextURL' = NoUrl
    ELSE \E k \in Matches(url) :
            /\ \A m \in Matches(url) : k <= m
            /\ found' = k /\ next' = k /\ nextURL' = url

\* Fetch, up to startAhead's loop.
EnterFetch(c) ==
    /\ call' = c
    /\ Locate(c.url)
    /\ ahead' = found' + 1
    /\ pc' = IF found' = 0 THEN "live" ELSE "ahead"

\* Zip only: a file cut on the left has its CRC prefix topped up from the best
\* checkpoint below the cut, when one is close enough (seedCRC, fetchCRCGap).
FetchGap ==
    /\ GapFetches /\ pc = "file" /\ at <= NFiles /\ ~gapped
    /\ ~Cut(at).skip /\ Cut(at).b > 0
    /\ \E off \in 0 .. Cut(at).b - 1 :
          EnterFetch([url |-> Url[at], begin |-> off, end |-> Cut(at).b])
    /\ gapped' = TRUE
    /\ UNCHANGED <<envVars, ctxDone, faults, prefetchVars, at, held, body, served>>

FetchContent ==
    /\ pc = "file" /\ at <= NFiles /\ ~Cut(at).skip
    /\ EnterFetch(ContentCall(at))
    /\ UNCHANGED <<envVars, ctxDone, faults, prefetchVars, at, gapped, held, body, served>>

\* The gap read is best effort; the content read is not.
IsGap == call.begin < Cut(at).b

\* The file is through: on to the next one.
NextFile == at' = at + 1 /\ gapped' = FALSE /\ pc' = "file"

Finish ==
    /\ pc = "file" /\ at > NFiles
    /\ pc' = "finished"
    /\ UNCHANGED <<envVars, ctxDone, faults, locateVars, prefetchVars,
                   at, gapped, fetchVars, body, served>>
-----------------------------------------------------------------------------
(* Prefetcher.Fetch and what the writer does with its answer.              *)

\* startAhead's conditions on file j.
Qualifies(j) ==
    /\ Size[j] > 0 /\ Size[j] <= MaxFile
    /\ j \notin DOMAIN entries
    /\ used + Size[j] <= Budget

StartAheadFar ==        \* mutant: the loop goes one file too far
    /\ pc = "ahead" /\ ahead <= found + Depth + 1 /\ ahead <= NFiles
    /\ IF Qualifies(ahead)
       THEN /\ used' = used + Size[ahead]
            /\ heap' = Append(heap, NewEntry(ahead))
            /\ entries' = [j \in DOMAIN entries \cup {ahead} |->
                              IF j = ahead THEN Len(heap) + 1 ELSE entries[j]]
       ELSE UNCHANGED prefetchVars
    /\ ahead' = ahead + 1
    /\ UNCHANGED <<envVars, ctxDone, faults, locateVars, pc, at, gapped,
                   call, found, held, body, served>>

\* One iteration of startAhead's loop.
StartAhead ==
    /\ pc = "ahead" /\ ahead <= found + Depth /\ ahead <= NFiles
    /\ IF Qualifies(ahead)
       THEN /\ used' = used + Size[ahead]
            /\ heap' = Append(heap, NewEntry(ahead))
            /\ entries' = [j \in DOMAIN entries \cup {ahead} |->
                              IF j = ahead THEN Len(heap) + 1 ELSE entries[j]]
       ELSE UNCHANGED prefetchVars
    /\ ahead' = ahead + 1
    /\ UNCHANGED <<envVars, ctxDone, faults, locateVars, pc, at, gapped,
                   call, found, held, body, served>>

LookupOpenOnly ==       \* mutant: a closed range is never taken for the whole file
    /\ pc = "ahead" /\ (ahead > found + Depth \/ ahead > NFiles)
    /\ LET hit == /\ call.begin = 0 /\ call.end = Unbounded
                  /\ found \in DOMAIN entries
       IN  /\ held' = IF hit THEN entries[found] ELSE 0
           /\ pc'   = IF hit THEN "wait" ELSE "live"
    /\ UNCHANGED <<envVars, ctxDone, faults, locateVars, prefetchVars, at, gapped,
                   call, found, ahead, body, served>>

\* The loop is over: a partial read goes live, a whole one looks for its entry.
Lookup ==
    /\ pc = "ahead" /\ (ahead > found + Depth \/ ahead > NFiles)
    /\ LET hit == /\ Whole(call.begin, call.end, Size[found])
                  /\ found \in DOMAIN entries
       IN  /\ held' = IF hit THEN entries[found] ELSE 0
           /\ pc'   = IF hit THEN "wait" ELSE "live"
    /\ UNCHANGED <<envVars, ctxDone, faults, locateVars, prefetchVars, at, gapped,
                   call, found, ahead, body, served>>

\* e.buf = nil
Freed(entry) == [entry EXCEPT !.of = NoUrl, !.len = 0, !.cap = 0]

ReleaseUncharged(i, e) ==   \* mutant: drops the entry, keeps the charge
    IF i \in DOMAIN entries /\ entries[i] = e
    THEN /\ entries' = [j \in DOMAIN entries \ {i} |-> entries[j]]
         /\ heap' = [heap EXCEPT ![e] = Freed(@)]
         /\ UNCHANGED used
    ELSE UNCHANGED prefetchVars

\* release(i, e): the entry's memory goes back to the budget, once.
Release(i, e) ==
    IF i \in DOMAIN entries /\ entries[i] = e
    THEN /\ used' = used - Size[heap[e].pos]
         /\ entries' = [j \in DOMAIN entries \ {i} |-> entries[j]]
         /\ heap' = [heap EXCEPT ![e] = Freed(@)]
    ELSE UNCHANGED prefetchVars

WaitFailedReturns ==    \* mutant: the prefetch's error is the answer
    /\ pc = "wait" /\ heap[held].pc = "done" /\ heap[held].err
    /\ Release(found, held)
    /\ held' = 0
    /\ pc' = "failed"
    /\ UNCHANGED <<envVars, ctxDone, faults, locateVars, at, gapped,
                   call, found, ahead, body, served>>

WaitFailedRetries ==    \* mutant: retries through the prefetcher itself
    /\ pc = "wait" /\ heap[held].pc = "done" /\ heap[held].err
    /\ ahead' = found + 1
    /\ pc' = "ahead"
    /\ UNCHANGED <<envVars, ctxDone, faults, locateVars, prefetchVars, at, gapped,
                   call, found, held, body, served>>

\* e.done is closed and the prefetch failed: give it up and fetch live.
WaitFailed ==
    /\ pc = "wait" /\ heap[held].pc = "done" /\ heap[held].err
    /\ Release(found, held)
    /\ held' = 0
    /\ pc' = "live"
    /\ UNCHANGED <<envVars, ctxDone, faults, locateVars, at, gapped,
                   call, found, ahead, body, served>>

WaitForAll ==           \* mutant: waits for every prefetch, not for its own
    /\ pc = "wait" /\ \A h \in 1 .. Len(heap) : heap[h].pc = "done"
    /\ ~heap[held].err
    /\ body' = [from |-> "buffer", of |-> heap[held].of, len |-> heap[held].len]
    /\ pc' = "copy"
    /\ UNCHANGED <<envVars, ctxDone, faults, locateVars, prefetchVars, at, gapped,
                   fetchVars, served>>

\* e.done is closed and the body is in memory.
WaitBuffered ==
    /\ pc = "wait" /\ heap[held].pc = "done" /\ ~heap[held].err
    /\ body' = [from |-> "buffer", of |-> heap[held].of, len |-> heap[held].len]
    /\ pc' = "copy"
    /\ UNCHANGED <<envVars, ctxDone, faults, locateVars, prefetchVars, at, gapped,
                   fetchVars, served>>

\* Both arms of the select may be ready; this one returns ctx.Err() and keeps
\* the entry.
WaitCancelled ==
    /\ pc = "wait" /\ ctxDone
    /\ pc' = "failed"
    /\ UNCHANGED <<envVars, ctxDone, faults, locateVars, prefetchVars, at, gapped,
                   fetchVars, body, served>>

\* The base fetcher got a response (any status below 300).
LiveAnswered ==
    /\ pc = "live" /\ ~ctxDone /\ at # cold
    /\ body' = [from |-> "live", of |-> call.url, len |-> 0]
    /\ pc' = "copy"
    /\ UNCHANGED <<envVars, ctxDone, faults, locateVars, prefetchVars, at, gapped,
                   fetchVars, served>>

\* A failed read fails the archive, except for the gap's, which only costs the
\* checksum: the writer goes on to the content of the same file.
AfterFailedRead == pc' = IF IsGap THEN "file" ELSE "failed"

\* Upstream refuses the live request, or breaks off its body.
LiveFailed ==
    /\ pc \in {"live", "copy"} /\ (pc = "copy" => body.from = "live")
    /\ LiveFaults
    /\ faults' = IF IsGap THEN faults ELSE faults \cup {"live"}
    /\ AfterFailedRead
    /\ body' = NoBody
    /\ UNCHANGED <<envVars, ctxDone, locateVars, prefetchVars, at, gapped,
                   fetchVars, served>>

\* The cancelled context fails the request in flight, or the read of its body.
LiveCancelled ==
    /\ pc \in {"live", "copy"} /\ (pc = "copy" => body.from = "live")
    /\ ctxDone
    /\ AfterFailedRead
    /\ body' = NoBody
    /\ UNCHANGED <<envVars, ctxDone, faults, locateVars, prefetchVars, at, gapped,
                   fetchVars, served>>

CloseKeeps ==           \* mutant: a buffered body's Close releases nothing
    /\ body' = NoBody
    /\ held' = 0
    /\ served' = IF body.from = "buffer" THEN served \cup {held} ELSE served
    /\ UNCHANGED prefetchVars

\* Closing the body: a bufferedBody releases its entry (once), a live one has
\* nothing to release.
CloseBody ==
    /\ body' = NoBody
    /\ held' = 0
    /\ IF body.from = "buffer"
       THEN Release(found, held) /\ served' = served \cup {held}
       ELSE UNCHANGED <<prefetchVars, served>>

\* The whole body went to the client (for a gap: into the checksum).
CopyDone ==
    /\ pc = "copy"
    /\ CloseBody
    /\ IF IsGap THEN pc' = "file" /\ UNCHANGED <<at, gapped>> ELSE NextFile
    /\ UNCHANGED <<envVars, ctxDone, faults, locateVars, call, found, ahead>>

\* Writing to the client fails, with body bytes or at the flush in front of a
\* fetch; the deferred Close of an open body still runs.
ClientWriteFailed ==
    /\ ClientMayLeave
    /\ \/ pc = "copy" /\ ~IsGap
       \/ pc = "file" /\ at <= NFiles /\ ~Cut(at).skip
    /\ faults' = faults \cup {"client"}
    /\ CloseBody
    /\ pc' = "failed"
    /\ UNCHANGED <<envVars, ctxDone, locateVars, at, gapped, call, found, ahead>>
-----------------------------------------------------------------------------
(* Prefetcher.run: one goroutine per entry of heap.                        *)

RunEnds(h, entry) ==
    /\ heap' = [heap EXCEPT ![h] = entry]
    /\ UNCHANGED <<envVars, ctxDone, faults, locateVars, used, entries,
                   pc, at, gapped, fetchVars, body, served>>

Failed(entry) == [entry EXCEPT !.pc = "done", !.err = TRUE]

\* The base fetcher answers.
RunAnswered(h) ==
    /\ heap[h].pc = "get" /\ heap[h].pos # cold /\ ~ctxDone
    /\ RunEnds(h, [heap[h] EXCEPT !.pc = "read"])

\* The request fails, or the body breaks off with an error.
RunFailed(h) ==
    /\ "error" \in RunFaults
    /\ heap[h].pc \in {"get", "read"} /\ heap[h].pos # cold
    /\ RunEnds(h, Failed(heap[h]))

RunUncancelled(h) ==    \* mutant: the prefetch has a context of its own
    /\ heap[h].pc \in {"get", "read"} /\ FALSE
    /\ RunEnds(h, Failed(heap[h]))

\* The prefetch shares the request's context.
RunCancelled(h) ==
    /\ heap[h].pc \in {"get", "read"} /\ ctxDone
    /\ RunEnds(h, Failed(heap[h]))

\* The length of the body upstream sends for a file of this size.
BodyLengths(size) ==
    {size} \cup (IF "short" \in RunFaults THEN 0 .. size - 1 ELSE {})
           \cup (IF "long" \in RunFaults THEN {size + 1} ELSE {})

\* readAllInto: EOF may come with the last bytes or only on a read of its own;
\* in the second case the full buffer is grown (append doubles) to make it.
ReadCaps(n, size) ==
    IF n < size THEN {size} ELSE IF n = size THEN {size, 2 * size} ELSE {2 * size}

RunReadAny(h) ==        \* mutant: no length check
    /\ heap[h].pc = "read"
    /\ \E n \in BodyLengths(Size[heap[h].pos]) :
          RunEnds(h, [heap[h] EXCEPT !.pc = "done", !.of = Url[heap[h].pos],
                                     !.len = n, !.cap = Size[heap[h].pos]])

\* LimitReader stops at the declared size; the length check rejects less.
RunRead(h) ==
    /\ heap[h].pc = "read"
    /\ LET size == Size[heap[h].pos]
       IN  \E n \in BodyLengths(size) :
              IF n < size
              THEN RunEnds(h, Failed(heap[h]))
              ELSE \E c \in ReadCaps(n, size) :
                      RunEnds(h, [heap[h] EXCEPT !.pc = "done", !.of = Url[heap[h].pos],
                                                 !.len = size, !.cap = c])
-----------------------------------------------------------------------------
(* The client, and net/http around the handler.                            *)

Ended == pc \in {"finished", "failed"}

Quiet == \A h \in 1 .. Len(heap) : heap[h].pc = "done"

\* The client disconnects: net/http cancels the request context.
ClientLeaves ==
    /\ ClientMayLeave /\ ~ctxDone /\ ~Ended
    /\ ctxDone' = TRUE
    /\ UNCHANGED <<envVars, faults, locateVars, prefetchVars, pc, at, gapped,
                   fetchVars, body, served>>

\* ServeHTTP returned: net/http cancels the context of the finished request.
HandlerReturns ==
    /\ Ended /\ ~ctxDone
    /\ ctxDone' = TRUE
    /\ UNCHANGED <<envVars, faults, locateVars, prefetchVars, pc, at, gapped,
                   fetchVars, body, served>>

Terminated == Ended /\ ctxDone /\ Quiet /\ UNCHANGED vars

Writer ==
    \/ SkipFile \/ FetchGap \/ FetchContent \/ Finish
    \/ StartAhead \/ Lookup
    \/ WaitFailed \/ WaitBuffered \/ WaitCancelled
    \/ LiveAnswered \/ LiveFailed \/ LiveCancelled
    \/ CopyDone \/ ClientWriteFailed

Run(h) == RunAnswered(h) \/ RunFailed(h) \/ RunCancelled(h) \/ RunRead(h)

Next ==
    \/ Writer
    \/ \E h \in 1 .. Len(heap) : Run(h)
    \/ ClientLeaves \/ HandlerReturns
    \/ Terminated

Spec == Init /\ [][Next]_vars

\* The goroutine of file j, by position: at most one is at work on it.
RunOf(j) == \E h \in 1 .. Len(heap) : heap[h].pos = j /\ Run(h)
RunOfCancelled(j) == \E h \in 1 .. Len(heap) : heap[h].pos = j /\ RunCancelled(h)

\* What the Go runtime and net/http see to by themselves: goroutines that can
\* go on do, the cancelled context reaches everything blocked on it, the client
\* reads or goes away.  Upstream owes no answer.
Fairness ==
    /\ WF_vars(SkipFile \/ FetchContent \/ Finish \/ StartAhead \/ Lookup)
    /\ WF_vars(WaitFailed \/ WaitBuffered \/ WaitCancelled)
    /\ WF_vars(LiveCancelled) /\ WF_vars(CopyDone)
    /\ WF_vars(HandlerReturns)
    /\ \A j \in Positions : WF_vars(RunOfCancelled(j))

FairSpec == Spec /\ Fairness

\* Upstream answers for every file but the cold one.
UpstreamAnswers ==
    /\ WF_vars(LiveAnswered)
    /\ \A j \in Positions : WF_vars(RunOf(j))

AnsweredSpec == FairSpec /\ UpstreamAnswers
-----------------------------------------------------------------------------
(* Correctness.                                                            *)

\* The values the variables take.
TypeOK ==
    /\ window \in Windows /\ cold \in ColdFiles
    /\ ctxDone \in BOOLEAN /\ faults \subseteq {"live", "client"}
    /\ next \in 1 .. NFiles + 1
    /\ nextURL \in Urls \cup {NoUrl}
    /\ used \in Nat
    /\ heap \in Seq(Entry)
    /\ DOMAIN entries \subseteq Positions
    /\ \A j \in DOMAIN entries : entries[j] \in 1 .. Len(heap)
    /\ pc \in {"file", "ahead", "wait", "live", "copy", "finished", "failed"}
    /\ at \in 1 .. NFiles + 1 /\ gapped \in BOOLEAN
    /\ call \in [url : Urls \cup {NoUrl}, begin : Int, end : Int]
    /\ found \in 0 .. NFiles /\ ahead \in Nat
    /\ held \in 0 .. Len(heap)
    /\ body \in [from : {"none", "live", "buffer"}, of : Urls \cup {NoUrl}, len : Nat]
    /\ served \subseteq 1 .. Len(heap)

\* prefetch.go:193 "Budget is a hard cap": the ledger `used' is exactly what the
\* bodies still in the map were charged, whatever the order of starts, failures
\* and releases, and never above the cap: an entry released twice, or dropped
\* without its release, would break the first half.
BudgetExact == used = Total[DOMAIN entries] /\ used <= Budget

\* prefetch.go:148 "serves a whole-file read from the buffer": what the buffer
\* hands the writer is all of the very file the writer asked for, though run
\* filled it from an upstream that may send too little or too much.
BodyIsTheFile ==
    pc = "copy" /\ body.from = "buffer" =>
        body.of = Url[at] /\ body.len = Size[at] /\ ~IsGap

\* prefetch.go:130 "a URL the scan does not find ends prefetching for the rest
\* of the request": that must never happen to a file of the plan, even when the
\* same file is asked for twice in a row (gap and content) or paths repeat.
PlanNeverLost == pc \in {"ahead", "wait", "live", "copy"} =>
    found \in Positions /\ found <= at /\ Url[found] = call.url

\* The point of the read-ahead (prefetch.go:20-24): a file whose prefetch is in
\* memory or under way is not requested from upstream a second time, neither by
\* another prefetch nor by the writer's own whole-file fetch.
NeverFetchedTwice ==
    /\ \A g, h \in 1 .. Len(heap) : heap[g].pos = heap[h].pos => g = h
    /\ pc = "live" /\ Whole(call.begin, call.end, Size[at]) =>
          \A h \in 1 .. Len(heap) : heap[h].pos = at => heap[h].err

\* Every body the writer has passed went back to the budget: only a file that
\* the window cut can stay behind in the map, and nothing is started further
\* than Depth ahead (for plans without repeated paths).
NoLeak == pc # "failed" =>
    \A j \in DOMAIN entries : j <= next + Depth /\ (j >= at \/ Cut(j).partial)

\* What was fetched for nothing when the archive is complete.
Wasted == {h \in 1 .. Len(heap) : heap[h].pc = "done" /\ ~heap[h].err /\ h \notin served}

\* Whether the writer's last fetch, of the file `next' stands at, had been read ahead
\* for nothing.
LastWasted == \E h \in Wasted : heap[h].pos = next

\* prefetch.go:32-34 "At the tail of a Range window up to depth small files are fetched
\* for nothing; that waste is bounded by depth x maxFile", through every order of
\* failed, short and late prefetches: of the files behind the last one fetched no more
\* than Depth are wasted.  The comment leaves one out: the last file itself, if the
\* window cuts it, is fetched live although it was read ahead, so that Depth+1 bodies
\* may be wasted.  Nor are there ever more than Depth+1 requests of the read-ahead open.
BoundedAhead ==
    /\ Cardinality({h \in 1 .. Len(heap) : heap[h].pc # "done"}) <= Depth + 1
    /\ pc = "finished" =>
          /\ Cardinality({h \in Wasted : heap[h].pos # next}) <= Depth
          /\ Cardinality(Wasted) <= Depth + 1
          /\ LastWasted => Cut(next).partial

\* prefetch.go:96 "memory cap for prefetched bodies per archive request": the
\* buffers of the bodies in the map, a grown one being twice the file's size,
\* take no more memory than the budget.
MemoryCap ==
    LET allocated == {j \in DOMAIN entries : heap[entries[j]].cap > 0}
        grown     == {j \in allocated : heap[entries[j]].cap > Size[j]}
    IN  Total[allocated] + Total[grown] <= Budget

\* prefetch.go:170-175: a prefetch that fails, however often, never costs the
\* client its archive; only a fault of the writer's own requests or of the
\* client does.
FailuresAreOwn == pc = "failed" => faults # {} \/ ctxDone

\* prefetch.go:32 "Prefetches live and die with the request context": once the
\* client has left, or the handler is through, the writer and every goroutine of
\* the request come to an end, although upstream may never answer them.
NothingOutlives == (ctxDone \/ Ended) ~> (Ended /\ Quiet)

\* A file upstream never answers for holds up neither the files in front of it
\* nor, if it is only read ahead, the end of the archive: the writer waits for
\* the entry of the file it is at and for no other.
ColdFileBlocksNoOther == <>(Ended \/ at = cold)

\* Read-ahead is transparent: hiding the prefetcher's state, every behaviour is
\* one of the writer with the plain fetcher.  Starting prefetches, waiting for
\* one and retrying a failed one live are all part of one fetch in progress.
Plain == INSTANCE PlainFetch WITH
    phase <- IF pc \in {"ahead", "wait", "live"} THEN "fetching" ELSE pc,
    gap   <- pc \in {"ahead", "wait", "live", "copy"} /\ IsGap,
    body  <- body.of

\* prefetch.go:148-150, for whatever RunFaults allows prefetches to suffer; a
\* failure the writer sees is upstream's answer to the writer's own request.
Transparent == Plain!Spec
\* prefetch.go:170-175 once more, as progress: when upstream answers for every file
\* and neither the writer's own requests nor the client fail, the archive is
\* completed, whatever happened to the prefetches.
Completes == <>(pc = "finished" \/ faults # {} \/ ctxDone \/ cold # 0)
=============================================================================
