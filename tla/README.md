# torrent-archiver in TLA+

torrent-archiver streams the files of a torrent as one zip or tar. The archive
is laid out deterministically, so its size is known before the first byte and
any byte range of it can be served by a request of its own; upcoming small
files are read ahead of the strictly sequential stream. This directory holds
TLA+ models of the program, TLC configurations that check them on small
instances, and TLAPS proofs of what matters most.

## The system

| Component | State it keeps | Operations | Talks to |
|---|---|---|---|
| HTTP handler, `services/web.go` | per request: selection, file list, size, window, outcome; gauge and counters | `ServeHTTP`, `Listen`, `Serve`, `Close` | torrent store (file list), an `Archive`, metrics, the client |
| Archive formats, `services/zip.go`, `tar.go`, `archive.go` | file list, folder walker | `Size`, `Write`, `generateFileList` | a format writer, twice per request: sizing and writing |
| Format writers, `ziphttp/writer.go`, `tarhttp/writer.go` | logical offset `current`, window, bufio buffer, central directory | `CreateHeader`, `writeFile`/`writeContent`, `Close` | a `Fetcher` for content, the client through bufio and net/http, the CRC resumer |
| Window arithmetic, `internal/rangeclip` | none | `Clip` | both writers |
| Upstream seam, `internal/fetch` | none | `HTTP.Fetch`, `Whole`, `body.Read` | torrent-http-proxy, which has no response timeout |
| Read-ahead, `services/prefetch.go` | scan position and its cached url, budget ledger, map of entries; one goroutine per prefetch | `Fetch`, `startAhead`, `run`, `release` | the base fetcher; shares the request context |
| CRC resume, `ziphttp/crc.go`, `services/crc_store.go` | running CRC state and next checkpoint; Redis hash of checkpoints and key of full CRCs; `failed` | `PutCRC`, `GetCheckpoint`, `PutCheckpoint`, `Preseed`, the tracker | zip writer, Redis shared by all pods |
| File list, `services/torrent_store.go`, `archive.go`, `metainfo.go` | cache of file lists | `Get`, `isPadFile`, `getPath`, `generateFileList`, `folderWalker` | torrent-store over gRPC |
| Torrent store client, `services/torrent_store_client.go` | connection, `inited`, cached error | `Get`, `Close` | torrent-store |
| Metrics, `services/metrics.go` | Prometheus series | `archiveOutcome`, `recordArchive`, metered writer and fetcher | handler, fetchers |
| Process, `main.go`, `configure.go` | servables, listeners | `run` | all of the above; order of start and shutdown |
| Zip structures, reader, codecs, `ziphttp/struct.go`, `reader.go`, `register.go` | none | encoding of fields; reading | inherited from Go's archive/zip; the reader serves the tests only |

What is hard here, and to test harder still:

- a goroutine per prefetch against the writer, the client and a silent upstream:
  who releases an entry, who waits for what, who survives the request;
- two passes over the same list that must agree byte for byte, and windows that
  may begin and end in the middle of anything;
- downloads that break off and are resumed, so that one archive is glued
  together from the output of several runs, possibly of several pods;
- upstream bodies of the wrong length, errors in the middle of a stream whose
  headers are long gone, and cleanup that runs after an error;
- checksum state carried from one request to the next through a store that may
  fail, forget, or hold what an earlier failure left there.

`PROJECT.json` lists these hazards one by one at their lines.

## Modules

    RangeClip <------ ArchiveWriter <---- TarWriter <---- MCTarWriter
        ^              |   |     ^        + TarFormat
        |              |   |     +------- ZipWriter <---- MCZipWriter
        |              |   +-- ArchiveStream (refined by the writers)
        |              +-- Metrics <---------------+
        +---------- Prefetch <---- MCPrefetch      |
                       +-- PlainFetch              |
                           (refined by Prefetch)   |
    Selection, RangeHeader <---- Pod --------------+
                                  ^---- MCPod
    CRCResume <---- MCCRCResume
    ZipFormat <---- MCZipFormat

The theorems stand in modules of their own, each extending the module it is
named after: `PrefetchProofs`, `ArchiveWriterProofs` (RangeClip, and lemmas the
two writers share), `TarWriterProofs`, `ZipWriterProofs`, `CRCResumeProofs`,
`ZipFormatProofs` and `PodProofs`; the last rests on `PlanProofs`, which is about
Selection and RangeHeader, what becomes of one request by itself.

### RangeClip

`rangeclip.Clip` and `fetch.Whole` as operators on integers, used by every other
module. `ArchiveWriterProofs` proves them exact for all arguments.

### Prefetch, PlainFetch

`Prefetch` is one archive request: the writer's goroutine asks a `Prefetcher`
for the files of its window, one `run` goroutine per entry of `heap` reads
ahead. `next`, `nextURL`, `used`, `entries` are the fields of the struct,
`heap` the `prefetched` records the map points to (a pointer is an index, so
that `cur == e` in `release` can be told from an equal value). A call of
`Fetch` is cut where other goroutines can interfere: `EnterFetch` (locate),
`StartAhead` (an iteration of the loop), `Lookup`, the three arms of the
select, the live fetch, copying, `Close`. Only the writer's goroutine takes
the mutex (run never does), so sections under it need no finer grain. The
zip writer's second fetch of the same file, the gap in front of a cut, is
`FetchGap`; with it `locate` is asked for the same url twice.

Upstream may refuse, break off, send too little or too much, or never answer
(`cold`); the client may leave (the context is cancelled) or fail a write. A
body is known by whose it is and how long, not by its bytes.

`PlainFetch` is what the writer would see with `fetch.HTTP` alone. `Prefetch`
refines it: starting, waiting, failing and retrying of prefetches are all
stuttering inside one fetch.

### ArchiveStream, ArchiveWriter, TarWriter, ZipWriter, Metrics

A byte of the archive is known by its offset. `Place` fixes where each entry
belongs, independently of the writer's own `current`; a byte handed to the
client is right if its offset is the window's begin plus the number of bytes
handed over before it. `ArchiveWriter` has what the formats share: the window,
the way of the bytes to the client, the handler's two passes (`StartWrite`), the
count behind them and the handler's return (`Record`), the client that hangs up
(`ClientGone`, after which writes and the fetch in progress may fail) and the
client that resumes from what it holds (`Resume`). `TarWriter` and `ZipWriter`
add one action per step of `CreateHeader` and `Close`.

Bytes are held back twice: `out` are those handed to the `bufio.Writer`, `passed`
those it has passed on to net/http, `sent` those net/http has sent. The writers'
`Flush` moves the first boundary, not the second: `meteredWriter` has no Flush,
and the handler's own comes before `Write`. What net/http holds it sends when it
likes and at the latest behind the handler, in `Record`, if the connection
stands. It takes no more than the Content-Length: `Refused` is the write beyond
that, which fails.

A body upstream ends without an error is one of `Bodies`: what was asked for or,
where `Upstream` allows it, one that ends too early, one too long, or the whole
file for a part of it, which `fetch.HTTP` accepts with any status below 300.
`io.Copy` takes each to its end; `exact` remembers whether all were what was asked
for. In zip the deferred `Close` after an error is an
action of its own because it emits bytes, and `CloseUnheard` is the same `Close`
behind the last entry where it fails, the client being gone or net/http having
been given too much: the error is dropped, so that Write returns nil.
`ArchiveStream` is the client's view: a window, how much of it it holds, and
whether the response came to its proper end, the handler having returned on a
connection that stood.

`err` is what Write returns, by what `errors.Is` and `errors.As` find in its
chain: nothing, the client's EPIPE or ECONNRESET, net/http's ErrContentLength, a
`fetch.Error`, or a `fetch.Error` with ECONNRESET below it. `Metrics.ArchiveOutcome`
makes the label of it.

### TarFormat

`encodeHeader` of tarhttp: octal fields of eleven digits, the PAX entry in front
of a name that is too long or not ASCII and of a size beyond the field,
`paxRecord`'s loop for a length that counts its own digits. A name is its
length, whether it is ASCII and whether it is all there. `TarWriter` requires
the lengths of its headers to be those of `EncodedLen`, so that the layout the
window arithmetic is checked on is the format's. `ReadName` and `ReadSize` are a
pax reader.

### Selection, RangeHeader, Pod

`Selection` is what becomes of a torrent and of a request's paths: `getPath` (with
the utf-8 names that win over the others) and `isPadFile`, `parseSelectedPaths`, `generateFileList`, the folder walker and the
source of the ETag. Strings are sequences of codes, a slash among them, as the
point is where a component ends; the words the code looks for are single codes.
The loops of the code (`Kept`, `Joined`, `Walk`, `Entries`) are recursive
functions over the places of a sequence, so that they can be proved about.
`Sorted` is what `sort.Strings` and `slices.Compact` leave: the one sequence of
the set in Go's order. Where the walker splits a name at its slashes and joins the
first parts again, `Walk` takes the name up to one of its slashes, which is that.
What the requests are owed is stated the other way round, by components:
`Promised` splits names (`Parts`, `Names`) and compares lists of components, where
the code compares strings.
`RangeHeader` is `parseRange`, of a header taken apart at its comma and dash. A
side of the dash is empty, a number of any size, or none; `ParseInt` takes those
an int64 holds.

`Pod` composes them: a process with two requests in `ServeHTTP`, the list cache
and the store client they share, and `run()`. A request goes through `Arrive`
(the checks that are answered 400), `List` (`LazyMap.Get`: a finished entry, or
a place among those who wait for the one pull), `Unlisted`, `NotFound`,
`Respond` and `Write`, whose insides are the writers' modules and whose ends are
theirs: nil, the client's error, upstream's. `Dial` is the client that is made
once and keeps its error, `Pull` has a context of its own with ten seconds.
`Listen`, `Stop`, `Deadline`, `Drained`, `CloseClient`, `Exit` are `run()` from
the bound port to the last deferred close. A handler that is left when the time
for the drain is up is cut (`gone`): its context is cancelled and its writes fail
(web.go:363-366).

### CRCResume

One file's checksum across the requests of its archive. A running state is
known by the prefix it is the state of; `Bad` is any other. `ckpts` and `full`
are the two Redis keys, `req` what each request's `crcTracker` and its body
are doing, on whatever pod. `Begin` is `Zip.Write` up to the file (with
`Preseed` where the window does not begin with the archive), `Seed` is
`seedCRC`, `AskGap` to `GapEnds` are `fetchCRCGap`, `AskContent` to
`ContentEnds` are `writeFile` with what `CreateHeader` makes of its result,
`Directory` is `Close`. `PutCheckpoint`, `PutCRC` and `Seed` have the arm in
which the store fails and the request goes on without it. A cut-off request
may live on (`Cut`) while the client resumes with the next, and write its
checkpoints among the other's. `lost` is history: whether something happened
that excuses a missing checksum. A request's `next` restarts at the offset it
was seeded at, as in the code, so that the nearest checkpoint may be nearly
two intervals below a cut, not one (crc.go:30-33); `MaxGap` allows for it.

### ZipFormat

A whole zip, as a function from offsets to the structures that start there,
written by `CreateFolder`, `CreateFile` and `Close` with each number in a field
of its width, and read back by `ReadEnd`, `ReadEntry`, `EndDirectory` and
`Open`, the package's reader. `current` is the writer's counter, `written` the
stream's length; the directory carries the first, the bytes lie at the second.
A descriptor, as wide as its size needs, is looked at from where the reader has
found the content (`BodyFound`).
ZipWriter has the same archive by its lengths only, but cut by windows and
broken off. Names fit their field: `Size` fails before a byte is written where
one does not.

## Runs

| Run | Question | Answer |
|---|---|---|
| `prefetch_safety` | do the ledger, the map and the buffers stay right under every order of prefetches, faults and releases; what is fetched for nothing; can a prefetch's failure cost the archive? | yes; at most Depth files behind the last one, and that one where the window cuts it; no |
| `prefetch_live` | can the writer tell the Prefetcher from the plain fetcher; can one upstream request that never answers hold up anything but its own file, or keep goroutines alive after the request; with repeated paths? | no |
| `prefetch_memory` | is the budget a cap on memory, as the flag's help says? | no: buffers grow to find EOF |
| `tar_writer` | every window, every place to break off or to hang up, resumed, with an upstream that refuses, breaks off or ignores Range: bytes right up to a body that was not what was asked for, announced length, no more held back than net/http's buffers while upstream is awaited, counted as it ended, headers that read back, a client told it has all only if it has, and an end? | yes |
| `tar_silent` | has everything written so far reached the client before upstream is awaited (tarhttp/writer.go:117-119)? | no: it is in net/http's buffers, which nothing flushes |
| `zip_writer` | the same as `tar_writer` for zip, its headers apart, and with bodies that end too early | yes, except for what the deferred Close emits |
| `zip_abort` | does an aborted zip response hold only bytes of the archive? | no: a central directory follows the header of the failed file |
| `outcome_reset` | does client_gone mean that the client hung up, and ok that it was sent all (README.md:40)? | no: a reset upstream connection is client_gone |
| `crc_resume` | whatever overlaps, fails, expires and breaks off: is each stored state true, is the directory's checksum right or 0, and is it there in the end unless something excuses it? | yes |
| `crc_poison` | does the store receive states of the file's prefixes only, as crc.go:23-25 says? | no: the gap of an upstream that ignores Range is filed before its length is looked at |
| `zip_format` | does the reader get back every entry, and find its content, the descriptor behind it and the next entry behind that, at the ends of all fields? | yes |
| `pod` | two requests of one pod: the right files, names, ETag and range; each counted as it ended; none failed by another's client; clients closed behind the last handler; everybody answered, set free, and the process gone in the end? | yes |

Each property of a passing run has a mutant of the modelled code that violates
it. The type invariants of Prefetch, of the two writers and of ZipFormat are not
among the runs' properties: they are proved (`TypeCorrect`, `FormatTypeCorrect`).

### Where code and comments disagree

`PROJECT.json` has the findings of the five runs above that end in a violation.
The models show more of them. Where a property below is one that passes, it states
what the code does, and its comment says so; the sentence of the repository is
false in the same run.

- prefetch.go:32-34: "At the tail of a Range window up to depth small files are
  fetched for nothing; that waste is bounded by depth x maxFile". It is bounded by
  depth + 1 files: `startAhead` knows no end of the window, so that the file the
  window cuts is read ahead too (prefetch.go:184) and then fetched live
  (prefetch.go:156). `BoundedAhead` has Depth for the files behind the last one, and
  that one besides.
- web.go:126-127: a "malformed" header "falls back to the full archive with 200". The
  first number is compared with the size before the second is looked at (web.go:160),
  and a second dash is taken for a sign (web.go:148): `bytes=--5`, and
  `bytes=5000-abc` or `bytes=5000-10` of an archive of at most 5000 bytes, are
  answered with 416. `RangeAnswered` calls these headers `Hasty`.
- web.go:127-128: "A syntactically valid but unsatisfiable range yields 416". Not if
  a number is beyond int64: `strconv.ParseInt` fails as it does for no number, and
  the answer is 200 and everything (web.go:157).
- README.md:40 and metrics.go:29: archives_total counts what "reached the file list
  stage". The answers 404 (web.go:290) and 416 (web.go:331) come behind
  `generateFileList` and are not counted, as web.go:270-272 means it and `Accounted`
  states it.
- README.md:40: a client that hung up is client_gone. `Zip.Write` drops the error of its
  deferred Close (zip.go:155), which writes the central directory and flushes what is
  held back: a client that hangs up there is counted ok, and so is a body that ran on
  and left no room for the directory. tar.go:115-117 returns the error. In zip
  `OutcomeTold` promises for ok no more than that every entry was written, and the last
  byte only if the client is still there.
- archive.go:10-12: "Write can emit any byte range [start, end] independently". Both
  writers drop the length of a body that ends early without an error
  (tarhttp/writer.go:135; ziphttp/writer.go:517 drops only the checksum for it) and
  advance by the full size: every later byte comes too early. And `fetch.HTTP` takes
  a 200 for an answer to a request with a Range (fetch.go:67), whose body is copied to
  its end: the file's beginning where its middle belongs. `OnlyBodiesMisplace` and
  `OnlyTheAbortMisplaces` say that nothing else misplaces a byte, the deferred Close
  of zip apart.
- ziphttp/writer.go:483-485, README.md:27-29: what `tar_silent` shows of tar is the same
  in zip.
- crc.go:14-16 and ziphttp/writer.go:398-399: a checksum of 0 is "unknown" to extractors,
  "never a mismatch". Not to the package's own reader: it compares the descriptor's
  checksum, always 0 (writer.go:440), with the directory's (reader.go:446) and the
  content's with the directory's (reader.go:211). Only the tests use it, and
  `testRead` (writer_test.go:70) drops the error.

### What the models made visible besides

No disagreements, but what a reader of the models should know of the code.

- The source of the ETag does not tell zip from tar, which have urls of their
  own, and a torrent with `?paths=` in a file's path could have two archives of
  one ETag. No torrent of the instances has.
- A mistyped X-Origin-Path, or one with a slash behind it, is answered with an
  empty archive and 200; a selection that meets nothing is a 404. A value of
  `?paths=` may have slashes around it, but not two inside it.
- The error of the first connection to the torrent store is kept for ever: from
  then on the pod answers 500 to every request whose list is not in the cache.

### Bounds

`prefetch_safety` has nine files: three that do not fit the budget together,
three small ones that fit besides one of them (so that Depth bounds the
read-ahead and not the budget), an empty one and one above the limit. Depth 2
is the least at which two prefetches are open besides the one being consumed.
Windows begin and end at any content byte of that archive; one that begins or
ends in a header cuts the same files in the same places. The live run has four
files, two of them with one path, a budget of 4 that does not hold them all,
any of them or none cold, and windows that cut the first or the last one. The
writers have four entries: a directory, a file whose content does not fill its
blocks, an empty file, and one with a longer header; every window and one
resume. One resume suffices to glue two responses; a second one adds no new
seam. In the runs that pass the `bufio.Writer` holds 1 byte (the program's 4096) and
net/http 2 (2048 and 4096), less than most entries, and one of them alone less than
the smallest header. Upstream refuses files, breaks off bodies, and answers a part
with the whole file, which is both a body that begins elsewhere and one that is too
long; in `zip_writer` bodies end too early besides. Short bodies of a tar, a body one
byte too long and resets are in the modules and the proofs, not in a run that passes.
The runs that expect a violation have the one fault they are about. Faults are not
bounded in number, only by the length of the plan.

`tar_writer` scales the header down: blocks of 2 bytes instead of 512, names of
4 instead of 100, octal fields up to 35 instead of 2^33 - 1, a frame of 2 bytes
around a record instead of 7, which puts the record of the fourth name just
where its length takes one more digit than its first guess. Times lie below, at
and beyond the ends of their field.

`pod` has two requests: the first asks in each of 36 ways (ranges on and around
the ends of the archive, paths, selections, a missing header, too many values),
the second in one that is written differently but means what one of the first's
does. Two are the least to share a pull, to leave one another behind and to
compare ETags. The torrents have a folder whose name begins like another's, an
empty component, both kinds of padding, and the single file. Names are at most 4
codes instead of 65535, values at most 3 instead of 1024, the largest int64 is 90.
Faults: the port cannot
be bound, the store cannot be dialled, it does not answer the pull, upstream
fails, or its connection is reset.

`crc_resume` has a file of two and a half intervals, three requests of which two
at a time are at work, and one window of somebody else. Three requests are the
least for a checkpoint written by a resume to seed another; `MaxGap` is
2 * (`Interval` - 1), the most two restarted intervals can leave, where the code
has the ratio 4. `zip_format` scales the fields down, 3 instead of 65536 counts
and 200 instead of 2^32 - 1 for numbers, and keeps the lengths of all
structures; sizes are chosen so that offsets fall below, on and beyond the end
of the field. The reader's literal 0xffff for the directory's size
(reader.go:499) only makes it look for a locator that is not there.

### Fairness

`FairSpec` of Prefetch assumes that a goroutine that can go on does, that a
cancelled context reaches everything blocked on it (net/http and `ctx.Done`),
and that the client reads or goes away. It assumes nothing of upstream: the
transport has no response timeout (configure.go:60-63). `AnsweredSpec` adds
that upstream answers for every file but the cold one; that is what
`ColdFileBlocksNoOther` and `Completes` are about. The writers assume that the
handler runs on, its count included, that a write net/http must refuse is refused
(`Refused`, `CloseUnheard`), and that upstream answers one way or another; the client is never obliged to leave or to resume. `Pod` assumes that
handlers take their own steps, that a pull ends within its ten seconds
(torrent_store.go:109), that Write ends once its client is gone, which is what
the writers and `NothingOutlives` show, and that `run()` goes on, its drain with
its limit. Nobody is obliged to stop the process, and a download whose client
stays may last for ever.

## Proofs

What follows holds for every value of the constants that their assumptions
allow; the runs show the same properties on one instance each. Every safety
property of the runs that pass is proved, and so are the three refinements.

**Windows.** `ClipExact` (what is let through is exactly the chunk's intersection
with the window, `partial` and `skip` say so) and `WholeExact`, for all integers
that a caller can pass. `ParseRangeExact` (a well-formed header whose numbers an
int64 holds gets exactly the bytes it asks for, or 416 if there are none; any other
200 and everything, or 416 if it is `Hasty`; for any size) and `WindowInside` (what
is announced and given to Write is never empty nor beyond the archive).

**Prefetch.** Assumed are NewPrefetcher's guard (`ConfigAssumption`), a plan of
natural sizes whose contents do not overlap (`PlanAssumption`: the writers lay
them out one behind the other) and that `Total` sums sizes over sets of
positions (`TotalAssumption`; a recursive sum would put the theorem out of the
prover's reach, so the sum is a constant with its defining equations, and the
TLC instances check them). Four invariants stand on one another.

- `IInv` gives `TypeCorrect` and `BudgetHolds`. `BudgetExact` (the ledger is the
  sum over the map's entries) is not inductive: `release` subtracts the size of
  the file its *record* names. `EntriesMatch` adds that each pointer in the map
  is a record of its own position, `ControlOK` that the writer's locals mean
  something where they are used.
- `KInv` adds `PlanOK`, that the scan's cursor is in front of the writer and on a
  file of the url asked for, and `BufferOK`, that what is buffered is the whole
  of its file and that the writer waits only for an entry that is in the map
  under the file it has found. It gives `PlanKept`, `BodyRight` and
  `ImplementsPlain`, the refinement of PlainFetch, in which one lemma per kind
  of step names the step of PlainFetch it is. The last two suppose
  `OnePathOneFile`, that files of one path have one size: a file is found by its
  url, and the buffer holds the first of that url. `FailuresOwn` needs no
  invariant.
- `LInv` adds where each record is: in the map, or of a file the writer has left,
  or the failed one of the file it now fetches live (`Started`), and that a whole
  file is fetched live only where it has no entry (`LiveWhole`). It gives
  `FetchedOnce` and `LeavesNothing`, under `DistinctUrls`, as `locate` would
  otherwise find a file in front of the one the writer is at.
- `FInv` gives `AheadBounded`. `LeavesNothing` says where records may be left
  behind while an archive goes well; to count them it takes more. `Near`: each
  entry of the map is of the file of the last fetch or of the Depth files behind
  it, and starts inside the window. A file cut on the left is never read ahead,
  so nothing is ever left at its position, and behind a file cut on the right
  nothing is fetched any more (`InsideInOrder`). `InHand`: a record that has left
  the map is done, and failed or served. What is open or wasted is then in the
  map, and the map has room for Depth + 1 positions (`FewNear`).

**Writers.** `TarWriterProofs` and `ZipWriterProofs` prove every safety property
of their runs for any entries, layout, windows, number of resumes and upstream.
`exact` is history: whether every body upstream has ended so far was what had been
asked for. As long as it was, the inductive invariant ties the three
accounts of one position together (`IInv`): `current` to the place of the entry in hand,
`out` to the part of the window in front of `current`, and in the sizing pass
`size + out` to the same place. The step that emits a chunk then needs one fact
of `Clip`: the part of a chunk it keeps begins where the part of everything in
front of the chunk ends, which `ArchiveWriterProofs` proves for all windows. Once
an error is being told the account is given up for the weaker one that what is
sent is no more than what is announced. In zip the invariant holds up to
`wrong`, and `AbortMisplaces` says which step can set it. `IInv` is lost with the
first other body; what holds all the same is how a response ends (`EndOK`), what
the size pass has measured (`SizeOK`), and that a zip has handed over nothing as
long as its cursor has not come to the window (`HeldOK`).

Where the code keeps its promise only while bodies are what was asked for, the
property says so by `exact`: `AnnouncedLength`, `OnlyBodiesMisplace`,
`OnlyTheAbortMisplaces`, and of `OutcomeTold` that ok means all that was announced.
`TypeCorrect` has it too. `HeldBackBounded` does not need it: it is what is left of the
promise that `tar_silent` refutes, that what the client has not been sent while
upstream is awaited fits in net/http's buffers. `OutcomeRight` supposes that no
upstream connection is reset; `outcome_reset` shows why. `DeliversStream`, that the
writers implement ArchiveStream, supposes `ExactBodies`: an upstream that refuses,
breaks off and resets as it likes, and sends no body too short, too long or whole
for a part.

**Tar headers.** `RecordsMeasureUp`: one correction of the first guess is enough
for a PAX record to claim the length it has. `HeaderReadsBack` and
`HeadersRight`: a reader gets back name and size of any entry. Both suppose that
names leave room in the size field of the PAX block (`NamesFit`, 2^33 - 1 bytes
in the program).

**CRC resume.** One invariant, `Inv`, parts of which hold on a condition, for any
number of requests, lengths, intervals, limits and failures of the store.

- Unconditionally the types hold (`CRCTypeCorrect`), with `Bounds`: a reader is
  no further from where its body began than a body that is the whole file.
- As long as upstream honours Range (`"whole" \notin Upstream`), or nothing has
  been lost yet, the store and all trackers are `Sound`. `StoreTrue` is not
  inductive: what is recorded next is some tracker's state. `Coherent` adds that
  each running state is that of the bytes in front of its reader, and its reader
  is where it believes to be. `StoreHolds` and `DirectoryHolds` follow;
  `crc_poison` shows that the assumption is needed.
- As long as nothing is lost, and if the gap fetch reaches far enough (`Roomy`,
  MaxGap >= 2 * Interval + MaxChunk - 3), `KeptAll`: wherever the download breaks
  off, some checkpoint, or the file's beginning, lies at most MaxGap below
  (`Reach`), and every request of the download is on its way from such an anchor,
  its next checkpoint due no later than two intervals behind it. `ChecksumKept`
  follows: resumed anywhere, over and over, the archive ends with the checksum.
  crc.go:30-33 says the nearest checkpoint is at most one interval below; it may
  be nearly two, because a tracker counts its interval from where it was seeded,
  and a read more, because a checkpoint is written at the end of one. The code's
  64 MiB over intervals of 16 MiB leave room enough.

**Zip format.** `HeaderReadBack` and `EndingReadBack`: the reader gets from a
directory header and from an ending what the writer put in, for all sizes,
offsets, counts and widths. `ReadsBack` and `BodiesFound` carry this to a whole
archive. `ZInv` says what there is of it: before Close only local headers and
descriptors, in front of where the writer believes to be (`Draft`), with each
entry's header and content at the offset its directory entry gives (`Stands`);
after it each directory header where the ones in front of it end, nothing behind
the last that could be taken for another, and an ending that leads to the first
(`Sealed`). The reader is somewhere on this way (`Reading`). That the headers of
a directory follow one another without overlapping is a fact of the recursive
`Starts`, for which `SetInduction` gets induction over the natural numbers out of
their being well-founded. `FormatTypeCorrect` adds that nothing lies beyond
what is written.

**Pod.** For any number of requests, of torrents and of ways to ask. `IInv` joins
the types, what the life of the process says of its requests (`Lifecycle`: none
before it serves, none behind the drain unless that took too long), what a status
line says of where its handler is (`StatusOK`), and that a missing file list has a
failed pull behind it (`PullsOK`). It gives `PodTypeCorrect`,
`ClosesBehindHandlers` and `LeaverHarmless`. `AccountsRight` counts: `StepKinds`
sorts all steps into those that keep the books, those by which one request enters
or leaves uncounted, and those by which one leaves counted; each moves one request
between the three sets whose sizes the metrics are. `RangesAnswered` is
`ParseRangeExact` through every interleaving, for the size that `ArchiveSize` finds,
which is never nothing (`PlanSize`).

**Files, folders and ETags.** `PlanProofs` is about torrents and requests of any
length. A recursive function over a sequence is first unrolled into its steps
(`KeptSteps`, `JoinedSteps`, `PartsSteps`, `WalkSteps`, `EntriesSteps`,
`SizeSteps`), which exist by `Iteration`; what holds of it is then an induction
over them (`SeqInduction`, for a set in the place of a predicate).

- `FoldersRight`. `Framed` (each entry has its folders in front of it, and no
  folder is there twice) is kept by everything the walker emits, `AllUsed` (each
  folder has a file behind it) only by the file at its end: in between, a folder
  without a file is one of the name in hand (`Walking`). `WalkRight` is the sum of
  it, for every list of files.
- `SelectionRight`. The code compares strings, the README promises files by their
  folders. `PartsJoined` (Split undoes Join) makes a path and its components one
  thing, `UnderIs` the boundary-aware prefix a prefix of components, `SortedIs`
  the sorted selection the set of its values, and `KeptMapped` the two filters,
  one behind the other, a single one. In the invariant `MissingTold` says that
  a 404 and the statuses that are none stand for what the selection has met.
- `EtagsRight`. `PathEnds`: the path of an ETag's source ends at the first
  `?paths=`; `RestTells`: behind it the values can be told apart, none of them
  having a NUL in it, which `Admitted` says of every request behind `Arrive`'s
  check.

These three suppose of the data what the code does not look at: `WellNamed`, that
torrents keep to BEP 3 (a name, and no separator inside a component);
`WellAsked`, that path and values, once trimmed, are components with one slash
between them; `Unmarked`, that no path has `?paths=` in it. Each theorem states
the ones it needs, `MCPod` has TLC check that the instance's data are such, and
without them the properties do not hold: a trailing slash in X-Origin-Path
selects nothing, no file is under `a//b`, and a path with `?paths=` in it has the
ETag of another path with a selection.

Only model-checked: liveness (`Completes`, `NothingOutlives`,
`ColdFileBlocksNoOther`, `Ends`, `Answered`, `Stops`), which is out of the
prover's reach; and the runs that expect a violation.

## Not modelled

Zip time stamps, modes, versions and name encodings; the checksum of a tar header
block and its constant fields; `SetComment`, `Flush` and `RegisterCompressor` of
ziphttp, which nobody calls; the codecs (`register.go`), of which only the one
that stores is used; the reader's search for a comment and foreign extra fields.
Histograms, byte and per-fetch counters, which are sums nobody reads back. The
`MetaInfo` of metainfo.go, which nobody makes. Logging, redaction, the text of
headers and urls, content types and file names; which of a header and a query
value wins; TLS, HTTP transport and gRPC internals; flag parsing; the probe,
pprof and metrics servers (the probe is closed by a defer, so it may report ready
while the web service drains).

## Plan

Done: window arithmetic, read-ahead, the two writers with their outcomes, tar
headers, CRC resume, the zip format, the handler with file list, store client
and process, and the proofs above. Left: zip time stamps (two encodings of one
time, read back by the package).
