----------------------------- MODULE TarWriter -----------------------------
(***************************************************************************)
(* tarhttp.Writer and services.Tar: headers, content streamed from         *)
(* upstream, padding to the block size, and the end-of-archive marker.     *)
(***************************************************************************)
EXTENDS ArchiveWriter, TarFormat

CONSTANT
    Meta        \* of each entry: the length of its name, whether that is ASCII,
                \* and the time it carries

ASSUME MetaAssumption ==
    Meta \in [Entries -> [len : Nat \ {0}, ascii : BOOLEAN, time : Int]]

\* The records of a name leave room in the size field of the PAX block, also next
\* to the record of a size: 2^33 - 1 bytes in the program.
ASSUME NamesFit ==
    \A k \in Entries : /\ Meta[k].len + Frame + 7 < 1000000
                       /\ Meta[k].len + 2 * Frame + 24 <= MaxOctal

\* The name as the archive should carry it.
NameOf(k) == [len |-> Meta[k].len, ascii |-> Meta[k].ascii, whole |-> TRUE]

\* What CreateHeader hands over first, were the entry of this size.
HeaderOf(k, bytes) == EncodeHeader(NameOf(k), bytes, Meta[k].time)

ASSUME TarHeaders == \A k \in Entries : HeaderLen[k] = EncodedLen(HeaderOf(k, Size[k]))

EntryLen(k) ==
    IF k \in Dirs THEN HeaderLen[k]
    ELSE HeaderLen[k] + Size[k] + Padding(Size[k])

ASSUME TarLayout == \A k \in Entries : Place[k + 1] = Place[k] + EntryLen(k)

vars == <<request, writer, stream, verdict>>

NextEntry == at' = at + 1 /\ step' = "header"

\* encodeHeader's blocks; a directory has nothing else.
Header ==
    /\ step = "header" /\ at <= NEntries
    /\ Emit(Place[at], HeaderLen[at])
    /\ current' = current + HeaderLen[at]
    /\ IF at \in Dirs THEN NextEntry ELSE step' = "content" /\ at' = at
    /\ UNCHANGED <<request, verdict>>

\* Mutant of SkipContent: outside the window the offset stays.
SkipContentStays ==
    /\ step = "content" /\ ~Streams
    /\ size' = IF pass = "size" THEN size + Size[at] ELSE size
    /\ step' = "padding"
    /\ UNCHANGED <<pass, asked, win, resumes, exact, at, current, stream, verdict>>

\* writeContent with nothing to stream: sizing, or outside the window.
SkipContent ==
    /\ step = "content" /\ ~Streams
    /\ current' = current + Size[at]
    /\ size' = IF pass = "size" THEN size + Size[at] ELSE size
    /\ step' = "padding"
    /\ UNCHANGED <<pass, asked, win, resumes, exact, at, stream, verdict>>

\* Mutant of AskUpstream: no flush in front of the fetch.
AskUpstreamUnflushed ==
    /\ step = "content" /\ Streams
    /\ step' = "fetching"
    /\ UNCHANGED <<request, at, current, stream, verdict>>

\* Everything in front of the content is flushed before upstream is asked.
AskUpstream ==
    /\ step = "content" /\ Streams
    /\ Flush
    /\ step' = "fetching"
    /\ UNCHANGED <<request, at, current, verdict>>

\* Mutant of UpstreamFails: a refused file is asked for again.
UpstreamFailsRetries ==
    /\ step = "fetching" /\ "refuse" \in Upstream
    /\ step' = "content"
    /\ UNCHANGED <<request, at, current, stream, verdict>>

\* Upstream refuses, or its body breaks off: write returns, nothing is flushed.
UpstreamFails ==
    /\ step = "fetching"
    /\ \/ ("refuse" \in Upstream \/ gone) /\ UNCHANGED stream
       \/ /\ "break" \in Upstream
          /\ \E n \in 0 .. Requested - 1 :
                Hand(ContentPlace + Clipped(Size[at]).b, n)
    /\ step' = "failed"
    /\ err' \in UpstreamErrors
    /\ UNCHANGED <<request, at, current, gone, outcome>>

\* io.Copy takes the body to its end, wherever it begins and however long it is.
CopyContent ==
    /\ step = "fetching"
    /\ \E body \in Bodies : /\ Hand(body.place, body.len)
                            /\ exact' = (exact /\ body = Asked)
    /\ current' = current + Size[at]
    /\ step' = "padding"
    /\ UNCHANGED <<span, at, verdict>>

Pad ==
    /\ step = "padding"
    /\ LET pad == Padding(Size[at])
       IN  IF pad > 0
           THEN /\ Emit(ContentPlace + Size[at], pad)
                /\ current' = current + pad
           ELSE UNCHANGED <<stream, current>>
    /\ NextEntry
    /\ UNCHANGED <<request, verdict>>

\* What the step in hand writes or flushes, where it belongs.
Chunks ==
    CASE step = "header" /\ at <= NEntries -> Part(Place[at], HeaderLen[at])
      [] step = "header" /\ at > NEntries -> {Chunk(Place[at], 2 * BlockSize)}
      [] step = "content" -> IF Streams THEN {Flushing} ELSE {}
      [] step = "fetching" -> Bodies
      [] step = "padding" -> IF Padding(Size[at]) > 0
                             THEN Part(ContentPlace + Size[at], Padding(Size[at])) ELSE {}
      [] OTHER -> {}

\* The connection is gone and the write says so; Tar.Write returns that error.
WriteFails ==
    /\ pass = "write" /\ gone /\ Chunks # {}
    /\ step' = "failed" /\ err' = "write"
    /\ UNCHANGED <<request, at, current, stream, gone, outcome>>

\* net/http has been given more than was announced and says so.
Refused ==
    /\ \E chunk \in Chunks :
          /\ Overrun(chunk.place, chunk.len)
          /\ exact' = (exact /\ (step = "fetching" => chunk = Asked))
    /\ step' = "failed" /\ err' = "length"
    /\ UNCHANGED <<span, at, current, gone, outcome>>

\* Mutant of Close: the buffer is left as it is.
CloseUnflushed ==
    /\ step = "header" /\ at > NEntries
    /\ Emit(Place[NEntries + 1], 2 * BlockSize)
    /\ current' = current + 2 * BlockSize
    /\ step' = "done"
    /\ UNCHANGED <<request, at, verdict>>

\* Writer.Close: two zero blocks, then the buffered writer is flushed.
Close ==
    /\ step = "header" /\ at > NEntries
    /\ EmitAndFlush(Place[NEntries + 1], 2 * BlockSize)
    /\ current' = current + 2 * BlockSize
    /\ step' = "done"
    /\ UNCHANGED <<request, at, verdict>>

\* Mutant of Sized: the content is forgotten.
SizedWritten == step = "done" /\ StartWrite(passed)

\* Tar.Size adds the content bytes to those written.
Sized == step = "done" /\ StartWrite(size + passed)

Next ==
    \/ Header \/ SkipContent \/ AskUpstream \/ UpstreamFails \/ CopyContent
    \/ Pad \/ Close \/ Sized
    \/ WriteFails \/ Refused \/ Record \/ Resume \/ ClientGone
    \/ (Over /\ UNCHANGED vars)

Spec == Init /\ [][Next]_vars

\* The writer runs on; upstream answers one way or another.
FairSpec == Spec /\ WF_vars(Header \/ SkipContent \/ AskUpstream \/ UpstreamFails
                            \/ CopyContent \/ Pad \/ Close \/ Sized \/ Refused
                            \/ Record)
-----------------------------------------------------------------------------
TypeOK ==
    /\ pass \in {"size", "write"} /\ size \in Nat
    /\ asked \in [b : Nat, e : Nat \cup {Unbounded}]
    /\ win \in [b : Nat, e : Nat \cup {Unbounded}]
    /\ at \in 1 .. NEntries + 1
    /\ step \in {"header", "content", "fetching", "padding", "done", "failed"}
    /\ current \in Nat /\ out \in Nat /\ passed \in 0 .. out /\ sent \in 0 .. passed
    /\ wrong \in BOOLEAN /\ resumes \in 0 .. MaxResumes /\ exact \in BOOLEAN
    /\ gone \in BOOLEAN /\ err \in {"nil", "write", "length", "fetch", "reset"}
    /\ outcome \in Outcomes \cup {"none"}

\* tarhttp/writer.go:117-119 "Everything written so far (this entry's header included)
\* reaches the client before we block on upstream".
FlushedBeforeBlocking == step = "fetching" => sent = out

\* What the flush of tarhttp/writer.go:120 comes to: while the writer waits for
\* upstream, what the client has not been sent is in net/http's buffers, and no
\* more than they hold.
LittleHeldBack == step = "fetching" => out - sent <= NetBuf

\* web.go:334 announces end-begin+1 bytes, computed by a pass of its own: a
\* response that ends without an error has exactly that many, unless upstream has
\* sent other bodies than asked for, and the whole archive is as long as the
\* layout says.
AnnouncedLength ==
    pass = "write" =>
        /\ size = Place[NEntries + 1] + 2 * BlockSize
        /\ step = "done" /\ exact => passed = Announced

\* archive.go:10-12 "Write can emit any byte range [start, end] independently":
\* whatever window, failures of upstream and resumes, no byte the client was
\* handed is out of place, except behind a body that ended elsewhere than was
\* asked for (io.Copy of tarhttp/writer.go:135 counts nothing).
OnlyBodiesMisplace == exact => ~wrong

\* metrics.go:29-31 and 98-101, README.md:40: every response is counted once it is
\* over, under what became of it: ok if net/http took all that was handed over, which
\* is all that was announced if upstream's bodies were what was asked for; client_gone
\* if the client left, upstream_error if upstream failed and the client was there;
\* error only of a body that ran on or began elsewhere.
OutcomeTold ==
    outcome # "none" =>
        /\ step \in {"done", "failed"}
        /\ outcome = "ok" => passed = out /\ (exact => passed = Announced)
        /\ outcome = "upstream_error" => err = "fetch" /\ ~gone
        /\ outcome = "client_gone" => gone
        /\ outcome = "error" => err = "length" /\ ~exact

\* tarhttp/writer.go:184-187: a reader gets back the name and the size of the entry
\* in hand, or of one like it with a size at the end of the field, and a header
\* whose length is that of its parts: the records of the PAX entry claim the
\* length they have, the fields hold what they are given.
HeadersReadBack ==
    at \in Entries =>
        \A bytes \in {Size[at]} \cup (MaxOctal - 1 .. MaxOctal + 2) :
            LET h == HeaderOf(at, bytes)
            IN  /\ Legible(h)
                /\ ReadName(h) = NameOf(at) /\ ReadSize(h) = bytes
                /\ h.time # -1

\* The download as the client sees it, over all its requests.
Delivers == Stream!Spec

\* Every request ends, and with it the download: complete, or given up by a
\* client that has resumed as often as it would.
Ends == <>[](pass = "write" /\ step \in {"done", "failed"})
=============================================================================
