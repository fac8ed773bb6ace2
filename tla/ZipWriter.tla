----------------------------- MODULE ZipWriter -----------------------------
(***************************************************************************)
(* ziphttp.Writer and services.Zip as far as the bytes of the stream go:   *)
(* local headers, content streamed from upstream, data descriptors and the *)
(* central directory, which Zip.Write emits from a deferred Close, also on *)
(* its way out of an error.  Checksums are another module's subject.       *)
(***************************************************************************)
EXTENDS ArchiveWriter

CONSTANTS
    DescriptorLen,  \* bytes of the data descriptor behind each file
    EndingLen       \* bytes of the central directory of so many entries

ASSUME LengthAssumption ==
    /\ DescriptorLen \in [Entries -> Nat \ {0}]
    /\ EndingLen \in [0 .. NEntries -> Nat \ {0}]

EntryLen(k) ==
    IF k \in Dirs THEN HeaderLen[k] ELSE HeaderLen[k] + Size[k] + DescriptorLen[k]

ASSUME ZipLayout == \A k \in Entries : Place[k + 1] = Place[k] + EntryLen(k)

Ending == Place[NEntries + 1]
Total  == Ending + EndingLen[NEntries]

vars == <<request, writer, stream, verdict>>

NextEntry == at' = at + 1 /\ step' = "header"

\* CreateHeader, up to the content: the local header.
Header ==
    /\ step = "header" /\ at <= NEntries
    /\ Emit(Place[at], HeaderLen[at])
    /\ current' = current + HeaderLen[at]
    /\ IF at \in Dirs THEN NextEntry ELSE step' = "content" /\ at' = at
    /\ UNCHANGED <<request, verdict>>

\* Mutant of SkipContent: outside the window the offset stays.
SkipContentStays ==
    /\ step = "content" /\ ~Streams
    /\ size' = IF pass = "size" THEN size + Size[at] ELSE size
    /\ step' = "descriptor"
    /\ UNCHANGED <<pass, asked, win, resumes, exact, at, current, stream, verdict>>

\* writeFile with nothing to stream, or no url: only the offset moves on.
SkipContent ==
    /\ step = "content" /\ ~Streams
    /\ current' = current + Size[at]
    /\ size' = IF pass = "size" THEN size + Size[at] ELSE size
    /\ step' = "descriptor"
    /\ UNCHANGED <<pass, asked, win, resumes, exact, at, stream, verdict>>

\* Mutant of AskGap: every file may read something in front of the flush.
AskGapAlways ==
    /\ step = "content" /\ Streams
    /\ step' = "gap"
    /\ UNCHANGED <<request, at, current, stream, verdict>>

\* seedCRC: a file cut on the left may have the gap up to the cut read first, in
\* front of the flush; whatever comes of it, the content is next.
AskGap ==
    /\ step = "content" /\ Streams /\ Clipped(Size[at]).b > 0
    /\ step' = "gap"
    /\ UNCHANGED <<request, at, current, stream, verdict>>

AskUpstream ==
    /\ \/ step = "content" /\ Streams
       \/ step = "gap"
    /\ Flush
    /\ step' = "fetching"
    /\ UNCHANGED <<request, at, current, verdict>>

\* Mutant of UpstreamFails: a refused file is asked for again.
UpstreamFailsRetries ==
    /\ step = "fetching" /\ "refuse" \in Upstream
    /\ step' = "content"
    /\ UNCHANGED <<request, at, current, stream, verdict>>

\* Upstream refuses, or its body breaks off: CreateHeader returns the error
\* without moving the offset, Zip.Write returns through the deferred Close.
UpstreamFails ==
    /\ step = "fetching"
    /\ \/ ("refuse" \in Upstream \/ gone) /\ UNCHANGED stream
       \/ /\ "break" \in Upstream
          /\ \E n \in 0 .. Requested - 1 :
                Hand(ContentPlace + Clipped(Size[at]).b, n)
    /\ step' = "aborting"
    /\ err' \in UpstreamErrors
    /\ UNCHANGED <<request, at, current, gone, outcome>>

\* io.Copy takes the body to its end, wherever it begins and however long it is; a
\* length other than asked for only costs the checksum.
CopyContent ==
    /\ step = "fetching"
    /\ \E body \in Bodies : /\ Hand(body.place, body.len)
                            /\ exact' = (exact /\ body = Asked)
    /\ current' = current + Size[at]
    /\ step' = "descriptor"
    /\ UNCHANGED <<span, at, verdict>>

Descriptor ==
    /\ step = "descriptor"
    /\ Emit(ContentPlace + Size[at], DescriptorLen[at])
    /\ current' = current + DescriptorLen[at]
    /\ NextEntry
    /\ UNCHANGED <<request, verdict>>

\* Mutant of Close: the buffer is left as it is.
CloseUnflushed ==
    /\ step = "header" /\ at > NEntries
    /\ Emit(Ending, EndingLen[NEntries])
    /\ step' = "done"
    /\ UNCHANGED <<request, at, current, verdict>>

\* Writer.Close behind the last entry; the offset stays.
Close ==
    /\ step = "header" /\ at > NEntries
    /\ EmitAndFlush(Ending, EndingLen[NEntries])
    /\ step' = "done"
    /\ UNCHANGED <<request, at, current, verdict>>

\* The same Close on the way out of an error: a central directory of the entries
\* so far, clipped where the writer's offset stands.  None of its bytes has its
\* place there.  A buffered writer that failed stays failed, and one whose client
\* is gone may fail now; Close's own error is dropped.
AbortingClose ==
    /\ step = "aborting"
    /\ \/ err \in UpstreamErrors /\ EmitAndFlush(Total, EndingLen[at])
       \/ err \in UpstreamErrors /\ Overrun(Total + Clipped(EndingLen[at]).b,
                                            Kept(EndingLen[at]))
       \/ (err \notin UpstreamErrors \/ gone) /\ UNCHANGED stream
    /\ step' = "failed"
    /\ UNCHANGED <<request, at, current, verdict>>

\* Close behind the last entry cannot write, or writes more than was announced:
\* Zip.Write returns nil all the same.
CloseUnheard ==
    /\ pass = "write" /\ step = "header" /\ at > NEntries
    /\ \/ gone /\ UNCHANGED stream
       \/ Overrun(Ending + Clipped(EndingLen[NEntries]).b, Kept(EndingLen[NEntries]))
    /\ step' = "failed"
    /\ UNCHANGED <<request, at, current, verdict>>

\* What the step in hand writes or flushes, where it belongs; not of Close, whose
\* errors nobody hears.
Chunks ==
    CASE step = "header" /\ at <= NEntries -> Part(Place[at], HeaderLen[at])
      [] step \in {"content", "gap"} -> IF Streams THEN {Flushing} ELSE {}
      [] step = "fetching" -> Bodies
      [] step = "descriptor" -> Part(ContentPlace + Size[at], DescriptorLen[at])
      [] OTHER -> {}

\* Mutant of WriteFails: the error gets lost.
WriteFailsUnsaid ==
    /\ pass = "write" /\ gone /\ Chunks # {}
    /\ step' = "aborting"
    /\ UNCHANGED <<request, at, current, stream, verdict>>

\* The connection is gone and the write says so.
WriteFails ==
    /\ pass = "write" /\ gone /\ Chunks # {}
    /\ step' = "aborting" /\ err' = "write"
    /\ UNCHANGED <<request, at, current, stream, gone, outcome>>

\* net/http has been given more than was announced and says so.
Refused ==
    /\ \E chunk \in Chunks :
          /\ Overrun(chunk.place, chunk.len)
          /\ exact' = (exact /\ (step = "fetching" => chunk = Asked))
    /\ step' = "aborting" /\ err' = "length"
    /\ UNCHANGED <<span, at, current, gone, outcome>>

\* Mutant of Sized: the content is forgotten.
SizedWritten == step = "done" /\ StartWrite(passed)

\* Zip.Size adds the content bytes to those written.
Sized == step = "done" /\ StartWrite(size + passed)

Next ==
    \/ Header \/ SkipContent \/ AskGap \/ AskUpstream \/ UpstreamFails
    \/ CopyContent \/ Descriptor \/ Close \/ AbortingClose \/ Sized
    \/ CloseUnheard \/ WriteFails \/ Refused \/ Record \/ Resume \/ ClientGone
    \/ (Over /\ UNCHANGED vars)

Spec == Init /\ [][Next]_vars

FairSpec == Spec /\ WF_vars(Header \/ SkipContent \/ AskUpstream \/ UpstreamFails
                            \/ CopyContent \/ Descriptor \/ Close \/ AbortingClose
                            \/ CloseUnheard \/ Refused \/ Sized \/ Record)
-----------------------------------------------------------------------------
TypeOK ==
    /\ pass \in {"size", "write"} /\ size \in Nat
    /\ asked \in [b : Nat, e : Nat \cup {Unbounded}]
    /\ win \in [b : Nat, e : Nat \cup {Unbounded}]
    /\ at \in 1 .. NEntries + 1
    /\ step \in {"header", "content", "gap", "fetching", "descriptor",
                 "aborting", "done", "failed"}
    /\ current \in Nat /\ out \in Nat /\ passed \in 0 .. out /\ sent \in 0 .. passed
    /\ wrong \in BOOLEAN /\ resumes \in 0 .. MaxResumes /\ exact \in BOOLEAN
    /\ gone \in BOOLEAN /\ err \in {"nil", "write", "length", "fetch", "reset"}
    /\ outcome \in Outcomes \cup {"none"}

\* What the flush of ziphttp/writer.go:486 comes to: while the writer waits for
\* upstream, what the client has not been sent is in net/http's buffers, and no
\* more than they hold; also while the gap of a CRC resume is read, which happens
\* before the flush but only at the first byte of the window.
LittleHeldBack == step \in {"gap", "fetching"} => out - sent <= NetBuf

\* web.go:334 announces end-begin+1 bytes, computed by a pass of its own: a
\* response that ends without an error has exactly that many, unless upstream has
\* sent other bodies than asked for, and the whole archive is as long as the
\* layout says.
AnnouncedLength ==
    pass = "write" =>
        /\ size = Total
        /\ step = "done" /\ exact => passed = Announced

\* archive.go:10-12 "Write can emit any byte range [start, end] independently":
\* no byte the client was handed is out of place.
RightBytes == ~wrong

\* What does hand over a byte out of place: the deferred Close after a failed fetch,
\* and a body that ends elsewhere than was asked for; windows, broken bodies and
\* resumes never do.
OnlyTheAbortMisplaces == [][wrong' /\ ~wrong => step = "aborting" \/ ~exact']_vars

\* metrics.go:29-31 and 98-101, README.md:40: every response is counted once it is
\* over, under what became of it: client_gone if the client left, upstream_error if
\* upstream failed and the client was there, error only of a body that ran on or began
\* elsewhere, ok only if every entry was written out.  All that was announced need not
\* have been taken then: the deferred Close (zip.go:155) drops its error, be it that
\* the client has left or that there was too much for net/http.  What it adds after an
\* error never makes a broken response count as ok.
OutcomeTold ==
    outcome # "none" =>
        /\ step \in {"done", "failed"}
        /\ outcome = "ok" => at > NEntries /\ (exact => gone \/ passed = Announced)
        /\ outcome = "upstream_error" => err = "fetch" /\ ~gone
        /\ outcome = "client_gone" => gone
        /\ outcome = "error" => err = "length" /\ ~exact

\* README.md:40: ok, client_gone (the client hung up), upstream_error; fetch.go:18-21: a
\* proxy or swarm problem can be told apart from the client hanging up.
CountedAsItEnded ==
    /\ outcome = "ok" => passed = Announced
    /\ outcome = "client_gone" => gone

\* The download as the client counts it, over all its requests; whether what it
\* holds is intact is OnlyTheAbortMisplaces's subject.
Counted == INSTANCE ArchiveStream WITH
    want     <- IF pass = "size" THEN 0 ELSE asked.e - asked.b + 1,
    got      <- IF pass = "size" THEN 0 ELSE win.b - asked.b + sent,
    intact   <- TRUE,
    complete <- outcome # "none" /\ step = "done" /\ exact

\* archive.go:10-12: responses, however they break off, add up to the window the
\* client asked for, and only a client that holds all of it is told it is complete.
Delivers == Counted!Spec

\* Every request ends, and with it the download: complete, or given up by a
\* client that has resumed as often as it would.
Ends == <>[](pass = "write" /\ step \in {"done", "failed"})
=============================================================================
