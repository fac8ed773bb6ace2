--------------------------- MODULE ArchiveWriter ---------------------------
(***************************************************************************)
(* What the zip and the tar writer have in common, and the handler around  *)
(* them (services/web.go): a request runs the writer twice over the same   *)
(* file list, first without urls and with an open window to learn the      *)
(* size, then with the window the client asked for; a client whose         *)
(* download broke off asks again for the rest.                             *)
(*                                                                         *)
(* Bytes are not modelled, their places are: every byte of the archive is  *)
(* known by its offset, and the writer is right if the k-th byte it sends  *)
(* is the byte at offset win.b + k.  A chunk's place is fixed by the       *)
(* layout (Place, ...), not by the writer's own cursor `current'.          *)
(*                                                                         *)
(* On its way to the client a byte is held twice: in the bufio.Writer all  *)
(* chunks are handed to (out, passed), and in the buffers of net/http      *)
(* (passed, sent), which nothing empties before the handler has returned:  *)
(* meteredWriter has no Flush.                                             *)
(***************************************************************************)
EXTENDS Integers, RangeClip, Metrics

CONSTANTS
    NEntries,   \* entries of the archive, directories included
    Dirs,       \* which of them are directories
    HeaderLen,  \* bytes of each entry's header block(s)
    Size,       \* content bytes; 0 for a directory
    Place,      \* archive offset of each entry; of the ending at NEntries+1
    WriterBuf,  \* bytes the bufio.Writer may hold back: 4096
    NetBuf,     \* bytes net/http may hold back: 2048 and 4096
    MaxResumes, \* bound: how often the client asks for the rest
    Upstream    \* what upstream may do besides answering as asked, see below

\* Refuse a file, break off its body, reset the connection; or end a body with no
\* error too early or a byte too late, or send the whole file where a part of it
\* was asked for, which fetch.HTTP takes: any status below 300 will do.
UpstreamWays == {"refuse", "break", "reset", "short", "long", "whole"}

Entries == 1 .. NEntries

ASSUME LayoutAssumption ==
    /\ NEntries \in Nat
    /\ Dirs \subseteq Entries
    /\ HeaderLen \in [Entries -> Nat \ {0}]
    /\ Size \in [Entries -> Nat]
    /\ \A k \in Dirs : Size[k] = 0
    /\ Place \in [1 .. NEntries + 1 -> Nat]
    /\ Place[1] = 0
    /\ WriterBuf \in Nat /\ NetBuf \in Nat /\ MaxResumes \in Nat
    /\ Upstream \subseteq UpstreamWays

VARIABLES
    pass,       \* "size" (Archive.Size) or "write" (Archive.Write)
    size,       \* what Size returned: the Content-Length of the whole archive
    asked,      \* the window of the client's first request
    win,        \* the window of the present one; [0, Unbounded] when sizing
    at,         \* the entry in hand
    step,       \* where the writer is with it
    current,    \* the writer's logical offset
    out,        \* bytes handed to the buffered writer in this pass
    passed,     \* those of them it has passed on, to net/http or Size's buffer
    sent,       \* those of these that net/http has sent to the client
    wrong,      \* history: a byte was handed over that has no place there
    resumes,    \* how often the client has resumed
    exact,      \* history: every body that ended was what had been asked for
    gone,       \* the client hung up on the present response
    err,        \* what Write returns, by what is in the error's chain
    outcome     \* the label the response was counted under; "none" before

span    == <<pass, size, asked, win, resumes>>
request == <<pass, size, asked, win, resumes, exact>>
stream  == <<out, passed, sent, wrong>>
writer  == <<at, step, current>>
verdict == <<gone, err, outcome>>

Init ==
    /\ pass = "size" /\ size = 0
    /\ asked = [b |-> 0, e |-> Unbounded] /\ win = asked
    /\ at = 1 /\ step = "header" /\ current = 0
    /\ out = 0 /\ passed = 0 /\ sent = 0 /\ wrong = FALSE
    /\ resumes = 0 /\ exact = TRUE
    /\ gone = FALSE /\ err = "nil" /\ outcome = "none"

\* The part of a chunk of length l that the window keeps.
Clipped(l) == Clip(current, win.b, win.e, l)

Kept(l) == IF Clipped(l).skip THEN 0 ELSE Clipped(l).e - Clipped(l).b

\* The Content-Length of the present response.
Announced == win.e - win.b + 1

\* n bytes whose place in the archive begins at offset place.
Takes(place, n) ==
    /\ out' = out + n
    /\ wrong' = (wrong \/ (pass = "write" /\ n > 0 /\ place # win.b + out))

\* What was passed on: net/http takes no more than it announced, and sends all but
\* what its buffers hold.
Leaves ==
    IF pass = "size" THEN sent' = 0
    ELSE passed' <= Announced /\ sent' \in sent .. passed' /\ passed' - sent' <= NetBuf

\* Bytes are handed to the buffered writer, which passes on what it cannot hold.
Hand(place, n) ==
    /\ Takes(place, n)
    /\ passed' \in passed .. out' /\ out' - passed' <= WriterBuf
    /\ Leaves

\* A chunk of length l belonging at place goes through the window.
Emit(place, l) ==
    IF Clipped(l).skip THEN UNCHANGED stream
    ELSE Hand(place + Clipped(l).b, Kept(l))

\* The same and then the buffered writer is flushed.
EmitAndFlush(place, l) ==
    Takes(place + Clipped(l).b, Kept(l)) /\ passed' = out' /\ Leaves

\* bufio.Writer.Flush: as far as net/http, not as far as the client.
Flush == passed' = out /\ Leaves /\ UNCHANGED <<out, wrong>>

\* More than was announced is handed over: net/http refuses the write that would go
\* beyond it, and the buffered writer takes nothing from then on.
Overrun(place, n) ==
    /\ pass = "write" /\ out + n > Announced
    /\ out' = out + n
    /\ passed' \in passed .. Announced /\ Leaves
    /\ wrong' = (wrong \/ (n > 0 /\ place # win.b + out /\ passed' > out))

ContentPlace == Place[at] + HeaderLen[at]

\* The content goes to the client: the size pass has no url to read it from.
Streams == pass = "write" /\ ~Clipped(Size[at]).skip

\* What the writer asks upstream for: how many bytes of the file.
Requested == Kept(Size[at])

\* What a step may hand over: a chunk through the window, nothing (a flush), or a
\* body as upstream ends it without an error.
Chunk(place, l) == [place |-> place + Clipped(l).b, len |-> Kept(l)]
Part(place, l) == IF Clipped(l).skip THEN {} ELSE {Chunk(place, l)}
Flushing == [place |-> ContentPlace, len |-> 0]
Asked == Chunk(ContentPlace, Size[at])
Bodies ==
    {Asked}
    \cup {[Asked EXCEPT !.len = n] : n \in IF "short" \in Upstream
                                           THEN 0 .. Requested - 1 ELSE {}}
    \cup (IF "long" \in Upstream THEN {[Asked EXCEPT !.len = @ + 1]} ELSE {})
    \cup (IF "whole" \in Upstream THEN {[place |-> ContentPlace, len |-> Size[at]]}
                                  ELSE {})

\* A failed fetch comes as a fetch.Error; where a connection was reset, the chain
\* holds ECONNRESET as well.
UpstreamErrors == {"fetch"} \cup (IF "reset" \in Upstream THEN {"reset"} ELSE {})

Fresh == gone' = FALSE /\ err' = "nil" /\ outcome' = "none"

\* ServeHTTP, between the passes: size is known, the client's range is read.
StartWrite(total) ==
    /\ pass = "size"
    /\ pass' = "write" /\ size' = total
    /\ \E b, e \in 0 .. total - 1 : b <= e /\ asked' = [b |-> b, e |-> e]
    /\ win' = asked'
    /\ at' = 1 /\ step' = "header" /\ current' = 0
    /\ out' = 0 /\ passed' = 0 /\ sent' = 0
    /\ Fresh
    /\ UNCHANGED <<wrong, resumes, exact>>

\* ServeHTTP, behind Write: the request is counted under its outcome and the
\* handler returns; only now net/http sends what it still holds, if the connection
\* stands to the end.
Record ==
    /\ pass = "write" /\ step \in {"done", "failed"} /\ outcome = "none"
    /\ outcome' = ArchiveOutcome(gone, err)
    /\ \/ ~gone /\ sent' = passed /\ step' = step
       \/ sent' \in sent .. passed /\ step' = "failed"
    /\ UNCHANGED <<request, at, current, out, passed, wrong, gone, err>>

\* The client's connection broke, with some of the bytes still on the way, or
\* the server gave up or ended too early: a new request for the rest, served from
\* the start.
Resume ==
    /\ outcome # "none" /\ (step = "failed" \/ sent < Announced)
    /\ resumes < MaxResumes
    /\ \E held \in 0 .. sent :
          /\ win.b + held <= win.e
          /\ win' = [win EXCEPT !.b = @ + held]
    /\ resumes' = resumes + 1
    /\ at' = 1 /\ step' = "header" /\ current' = 0
    /\ out' = 0 /\ passed' = 0 /\ sent' = 0 /\ Fresh
    /\ UNCHANGED <<pass, size, asked, wrong, exact>>

\* The client hangs up: net/http cancels the request context, and from now on a
\* write to it may fail, and so may the fetch in progress.
ClientGone ==
    /\ pass = "write" /\ ~gone /\ outcome = "none"
    /\ gone' = TRUE
    /\ UNCHANGED <<request, writer, stream, err, outcome>>

\* The request is over: the client got it all, or does not come back.
Over == outcome # "none" /\ (sent = Announced \/ resumes = MaxResumes)
-----------------------------------------------------------------------------
\* archive.go:10-12, in terms of what the client holds; a response is complete once
\* its handler has returned with no error on a connection that stood to the end.  A
\* body upstream ends elsewhere than it was asked to is beyond the promise.
Stream == INSTANCE ArchiveStream WITH
    want     <- IF pass = "size" THEN 0 ELSE asked.e - asked.b + 1,
    got      <- IF pass = "size" THEN 0 ELSE win.b - asked.b + sent,
    intact   <- exact => ~wrong,
    complete <- outcome # "none" /\ step = "done" /\ exact
=============================================================================
