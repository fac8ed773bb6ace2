----------------------------- MODULE CRCResume -----------------------------
(***************************************************************************)
(* How the checksum of one file survives a zip download that breaks off:   *)
(* the tracker (ziphttp/crc.go), its seeding and use by writeFile          *)
(* (ziphttp/writer.go) and the Redis store behind it                       *)
(* (services/crc_store.go), shared by any number of requests on any pods.  *)
(*                                                                         *)
(* The running CRC32 state after the file's first n bytes, and no others,  *)
(* is the number n; the state of anything else is Bad.  0 is also what the *)
(* central directory carries for "no checksum", as in the code.  Offsets   *)
(* are offsets into the file; the request's window is cut to the file.     *)
(***************************************************************************)
EXTENDS Integers, FiniteSets

CONSTANTS
    Requests,   \* requests of this file's archive, on whatever pod
    Len,        \* length of the file
    Interval,   \* DefaultCRCCheckpointInterval
    MaxGap,     \* MaxCRCGapFetch
    MaxChunk,   \* most bytes one read of a body returns
    Upstream,   \* what upstream may do: "refuse", "break", "short", "whole"
    Store,      \* what the store may do: "fail", "forget"
    Others,     \* windows of requests other than the download's
    AtOnce,     \* bound: requests at work at the same time
    NoRequest

ASSUME SizesAssumption ==
    /\ Len \in Nat \ {0} /\ Interval \in Nat \ {0} /\ MaxChunk \in Nat \ {0}
    /\ MaxGap \in Nat
    /\ Upstream \subseteq {"refuse", "break", "short", "whole"}
    /\ Store \subseteq {"fail", "forget"}
    /\ Others \subseteq [b : 0 .. Len, e : 0 .. Len]
    /\ \A w \in Others : w.b < w.e
    /\ AtOnce \in Nat /\ NoRequest \notin Requests

VARIABLES
    ckpts,      \* arch:ck: offset -> running state
    full,       \* arch:crc: the checksum of the whole file; 0 when absent
    req,        \* the requests
    client,     \* the download: the request it reads from, what it holds
    lost        \* history: something happened that may cost the checksum

vars == <<ckpts, full, req, client, lost>>

Bad == -1
Offsets == 0 .. 2 * Len
States == {Bad} \cup Offsets

\* `own': it serves the download.  [b, e) is its part of the file.  A body was
\* asked for at some offset of the file and the reader believes to be at `pos';
\* in truth the body goes on at byte `from' and ends at byte `until'.  `crc' is
\* what the directory gets.
Request == [pc : {"idle", "seed", "askgap", "gap", "fetch", "copy", "directory",
                  "done", "failed"},
            own : BOOLEAN, b : 0 .. Len, e : 0 .. Len, failed : BOOLEAN,
            anchored : BOOLEAN, state : States, pos : Offsets,
            from : 0 .. Len, until : 0 .. Len, next : Nat, crc : States]

Fresh == [pc |-> "idle", own |-> FALSE, b |-> 0, e |-> 0, failed |-> FALSE,
          anchored |-> FALSE, state |-> 0, pos |-> 0, from |-> 0, until |-> 0,
          next |-> 0, crc |-> 0]

Init ==
    /\ ckpts = [o \in {} |-> 0] /\ full = 0
    /\ req = [r \in Requests |-> Fresh]
    /\ client = [req |-> NoRequest, base |-> 0]
    /\ lost = FALSE

\* What is left of a request past the content: what it puts into the directory,
\* if its window reaches that far.
Past(q, pc) == [Fresh EXCEPT !.pc = pc, !.own = q.own,
                             !.crc = IF pc = "failed" THEN 0 ELSE q.crc]

Set(r, record) == req' = [req EXCEPT ![r] = record]
-----------------------------------------------------------------------------
(* The store: every operation is best effort.                              *)

\* An operation of request r may run: the first failure disables the rest.
Usable(r) == ~req[r].failed

\* It fails: Redis is away or slow, or the request's context is cancelled.
Fails == "fail" \in Store /\ lost' = TRUE

\* What HSET leaves when the state at offset o is recorded.
Recorded(o, state) ==
    [x \in DOMAIN ckpts \cup {o} |-> IF x = o THEN state ELSE ckpts[x]]

\* PutCheckpoint by request r, whose record is otherwise to become `record'.
PutCheckpoint(r, o, state, record) ==
    \/ /\ Usable(r)
       /\ ckpts' = Recorded(o, state) /\ Set(r, record) /\ UNCHANGED lost
    \/ Usable(r) /\ Fails /\ Set(r, [record EXCEPT !.failed = TRUE]) /\ UNCHANGED ckpts
    \/ ~Usable(r) /\ Set(r, record) /\ UNCHANGED <<ckpts, lost>>

\* PutCRC, likewise; it is the file's last operation.
PutCRC(r, crc, record) ==
    \/ Usable(r) /\ full' = crc /\ Set(r, record) /\ UNCHANGED lost
    \/ Usable(r) /\ Fails /\ Set(r, record) /\ UNCHANGED full
    \/ ~Usable(r) /\ Set(r, record) /\ UNCHANGED <<full, lost>>

\* The keys expire.
Forget ==
    /\ "forget" \in Store
    /\ lost' = TRUE
    /\ \/ ckpts' = [o \in {} |-> 0] /\ UNCHANGED full
       \/ full' = 0 /\ UNCHANGED ckpts
    /\ UNCHANGED <<req, client>>
-----------------------------------------------------------------------------
(* Zip.Write: a window not beginning with the archive asks for the known   *)
(* checksums first.  A file the window leaves out only has its entry in    *)
(* the directory.                                                          *)

Begin(r, own, b, e) ==
    \E early \in (IF b > 0 THEN {TRUE} ELSE BOOLEAN), ok \in BOOLEAN :
        LET q == [Fresh EXCEPT !.pc = "seed", !.own = own, !.b = b, !.e = e, !.failed = ~ok,
                               !.crc = IF early /\ ok THEN full ELSE 0]
        IN  /\ ok \/ (early /\ "fail" \in Store)
            /\ lost' = (lost \/ ~ok)
            /\ Set(r, IF b = e THEN Past(q, "directory") ELSE q)

Active(r) == req[r].pc \notin {"idle", "done", "failed"}

Free(r) == req[r].pc = "idle" /\ Cardinality({x \in Requests : Active(x)}) < AtOnce

\* The client asks for the archive, or for the rest of it.
Download(r) ==
    /\ Free(r) /\ client.req = NoRequest
    /\ Begin(r, TRUE, client.base, Len)
    /\ client' = [client EXCEPT !.req = r]
    /\ UNCHANGED <<ckpts, full>>

\* Somebody else asks for some window of it.
OtherRequest(r) ==
    /\ Free(r)
    /\ \E w \in Others : Begin(r, FALSE, w.b, w.e)
    /\ UNCHANGED <<ckpts, full, client>>

\* GetCheckpoint: the highest offset up to the limit.
BestBelow(limit, o) ==
    /\ o \in DOMAIN ckpts /\ o <= limit
    /\ \A x \in DOMAIN ckpts : x <= limit => x <= o

\* The content is next, with an anchor for its tracker or without.
Content(q, anchored, state) ==
    [q EXCEPT !.pc = "fetch", !.anchored = anchored, !.state = IF anchored THEN state ELSE 0,
              !.pos = 0, !.from = 0, !.until = 0, !.next = 0]

\* seedCRC with (off, state) for an anchor.
Seeded(q, off, state) ==
    IF off < q.b /\ q.b - off <= MaxGap
    THEN [q EXCEPT !.pc = "askgap", !.pos = off, !.state = state]
    ELSE Content(q, off = q.b, state)

Seed(r) ==
    /\ req[r].pc = "seed"
    /\ LET q == req[r]
       IN  \/ /\ q.b > 0 /\ Usable(r)
              /\ \E o \in DOMAIN ckpts : BestBelow(q.b, o) /\ Set(r, Seeded(q, o, ckpts[o]))
              /\ UNCHANGED lost
           \/ /\ q.b > 0 /\ Usable(r) /\ Fails
              /\ Set(r, Seeded([q EXCEPT !.failed = TRUE], 0, 0))
           \/ /\ q.b = 0 \/ ~Usable(r) \/ \A o \in DOMAIN ckpts : o > q.b
              /\ Set(r, Seeded(q, 0, 0))
              /\ UNCHANGED lost
    /\ UNCHANGED <<ckpts, full, client>>
-----------------------------------------------------------------------------
(* Reading a body: fetchCRCGap's, or the content's.                        *)

BodyInclusive(b, e) ==  \* mutant: the Range header's end is not end-1
    {[from |-> b, until |-> e + 1]}

\* A body asked for as [b, e) begins at b and ends at e; from a proxy that
\* ignores Range it is the whole file.
Body(b, e) ==
    {[from |-> b, until |-> e]} \cup
    (IF "whole" \in Upstream THEN {[from |-> 0, until |-> Len]} ELSE {})

\* A body opens at offset b; the first checkpoint is due an interval later.
Opened(r, b, body, pc) ==
    [req[r] EXCEPT !.pc = pc, !.pos = b, !.from = body.from, !.until = body.until,
                   !.next = b + Interval]

\* The bytes between the anchor and the cut are asked for; upstream refusing
\* them costs the checksum only.
AskGap(r) ==
    /\ req[r].pc = "askgap"
    /\ LET q == req[r]
       IN  \/ \E body \in Body(q.pos, q.b) :
                 /\ Set(r, Opened(r, q.pos, body, "gap"))
                 /\ lost' = (lost \/ body.until # q.b)
           \/ /\ "refuse" \in Upstream
              /\ Set(r, Content(q, FALSE, 0))
              /\ lost' = TRUE
    /\ UNCHANGED <<ckpts, full, client>>

DigestLate(r, k) ==     \* mutant: a checkpoint that is just due waits for more bytes
    LET q     == req[r]
        pos   == q.pos + k
        state == IF q.state = q.from THEN q.from + k ELSE Bad
        moved == [q EXCEPT !.pos = pos, !.from = @ + k, !.state = state]
    IN  IF pos > q.next
        THEN PutCheckpoint(r, pos, state, [moved EXCEPT !.next = pos + Interval])
        ELSE Set(r, moved) /\ UNCHANGED <<ckpts, lost>>

\* crcTracker.Write of k bytes: it digests them and, an interval after the last
\* checkpoint, records the next.
Digest(r, k) ==
    LET q     == req[r]
        pos   == q.pos + k
        state == IF q.state = q.from THEN q.from + k ELSE Bad
        moved == [q EXCEPT !.pos = pos, !.from = @ + k, !.state = state]
    IN  IF pos >= q.next
        THEN PutCheckpoint(r, pos, state, [moved EXCEPT !.next = pos + Interval])
        ELSE Set(r, moved) /\ UNCHANGED <<ckpts, lost>>

ReadGap(r) ==
    /\ req[r].pc = "gap"
    /\ \E k \in 1 .. MaxChunk : req[r].from + k <= req[r].until /\ Digest(r, k)
    /\ UNCHANGED <<full, client>>

GapEndsAnyhow(r) ==     \* mutant: a gap read in part will do
    /\ req[r].pc = "gap"
    /\ LET q == req[r]
       IN  /\ q.from = q.until \/ Upstream \cap {"short", "break"} # {}
           /\ Set(r, Content(q, TRUE, q.state))
           /\ lost' = (lost \/ q.from < q.until)
    /\ UNCHANGED <<ckpts, full, client>>

\* The gap's body ends, or breaks off with an error or without one.  Only the
\* exact length counts.
GapEnds(r) ==
    /\ req[r].pc = "gap"
    /\ LET q == req[r]
       IN  \/ /\ q.from = q.until
              /\ Set(r, Content(q, q.pos = q.b, q.state))
              /\ UNCHANGED lost
           \/ /\ q.from < q.until /\ Upstream \cap {"short", "break"} # {}
              /\ Set(r, Content(q, FALSE, 0))
              /\ lost' = TRUE
    /\ UNCHANGED <<ckpts, full, client>>

\* writeFile's own fetch.
AskContent(r) ==
    /\ req[r].pc = "fetch"
    /\ LET q == req[r]
       IN  \E body \in Body(q.b, q.e) :
              /\ Set(r, Opened(r, q.b, body, "copy"))
              /\ lost' = (lost \/ body # [from |-> q.b, until |-> q.e])
    /\ UNCHANGED <<ckpts, full, client>>

\* A read of the content goes to the tracker, if there is an anchor, before it
\* goes to the client.
ReadContent(r) ==
    /\ req[r].pc = "copy"
    /\ \E k \in 1 .. MaxChunk :
          /\ req[r].from + k <= req[r].until
          /\ IF req[r].anchored
             THEN Digest(r, k)
             ELSE /\ Set(r, [req[r] EXCEPT !.pos = @ + k, !.from = @ + k])
                  /\ UNCHANGED <<ckpts, lost>>
    /\ UNCHANGED <<full, client>>

\* Behind the content: the directory is in the window if the file's end is.
Behind(q) == IF q.e = Len THEN "directory" ELSE "done"

\* The content ends; what the tracker knows is recorded.
ContentEnds(r) ==
    /\ req[r].pc = "copy" /\ req[r].from = req[r].until
    /\ LET q    == req[r]
           past == Past(q, Behind(q))
       IN  IF q.anchored /\ q.pos = q.e
           THEN IF q.e = Len
                THEN PutCRC(r, q.state, [past EXCEPT !.crc = q.state]) /\ UNCHANGED ckpts
                ELSE PutCheckpoint(r, q.e, q.state, past) /\ UNCHANGED full
           ELSE Set(r, past) /\ UNCHANGED <<ckpts, full, lost>>
    /\ UNCHANGED client

ContentShortKnown(r) == \* mutant: nobody counts the bytes
    /\ "short" \in Upstream
    /\ req[r].pc = "copy" /\ req[r].from < req[r].until
    /\ LET past == Past(req[r], Behind(req[r]))
       IN  Set(r, IF req[r].anchored THEN [past EXCEPT !.crc = req[r].state] ELSE past)
    /\ lost' = TRUE
    /\ UNCHANGED <<ckpts, full, client>>

\* It ends early, without an error: no checksum.
ContentShort(r) ==
    /\ "short" \in Upstream
    /\ req[r].pc = "copy" /\ req[r].from < req[r].until
    /\ Set(r, Past(req[r], Behind(req[r])))
    /\ lost' = TRUE
    /\ UNCHANGED <<ckpts, full, client>>

\* Close writes the central directory.
Directory(r) ==
    /\ req[r].pc = "directory"
    /\ Set(r, Past(req[r], "done"))
    /\ UNCHANGED <<ckpts, full, client, lost>>
-----------------------------------------------------------------------------
(* The end of a request, or of the client's connection.                    *)

\* What the client may have received of the file when r is cut off; the tail of
\* what was sent is lost with the connection.  A client left with all of the file
\* while its checksum is not recorded yet has nobody to get it from.
HangUp(r) ==
    \E held \in client.base .. Len :
        /\ CASE req[r].pc = "copy" -> held <= req[r].pos
             [] req[r].pc \in {"directory", "done"} -> TRUE
             [] OTHER -> held = client.base
        /\ client' = [req |-> NoRequest, base |-> held]
        /\ lost' = (lost \/ (req[r].pc = "copy" /\ held = Len))

\* The pod is killed, writing to the client fails, its context is cancelled, or
\* upstream refuses the content or breaks it off.
Die(r) ==
    /\ Active(r)
    /\ Set(r, Past(req[r], "failed"))
    /\ IF client.req = r THEN HangUp(r) ELSE UNCHANGED <<client, lost>>
    /\ UNCHANGED <<ckpts, full>>

\* The client is cut off and the server has not noticed: r goes on.
Cut(r) ==
    /\ Active(r) /\ client.req = r
    /\ HangUp(r)
    /\ UNCHANGED <<ckpts, full, req>>

Step(r) ==
    \/ Download(r) \/ OtherRequest(r) \/ Seed(r)
    \/ AskGap(r) \/ ReadGap(r) \/ GapEnds(r)
    \/ AskContent(r) \/ ReadContent(r) \/ ContentEnds(r) \/ ContentShort(r)
    \/ Directory(r) \/ Die(r) \/ Cut(r)

Over == (\A r \in Requests : ~Active(r)) /\ UNCHANGED vars

Next == (\E r \in Requests : Step(r)) \/ Forget \/ Over

Spec == Init /\ [][Next]_vars
-----------------------------------------------------------------------------
\* The values the variables take.
TypeOK ==
    /\ DOMAIN ckpts \subseteq Offsets /\ \A o \in DOMAIN ckpts : ckpts[o] \in States
    /\ full \in States
    /\ req \in [Requests -> Request]
    /\ client \in [req : Requests \cup {NoRequest}, base : 0 .. Len]
    /\ lost \in BOOLEAN

\* crc.go:23-25 "Implementations only ever receive states anchored at byte 0 (the
\* writer guarantees this)": whatever requests of whatever pods overlap, break off
\* or lose their store half way, each checkpoint is the state of the very prefix it
\* is filed under, and a stored checksum that of the whole file.
StoreTrue ==
    /\ \A o \in DOMAIN ckpts : ckpts[o] = o
    /\ full \in {0, Len}

\* ziphttp/writer.go:395-399: the central directory carries the checksum of the
\* whole file or none, never one that makes extractors reject the archive.
DirectoryNeverWrong ==
    \A r \in Requests : req[r].pc = "done" => req[r].crc \in {0, Len}

\* crc.go:30-38, crc_test.go:157-160: a download broken off and resumed anywhere,
\* over and over, ends with the real checksum: an anchor stays within reach of
\* MaxCRCGapFetch, although resumes start new intervals, unless a store or gap
\* failure, or a cut between the last byte and its recording, lost it.
ChecksumSurvives ==
    \A r \in Requests : req[r].pc = "done" /\ req[r].own /\ ~lost => req[r].crc = Len
=============================================================================
