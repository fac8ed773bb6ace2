-------------------------- MODULE CRCResumeProofs --------------------------
(***************************************************************************)
(* The checksum store never holds, and the central directory never carries *)
(* a checksum of anything but the file, and a download that is broken off  *)
(* and resumed anywhere keeps its checksum, for any number of requests,    *)
(* lengths, intervals, windows, upstreams and store failures.              *)
(***************************************************************************)
EXTENDS CRCResume, TLAPS

Working == {"seed", "askgap", "gap", "fetch", "copy"}

\* What TypeOK needs of a record to stay true: the reader does not run away from the
\* body it reads, and there is something of the file in the window.
Bounds(q) ==
    /\ q.pos <= q.from + Len
    /\ q.pc \in Working => q.b < q.e
    /\ q.pc = "askgap" => q.pos < q.b
    /\ q.pc = "idle" => ~q.own

\* A running state, wherever there is one, is that of the bytes in front of the
\* reader, and the reader is where it believes to be.
Coherent(q) ==
    /\ q.pc = "askgap" => q.state = q.pos
    /\ q.pc = "gap" => q.state = q.pos /\ q.from = q.pos
    /\ q.pc = "fetch" /\ q.anchored => q.state = q.b
    /\ q.pc = "copy" => q.from = q.pos /\ (q.anchored => q.state = q.pos)

Right(q) == q.crc \in {0, Len} /\ Coherent(q)

\* StoreTrue is not inductive: what is recorded next is some tracker's state, so
\* every tracker must be right about the bytes it has digested.
Sound == StoreTrue /\ \A r \in Requests : Right(req[r])

\* Where a tracker can start: at a checkpoint, or at the beginning of the file.
Anchors == DOMAIN ckpts \cup {0}

Covered(x, A) == \E o \in A : o <= x /\ x - o <= MaxGap

\* Wherever up to n the download breaks off, an anchor is near enough.
Reach(n, A) == \A x \in 0 .. n : Covered(x, A)

\* What a request that serves the download has done and will do for its checksum.
\* In the gap the next checkpoint is due an interval behind an anchor; in the content,
\* which starts an interval of its own, within two.
Kept(q, A, f) ==
    /\ q.pc \in Working => q.e = Len /\ Reach(q.b, A)
    /\ q.pc = "askgap" => q.pos \in A /\ q.pos < q.b
    /\ q.pc = "gap" =>
          q.until = q.b /\ q.pos < q.next /\ \E o \in A : o <= q.pos /\ q.next = o + Interval
    /\ q.pc = "fetch" => q.anchored /\ \E o \in A : o <= q.b /\ q.b < o + Interval
    /\ q.pc = "copy" =>
          /\ q.anchored /\ q.until = Len /\ q.pos < q.next /\ Reach(q.pos, A)
          /\ \E o \in A : o <= q.pos /\ q.next < o + 2 * Interval
    /\ q.pc = "directory" => q.crc = Len /\ f = Len /\ Reach(Len, A)
    /\ q.pc = "done" => q.crc = Len

\* What the client holds can be continued from an anchor.
Based == Reach(client.base, Anchors) /\ (client.base = Len => full = Len)

KeptAll ==
    /\ Based
    /\ \A r \in Requests : req[r].own => Kept(req[r], Anchors, full)

\* An anchor may be as far from a cut as two intervals, but for one byte each, and
\* the bytes of one read: the gap's last checkpoint, the content's first.
Roomy == MaxGap >= 2 * Interval + MaxChunk - 3

Honest == "whole" \notin Upstream

Inv ==
    /\ TypeOK
    /\ \A r \in Requests : Bounds(req[r]) /\ (req[r].failed => lost)
    /\ client.req \in Requests => req[client.req].own
    /\ Honest \/ ~lost => Sound
    /\ Roomy /\ ~lost => KeptAll
-----------------------------------------------------------------------------
(* The records the code makes, field by field. *)

LEMMA Sizes ==
    /\ Len \in Nat /\ Len > 0 /\ Interval \in Nat /\ Interval > 0
    /\ MaxChunk \in Nat /\ MaxChunk > 0 /\ MaxGap \in Nat
    /\ 0 \in States /\ 0 \in Offsets /\ 0 \in 0 .. Len
    /\ 0 .. Len \subseteq Offsets /\ Offsets \subseteq States /\ Offsets \subseteq Nat
BY SizesAssumption DEF States, Offsets

LEMMA FreshIs == Fresh \in Request
BY Sizes DEF Fresh, Request

LEMMA PastIs ==
    ASSUME NEW q \in Request, NEW pc \in {"directory", "done", "failed"}
    PROVE  LET c == Past(q, pc)
           IN  /\ c \in Request
               /\ c.pc = pc /\ c.own = q.own /\ ~c.failed /\ c.pos = 0 /\ c.from = 0
               /\ c.crc = IF pc = "failed" THEN 0 ELSE q.crc
<1>1. (IF pc = "failed" THEN 0 ELSE q.crc) \in States /\ q.own \in BOOLEAN
  BY Sizes DEF Request
<1>2. Past(q, pc) \in Request
  BY <1>1, FreshIs DEF Past, Request
<1> QED BY <1>2 DEF Past, Request, Fresh

LEMMA ContentIs ==
    ASSUME NEW q \in Request, NEW a \in BOOLEAN, NEW s \in States
    PROVE  LET c == Content(q, a, s)
           IN  /\ c \in Request
               /\ c.pc = "fetch" /\ c.own = q.own /\ c.b = q.b /\ c.e = q.e
               /\ c.failed = q.failed /\ c.anchored = a /\ (a => c.state = s)
               /\ c.pos = 0 /\ c.from = 0 /\ c.crc = q.crc
<1>1. (IF a THEN s ELSE 0) \in States BY Sizes
<1>2. Content(q, a, s) \in Request
  BY <1>1, Sizes DEF Content, Request
<1> QED BY <1>2 DEF Content, Request

LEMMA FailedIs ==
    ASSUME NEW q \in Request
    PROVE  LET c == [q EXCEPT !.failed = TRUE]
           IN  /\ c \in Request
               /\ c.pc = q.pc /\ c.own = q.own /\ c.b = q.b /\ c.e = q.e /\ c.failed
               /\ c.anchored = q.anchored /\ c.state = q.state /\ c.pos = q.pos
               /\ c.from = q.from /\ c.until = q.until /\ c.next = q.next /\ c.crc = q.crc
BY DEF Request

LEMMA OpenedIs ==
    ASSUME req \in [Requests -> Request], NEW r \in Requests, NEW b \in 0 .. Len,
           NEW body \in [from : 0 .. Len, until : 0 .. Len], NEW pc \in {"gap", "copy"}
    PROVE  LET c == Opened(r, b, body, pc)
               q == req[r]
           IN  /\ c \in Request
               /\ c.pc = pc /\ c.own = q.own /\ c.b = q.b /\ c.e = q.e
               /\ c.failed = q.failed /\ c.anchored = q.anchored /\ c.state = q.state
               /\ c.pos = b /\ c.from = body.from /\ c.until = body.until
               /\ c.next = b + Interval /\ c.crc = q.crc
<1> DEFINE q == req[r]
<1>1. q \in Request /\ b \in Offsets /\ b + Interval \in Nat
  BY Sizes
<1> HIDE DEF q
<1>2. [q EXCEPT !.pc = pc, !.pos = b, !.from = body.from, !.until = body.until,
                !.next = b + Interval] \in Request
  BY <1>1 DEF Request
<1>3. Opened(r, b, body, pc) = [q EXCEPT !.pc = pc, !.pos = b, !.from = body.from,
                                         !.until = body.until, !.next = b + Interval]
  BY DEF Opened, q
<1> QED BY <1>1, <1>2, <1>3 DEF Request, q

\* The record of a tracker that has digested k bytes more.
Moved(q, k, s) == [q EXCEPT !.pos = q.pos + k, !.from = @ + k, !.state = s]

LEMMA MovedIs ==
    ASSUME NEW q \in Request, NEW k \in Nat, NEW s \in States, q.pos <= q.from + Len,
           q.from + k <= q.until
    PROVE  LET c == Moved(q, k, s)
           IN  /\ c \in Request
               /\ c.pc = q.pc /\ c.own = q.own /\ c.b = q.b /\ c.e = q.e
               /\ c.failed = q.failed /\ c.anchored = q.anchored /\ c.state = s
               /\ c.pos = q.pos + k /\ c.from = q.from + k /\ c.until = q.until
               /\ c.next = q.next /\ c.crc = q.crc
<1>1. q.pos \in Offsets /\ q.from \in 0 .. Len /\ q.until \in 0 .. Len
  BY DEF Request
<1>2. q.pos + k \in Offsets /\ q.from + k \in 0 .. Len
  BY <1>1, Sizes DEF Offsets
<1>3. Moved(q, k, s) \in Request
  BY <1>2 DEF Moved, Request
<1> QED BY <1>2, <1>3 DEF Moved, Request

LEMMA NextIs ==
    ASSUME NEW q \in Request, NEW n \in Nat
    PROVE  LET c == [q EXCEPT !.next = n]
           IN  /\ c \in Request
               /\ c.pc = q.pc /\ c.own = q.own /\ c.b = q.b /\ c.e = q.e
               /\ c.failed = q.failed /\ c.anchored = q.anchored /\ c.state = q.state
               /\ c.pos = q.pos /\ c.from = q.from /\ c.until = q.until
               /\ c.next = n /\ c.crc = q.crc
BY DEF Request

LEMMA KnownIs ==
    ASSUME NEW q \in Request, NEW s \in States
    PROVE  LET c == [q EXCEPT !.crc = s]
           IN  /\ c \in Request
               /\ c.pc = q.pc /\ c.own = q.own /\ c.failed = q.failed
               /\ c.pos = q.pos /\ c.from = q.from /\ c.crc = s
BY DEF Request
-----------------------------------------------------------------------------
(* One record changes, and the store with it. *)

LEMMA SetIs ==
    ASSUME TypeOK, NEW r \in Requests, NEW p \in Request, Set(r, p)
    PROVE  /\ req' \in [Requests -> Request] /\ req'[r] = p
           /\ \A x \in Requests : x # r => req'[x] = req[x]
BY DEF Set, TypeOK

LEMMA ReachGrows ==
    ASSUME NEW n, NEW A, NEW B, A \subseteq B, Reach(n, A)
    PROVE  Reach(n, B)
BY DEF Reach, Covered

\* More anchors and a known checksum harm nobody.
LEMMA KeptGrows ==
    ASSUME NEW q \in Request, NEW A, NEW B, A \subseteq B, NEW f, NEW g,
           f = Len => g = Len, Kept(q, A, f)
    PROVE  Kept(q, B, g)
<1>1. \A n : Reach(n, A) => Reach(n, B)
  BY ReachGrows
<1> QED BY <1>1 DEF Kept

\* The store is typed and what it holds stays, unless something was lost.
Stored ==
    /\ DOMAIN ckpts' \subseteq Offsets /\ \A o \in DOMAIN ckpts' : ckpts'[o] \in States
    /\ full' \in States
    /\ lost' \in BOOLEAN /\ (lost => lost')
    /\ Roomy /\ ~lost' => Anchors \subseteq Anchors' /\ (full = Len => full' = Len)
    /\ Honest \/ ~lost' => StoreTrue'

\* The new record of a request is as the invariant wants it.
Good(p) ==
    /\ Bounds(p) /\ (p.failed => lost')
    /\ Honest \/ ~lost' => Right(p)
    /\ Roomy /\ ~lost' /\ p.own => Kept(p, Anchors', full')

\* The client goes on as it was, or starts over.
Followed(r, p) ==
    \/ client' = client /\ p.own = req[r].own
    \/ /\ client' \in [req : Requests \cup {NoRequest}, base : 0 .. Len]
       /\ client'.req \in Requests => client'.req = r /\ p.own
       /\ Roomy /\ ~lost' => Based'

LEMMA RecordStep ==
    ASSUME Inv, NEW r \in Requests, NEW p \in Request, Set(r, p),
           Stored, Good(p), Followed(r, p)
    PROVE  Inv'
<1>1. /\ req' \in [Requests -> Request] /\ req'[r] = p
      /\ \A x \in Requests : x # r => req'[x] = req[x]
  BY SetIs DEF Inv
<1>2. TypeOK'
  BY <1>1 DEF Inv, TypeOK, Stored, Followed
<1>3. \A x \in Requests : Bounds(req'[x]) /\ (req'[x].failed => lost')
  BY <1>1 DEF Inv, Stored, Good
<1>4. client'.req \in Requests => req'[client'.req].own
  BY <1>1 DEF Inv, Followed
<1>5. Honest \/ ~lost' => Sound'
  <2> SUFFICES ASSUME Honest \/ ~lost' PROVE Sound'
    OBVIOUS
  <2>1. Sound BY DEF Inv, Stored
  <2> QED BY <2>1, <1>1 DEF Sound, Stored, Good
<1>6. Roomy /\ ~lost' => KeptAll'
  <2> SUFFICES ASSUME Roomy, ~lost' PROVE KeptAll'
    OBVIOUS
  <2>1. KeptAll /\ Anchors \subseteq Anchors' /\ (full = Len => full' = Len)
    BY DEF Inv, Stored
  <2>2. ASSUME NEW x \in Requests, req'[x].own PROVE Kept(req'[x], Anchors', full')
    <3>1. CASE x = r BY <3>1, <2>2, <1>1 DEF Good
    <3>2. CASE x # r
      <4>1. req'[x] = req[x] /\ req[x] \in Request BY <3>2, <1>1 DEF Inv, TypeOK
      <4>2. Kept(req[x], Anchors, full) BY <2>1, <2>2, <4>1 DEF KeptAll
      <4> QED BY <4>1, <4>2, <2>1, KeptGrows
    <3> QED BY <3>1, <3>2
  <2>3. Based'
    <3>1. CASE client' = client
      <4>1. Reach(client.base, Anchors) BY <2>1 DEF KeptAll, Based
      <4>2. Reach(client.base, Anchors') BY <4>1, <2>1, ReachGrows
      <4> QED BY <3>1, <4>2, <2>1 DEF KeptAll, Based
    <3> QED BY <3>1 DEF Followed
  <2> QED BY <2>2, <2>3 DEF KeptAll
<1> QED BY <1>2, <1>3, <1>4, <1>5, <1>6 DEF Inv

\* Nothing happens to the store.
LEMMA Untouched ==
    ASSUME Inv, ckpts' = ckpts, full' = full, lost' \in BOOLEAN, lost => lost'
    PROVE  Stored /\ Anchors' = Anchors /\ (Honest \/ ~lost' => Sound)
           /\ (Roomy /\ ~lost' => KeptAll)
BY DEF Inv, Stored, TypeOK, Sound, StoreTrue, Anchors

LEMMA Checkpointed ==
    ASSUME Inv, NEW r \in Requests, NEW o \in Offsets, NEW s \in States,
           NEW p \in Request, PutCheckpoint(r, o, s, p), full' = full, client' = client,
           p.own = req[r].own, p.failed => req[r].failed, Bounds(p),
           Honest \/ ~lost => s = o /\ Right(p),
           Roomy /\ ~lost /\ p.own => Kept(p, Anchors \cup {o}, full)
    PROVE  Inv'
<1>1. Followed(r, p) BY DEF Followed
<1>2. lost \in BOOLEAN /\ (p.failed => lost)
  BY DEF Inv, TypeOK
<1>3. CASE Usable(r) /\ ckpts' = Recorded(o, s) /\ Set(r, p) /\ UNCHANGED lost
  <2>1. /\ DOMAIN ckpts' = DOMAIN ckpts \cup {o}
        /\ \A x \in DOMAIN ckpts' : ckpts'[x] = IF x = o THEN s ELSE ckpts[x]
    BY <1>3 DEF Recorded
  <2>2. Anchors' = Anchors \cup {o}
    BY <2>1 DEF Anchors
  <2>3. Stored
    <3>1. DOMAIN ckpts' \subseteq Offsets /\ \A x \in DOMAIN ckpts' : ckpts'[x] \in States
      BY <2>1 DEF Inv, TypeOK
    <3>2. Honest \/ ~lost' => StoreTrue'
      BY <2>1, <1>3 DEF Inv, Sound, StoreTrue
    <3> QED BY <3>1, <3>2, <2>2, <1>2, <1>3 DEF Stored, Inv, TypeOK
  <2>4. Good(p)
    BY <2>2, <1>2, <1>3 DEF Good
  <2> QED BY <1>1, <1>3, <2>3, <2>4, RecordStep
<1>4. CASE Usable(r) /\ Fails /\ Set(r, [p EXCEPT !.failed = TRUE]) /\ UNCHANGED ckpts
  <2> DEFINE c == [p EXCEPT !.failed = TRUE]
  <2>1. lost' = TRUE BY <1>4 DEF Fails
  <2>2. /\ c \in Request
        /\ c.pc = p.pc /\ c.own = p.own /\ c.b = p.b /\ c.e = p.e /\ c.failed
        /\ c.anchored = p.anchored /\ c.state = p.state /\ c.pos = p.pos
        /\ c.from = p.from /\ c.until = p.until /\ c.next = p.next /\ c.crc = p.crc
    BY FailedIs
  <2>3. Set(r, c) BY <1>4
  <2> HIDE DEF c
  <2>4. Stored BY <1>4, <2>1, Untouched
  <2>5. Bounds(c) /\ (Honest => Right(c))
    BY <2>2 DEF Bounds, Right, Coherent
  <2>6. Good(c) BY <2>1, <2>5 DEF Good
  <2>7. Followed(r, c) BY <2>2 DEF Followed
  <2> QED BY <2>2, <2>3, <2>4, <2>6, <2>7, RecordStep
<1>5. CASE ~Usable(r) /\ Set(r, p) /\ UNCHANGED <<ckpts, lost>>
  <2>1. lost /\ lost' BY <1>5 DEF Usable, Inv
  <2>2. Stored BY <1>5, <1>2, Untouched
  <2>3. Good(p) BY <2>1 DEF Good
  <2> QED BY <1>1, <1>5, <2>2, <2>3, RecordStep
<1> QED BY <1>3, <1>4, <1>5 DEF PutCheckpoint

LEMMA Checksummed ==
    ASSUME Inv, NEW r \in Requests, NEW s \in States, NEW p \in Request,
           PutCRC(r, s, p), ckpts' = ckpts, client' = client,
           p.own = req[r].own, ~p.failed, Bounds(p),
           Honest \/ ~lost => s = Len /\ Right(p),
           Roomy /\ ~lost /\ p.own => Kept(p, Anchors, Len)
    PROVE  Inv'
<1>1. Followed(r, p) BY DEF Followed
<1>2. lost \in BOOLEAN BY DEF Inv, TypeOK
<1>3. CASE Usable(r) /\ full' = s /\ Set(r, p) /\ UNCHANGED lost
  <2>1. Anchors' = Anchors BY DEF Anchors
  <2>2. Stored
    BY <2>1, <1>2, <1>3 DEF Stored, Inv, TypeOK, Sound, StoreTrue
  <2>3. Good(p)
    <3> SUFFICES ASSUME Roomy, ~lost', p.own PROVE Kept(p, Anchors', full')
      BY <1>3 DEF Good
    <3> QED BY <1>3, <2>1
  <2> QED BY <1>1, <1>3, <2>2, <2>3, RecordStep
<1>4. CASE Usable(r) /\ Fails /\ Set(r, p) /\ UNCHANGED full
  <2>1. lost' = TRUE BY <1>4 DEF Fails
  <2>2. Stored BY <1>4, <2>1, Untouched
  <2>3. Good(p) BY <2>1 DEF Good
  <2> QED BY <1>1, <1>4, <2>2, <2>3, RecordStep
<1>5. CASE ~Usable(r) /\ Set(r, p) /\ UNCHANGED <<full, lost>>
  <2>1. lost /\ lost' BY <1>5 DEF Usable, Inv
  <2>2. Stored BY <1>5, <1>2, Untouched
  <2>3. Good(p) BY <2>1 DEF Good
  <2> QED BY <1>1, <1>5, <2>2, <2>3, RecordStep
<1> QED BY <1>3, <1>4, <1>5 DEF PutCRC
-----------------------------------------------------------------------------
(* Each action keeps the invariant. *)

LEMMA BeginStep ==
    ASSUME Inv, NEW r \in Requests, NEW own \in BOOLEAN, NEW b \in 0 .. Len, NEW e \in 0 .. Len,
           Begin(r, own, b, e), ckpts' = ckpts, full' = full,
           \/ ~own /\ ~req[r].own /\ b < e /\ client' = client
           \/ own /\ e = Len /\ b = client.base /\ client' = [client EXCEPT !.req = r]
    PROVE  Inv'
<1>1. PICK early \in (IF b > 0 THEN {TRUE} ELSE BOOLEAN), ok \in BOOLEAN :
        LET q == [Fresh EXCEPT !.pc = "seed", !.own = own, !.b = b, !.e = e, !.failed = ~ok,
                               !.crc = IF early /\ ok THEN full ELSE 0]
        IN  /\ ok \/ (early /\ "fail" \in Store)
            /\ lost' = (lost \/ ~ok)
            /\ Set(r, IF b = e THEN Past(q, "directory") ELSE q)
  BY DEF Begin
<1> DEFINE crc == IF early /\ ok THEN full ELSE 0
           q == [Fresh EXCEPT !.pc = "seed", !.own = own, !.b = b, !.e = e, !.failed = ~ok,
                              !.crc = crc]
           p == IF b = e THEN Past(q, "directory") ELSE q
<1>2. lost' = (lost \/ ~ok) /\ Set(r, p)
  BY <1>1
<1>3. crc \in States /\ full \in States /\ lost \in BOOLEAN /\ lost' \in BOOLEAN
  BY <1>2, Sizes DEF Inv, TypeOK
<1>4. crc \in {0, full} /\ (b > 0 /\ ok => crc = full)
  BY <1>1
<1> HIDE DEF crc
<1>5. /\ q \in Request /\ q.pc = "seed" /\ q.own = own /\ q.b = b /\ q.e = e
      /\ q.failed = ~ok /\ q.crc = crc /\ q.pos = 0 /\ q.from = 0
  <2> HIDE DEF crc
  <2>1. q \in Request
    BY <1>3, FreshIs DEF Request
  <2>2. /\ q.pc = "seed" /\ q.own = own /\ q.b = b /\ q.e = e
        /\ q.failed = ~ok /\ q.crc = crc /\ q.pos = 0 /\ q.from = 0
    BY DEF Fresh
  <2> QED BY <2>1, <2>2
<1> HIDE DEF q
<1>6. CASE b = e
  <2>1. p = Past(q, "directory") BY <1>6
  <2>2. /\ p \in Request /\ p.pc = "directory" /\ p.own = own /\ ~p.failed
        /\ p.pos = 0 /\ p.from = 0 /\ p.crc = crc
    BY <2>1, <1>5, PastIs
  <2> HIDE DEF p
  <2>3. own /\ e = Len /\ b = client.base /\ b = Len /\ client' = [client EXCEPT !.req = r]
    BY <1>6
  <2>4. Stored /\ Anchors' = Anchors /\ (Honest \/ ~lost' => Sound)
        /\ (Roomy /\ ~lost' => KeptAll)
    BY <1>2, <1>3, Untouched
  <2>5. client'.req = r /\ client'.base = client.base
        /\ client' \in [req : Requests \cup {NoRequest}, base : 0 .. Len]
    BY <2>3 DEF Inv, TypeOK
  <2>6. Good(p)
    <3>1. Bounds(p) BY <2>2, Sizes DEF Bounds, Working
    <3>2. Honest \/ ~lost' => Right(p)
      BY <2>2, <2>4, <1>4 DEF Right, Coherent, Sound, StoreTrue
    <3>3. Roomy /\ ~lost' => Kept(p, Anchors', full')
      <4> SUFFICES ASSUME Roomy, ~lost' PROVE Kept(p, Anchors', full')
        OBVIOUS
      <4>1. Reach(Len, Anchors) /\ full = Len
        BY <2>3, <2>4 DEF KeptAll, Based
      <4>2. p.crc = Len /\ full' = Len
        BY <4>1, <2>2, <1>2, <1>4, <2>3, Sizes
      <4> QED BY <4>1, <4>2, <2>2, <2>4 DEF Kept, Working
    <3> QED BY <2>2, <3>1, <3>2, <3>3 DEF Good
  <2>7. Followed(r, p)
    <3>1. Roomy /\ ~lost' => Based'
      BY <2>4, <2>5 DEF KeptAll, Based
    <3> QED BY <3>1, <2>2, <2>3, <2>5 DEF Followed
  <2> QED BY <2>2, <1>2, <2>4, <2>6, <2>7, RecordStep
<1>7. CASE b # e
  <2>1. p = q BY <1>7
  <2> HIDE DEF p
  <2>2. b < e BY <1>7
  <2>3. Stored /\ Anchors' = Anchors /\ (Honest \/ ~lost' => Sound)
        /\ (Roomy /\ ~lost' => KeptAll)
    BY <1>2, <1>3, Untouched
  <2>4. Good(p)
    <3>1. Bounds(p) BY <2>1, <2>2, <1>5, Sizes DEF Bounds
    <3>2. Honest \/ ~lost' => Right(p)
      BY <2>1, <2>3, <1>4, <1>5 DEF Right, Coherent, Sound, StoreTrue
    <3>3. Roomy /\ ~lost' /\ own => Kept(p, Anchors', full')
      BY <2>1, <2>3, <1>5 DEF Kept, KeptAll, Based
    <3> QED BY <2>1, <3>1, <3>2, <3>3, <1>2, <1>5 DEF Good
  <2>5. Followed(r, p)
    <3>1. CASE ~own
      BY <3>1, <2>1, <1>5 DEF Followed, Inv, TypeOK, Request
    <3>2. CASE own
      <4>1. client' = [client EXCEPT !.req = r] BY <3>2
      <4>2. client'.req = r /\ client'.base = client.base
            /\ client' \in [req : Requests \cup {NoRequest}, base : 0 .. Len]
        BY <4>1 DEF Inv, TypeOK
      <4>3. Roomy /\ ~lost' => Based'
        BY <2>3, <4>2 DEF KeptAll, Based
      <4> QED BY <3>2, <4>2, <4>3, <2>1, <1>5 DEF Followed
    <3> QED BY <3>1, <3>2
  <2> QED BY <2>1, <1>2, <1>5, <2>3, <2>4, <2>5, RecordStep
<1> QED BY <1>6, <1>7

LEMMA DownloadStep ==
    ASSUME Inv, NEW r \in Requests, Download(r)
    PROVE  Inv'
<1>1. client.base \in 0 .. Len /\ Len \in 0 .. Len
  BY Sizes DEF Inv, TypeOK
<1> QED BY <1>1, BeginStep DEF Download

LEMMA OtherRequestStep ==
    ASSUME Inv, NEW r \in Requests, OtherRequest(r)
    PROVE  Inv'
<1>1. PICK w \in Others : Begin(r, FALSE, w.b, w.e)
  BY DEF OtherRequest
<1>2. w.b \in 0 .. Len /\ w.e \in 0 .. Len /\ w.b < w.e
  BY SizesAssumption
<1>3. ~req[r].own
  BY DEF OtherRequest, Free, Inv, Bounds
<1> QED BY <1>1, <1>2, <1>3, BeginStep DEF OtherRequest

LEMMA SeededIs ==
    ASSUME NEW q \in Request, NEW off \in Offsets, NEW s \in States, q.b < q.e,
           off <= q.b
    PROVE  LET c == Seeded(q, off, s)
           IN  /\ c \in Request /\ c.own = q.own /\ c.b = q.b /\ c.e = q.e
               /\ c.failed = q.failed /\ c.crc = q.crc
               /\ \/ /\ off < q.b /\ q.b - off <= MaxGap
                     /\ c.pc = "askgap" /\ c.pos = off /\ c.state = s /\ c.from = q.from
                  \/ /\ ~(off < q.b /\ q.b - off <= MaxGap)
                     /\ c.pc = "fetch" /\ (c.anchored <=> off = q.b) /\ c.pos = 0 /\ c.from = 0
                     /\ c.anchored => c.state = s
<1>1. CASE off < q.b /\ q.b - off <= MaxGap
  <2> DEFINE c == [q EXCEPT !.pc = "askgap", !.pos = off, !.state = s]
  <2>1. Seeded(q, off, s) = c
    BY <1>1 DEF Seeded
  <2>2. /\ c \in Request
        /\ c.pc = "askgap" /\ c.own = q.own /\ c.b = q.b /\ c.e = q.e
        /\ c.failed = q.failed /\ c.state = s /\ c.pos = off /\ c.from = q.from
        /\ c.crc = q.crc
    BY DEF Request
  <2> HIDE DEF c
  <2> QED BY <2>1, <2>2, <1>1
<1>2. CASE ~(off < q.b /\ q.b - off <= MaxGap)
  <2>1. Seeded(q, off, s) = Content(q, off = q.b, s)
    BY <1>2 DEF Seeded
  <2> DEFINE at == off = q.b
             c == Content(q, at, s)
  <2>2. at \in BOOLEAN OBVIOUS
  <2> HIDE DEF at
  <2>3. /\ c \in Request
        /\ c.pc = "fetch" /\ c.own = q.own /\ c.b = q.b /\ c.e = q.e
        /\ c.failed = q.failed /\ c.anchored = at /\ (at => c.state = s)
        /\ c.pos = 0 /\ c.from = 0 /\ c.crc = q.crc
    BY <2>2, ContentIs
  <2>4. Seeded(q, off, s) = c
    BY <2>1 DEF at
  <2> HIDE DEF c
  <2>5. c.anchored <=> off = q.b
    BY <2>3 DEF at
  <2> QED BY <1>2, <2>3, <2>4, <2>5
<1> QED BY <1>1, <1>2

LEMMA SeedStep ==
    ASSUME Inv, NEW r \in Requests, Seed(r)
    PROVE  Inv'
<1> DEFINE q == req[r]
<1>1. q \in Request /\ q.pc = "seed" /\ q.b < q.e /\ lost \in BOOLEAN
      /\ q.b \in 0 .. Len /\ q.from \in 0 .. Len /\ (q.failed => lost) /\ q.own \in BOOLEAN
  BY DEF Seed, Inv, TypeOK, Bounds, Working, Request
<1>2. ckpts' = ckpts /\ full' = full /\ client' = client
  BY DEF Seed
<1> HIDE DEF q
<1>3. ASSUME NEW p0 \in Request, p0.own = q.own, p0.b = q.b, p0.e = q.e, p0.crc = q.crc,
             p0.failed => lost',
             NEW off \in Offsets, NEW s \in States, off <= q.b,
             Set(r, Seeded(p0, off, s)),
             Honest \/ ~lost' => s = off,
             Roomy /\ ~lost' /\ q.own => off \in Anchors /\ (off < q.b => q.b - off <= MaxGap),
             lost' \in BOOLEAN, lost => lost'
      PROVE  Inv'
  <2> DEFINE c == Seeded(p0, off, s)
  <2>1. /\ c \in Request /\ c.own = q.own /\ c.b = q.b /\ c.e = q.e
        /\ c.failed = p0.failed /\ c.crc = q.crc
        /\ \/ /\ off < q.b /\ q.b - off <= MaxGap
              /\ c.pc = "askgap" /\ c.pos = off /\ c.state = s
           \/ /\ ~(off < q.b /\ q.b - off <= MaxGap)
              /\ c.pc = "fetch" /\ (c.anchored <=> off = q.b) /\ c.pos = 0
              /\ c.anchored => c.state = s
    BY <1>1, <1>3, SeededIs
  <2>2. c.from \in 0 .. Len BY <2>1 DEF Request
  <2>3. Set(r, c) BY <1>3
  <2> HIDE DEF c
  <2>4. Stored /\ Anchors' = Anchors /\ (Honest \/ ~lost' => Sound)
        /\ (Roomy /\ ~lost' => KeptAll)
    BY <1>2, <1>3, Untouched
  <2>5. Good(c)
    <3>1. Bounds(c) BY <1>1, <2>1, <2>2, Sizes DEF Bounds
    <3>2. Honest \/ ~lost' => Right(c)
      <4> SUFFICES ASSUME Honest \/ ~lost' PROVE Right(c)
        OBVIOUS
      <4>1. Right(q) /\ s = off BY <2>4, <1>3 DEF Sound, q
      <4> QED BY <4>1, <2>1 DEF Right, Coherent
    <3>3. Roomy /\ ~lost' /\ c.own => Kept(c, Anchors', full')
      <4> SUFFICES ASSUME Roomy, ~lost', c.own PROVE Kept(c, Anchors', full')
        OBVIOUS
      <4>1. Kept(q, Anchors, full) BY <2>1, <2>4 DEF KeptAll, q
      <4>2. off \in Anchors /\ (off < q.b => q.b - off <= MaxGap) BY <2>1, <1>3
      <4>3. c.e = Len /\ Reach(c.b, Anchors) BY <4>1, <2>1, <1>1 DEF Kept, Working
      <4>4. CASE c.pc = "askgap"
        BY <4>2, <4>3, <4>4, <2>1, <2>4 DEF Kept
      <4>5. CASE c.pc = "fetch"
        <5>1. off = c.b /\ c.anchored
          BY <4>5, <4>2, <2>1, <1>1, <1>3, Sizes
        <5>2. \E o \in Anchors : o <= c.b /\ c.b < o + Interval
          BY <5>1, <4>2, <1>1, <2>1, Sizes
        <5> QED BY <4>3, <4>5, <5>1, <5>2, <2>4 DEF Kept
      <4> QED BY <4>4, <4>5, <2>1
    <3> QED BY <3>1, <3>2, <3>3, <2>1, <1>3 DEF Good
  <2>6. Followed(r, c) BY <2>1, <1>2 DEF Followed, q
  <2> QED BY <2>1, <2>3, <2>4, <2>5, <2>6, RecordStep
<1>4. CASE /\ q.b > 0 /\ Usable(r)
           /\ \E o \in DOMAIN ckpts : BestBelow(q.b, o) /\ Set(r, Seeded(q, o, ckpts[o]))
           /\ UNCHANGED lost
  <2>1. PICK o \in DOMAIN ckpts : BestBelow(q.b, o) /\ Set(r, Seeded(q, o, ckpts[o]))
    BY <1>4
  <2>2. o \in Offsets /\ ckpts[o] \in States /\ o <= q.b
    BY <2>1 DEF Inv, TypeOK, BestBelow
  <2>3. Honest \/ ~lost' => ckpts[o] = o
    BY <1>4, <2>1 DEF Inv, Sound, StoreTrue
  <2>4. Roomy /\ ~lost' /\ q.own => o \in Anchors /\ (o < q.b => q.b - o <= MaxGap)
    <3> SUFFICES ASSUME Roomy, ~lost', q.own PROVE o \in Anchors /\ q.b - o <= MaxGap
      OBVIOUS
    <3>1. Kept(q, Anchors, full) BY <1>4 DEF Inv, KeptAll, q
    <3>2. Covered(q.b, Anchors)
      <4>1. Reach(q.b, Anchors) BY <3>1, <1>1 DEF Kept, Working
      <4> QED BY <4>1, <1>1 DEF Reach
    <3>3. PICK a \in Anchors : a <= q.b /\ q.b - a <= MaxGap
      BY <3>2 DEF Covered
    <3>4. a <= o
      <4>1. CASE a \in DOMAIN ckpts
        BY <4>1, <3>3, <2>1 DEF BestBelow
      <4>2. CASE a = 0 BY <4>2, <2>2, Sizes
      <4> QED BY <4>1, <4>2 DEF Anchors
    <3>5. a \in Offsets BY <3>3, Sizes DEF Anchors, Inv, TypeOK
    <3> QED BY <3>3, <3>4, <3>5, <2>2, <1>1, Sizes DEF Anchors
  <2> QED BY <1>1, <1>3, <1>4, <2>1, <2>2, <2>3, <2>4
<1>5. CASE /\ q.b > 0 /\ Usable(r) /\ Fails
           /\ Set(r, Seeded([q EXCEPT !.failed = TRUE], 0, 0))
  <2> DEFINE p == [q EXCEPT !.failed = TRUE]
  <2>1. p \in Request /\ p.own = q.own /\ p.b = q.b /\ p.e = q.e /\ p.crc = q.crc
    BY <1>1, FailedIs
  <2>2. Set(r, Seeded(p, 0, 0)) BY <1>5
  <2> HIDE DEF p
  <2>3. lost' = TRUE BY <1>5 DEF Fails
  <2> QED BY <2>1, <2>2, <2>3, <1>1, <1>3, Sizes
<1>6. CASE /\ q.b = 0 \/ ~Usable(r) \/ \A o \in DOMAIN ckpts : o > q.b
           /\ Set(r, Seeded(q, 0, 0))
           /\ UNCHANGED lost
  <2>1. Roomy /\ ~lost' /\ q.own => 0 \in Anchors /\ (0 < q.b => q.b - 0 <= MaxGap)
    <3> SUFFICES ASSUME Roomy, ~lost', q.own, 0 < q.b PROVE q.b <= MaxGap
      BY <1>1, Sizes DEF Anchors
    <3>1. Kept(q, Anchors, full) BY <1>6 DEF Inv, KeptAll, q
    <3>2. Covered(q.b, Anchors)
      <4>1. Reach(q.b, Anchors) BY <3>1, <1>1 DEF Kept, Working
      <4> QED BY <4>1, <1>1 DEF Reach
    <3>3. PICK a \in Anchors : a <= q.b /\ q.b - a <= MaxGap
      BY <3>2 DEF Covered
    <3>4. \A o \in DOMAIN ckpts : o > q.b
      BY <1>1, <1>6 DEF Usable, q
    <3>5. a = 0 
      <4>1. a \in DOMAIN ckpts => a \in Nat BY Sizes DEF Inv, TypeOK
      <4> QED BY <4>1, <3>3, <3>4, <1>1 DEF Anchors
    <3> QED BY <3>3, <3>5, <1>1
  <2> QED BY <2>1, <1>1, <1>3, <1>6, Sizes
<1> QED BY <1>4, <1>5, <1>6 DEF Seed, q

LEMMA AskGapStep ==
    ASSUME Inv, NEW r \in Requests, AskGap(r)
    PROVE  Inv'
<1> DEFINE q == req[r]
<1>1. /\ q \in Request /\ q.pc = "askgap" /\ q.b < q.e /\ q.pos < q.b
      /\ q.b \in 0 .. Len /\ q.e \in 0 .. Len /\ q.pos \in Nat /\ (q.failed => lost)
      /\ req \in [Requests -> Request] /\ lost \in BOOLEAN
  <2>1. q \in Request /\ q.pc = "askgap" /\ Bounds(q) /\ (q.failed => lost)
    BY DEF AskGap, Inv, TypeOK
  <2>2. q.pos \in Offsets /\ q.b \in 0 .. Len /\ q.e \in 0 .. Len
    BY <2>1 DEF Request
  <2> QED BY <2>1, <2>2, Sizes DEF Inv, TypeOK, Bounds, Working
<1>2. ckpts' = ckpts /\ full' = full /\ client' = client
  BY DEF AskGap
<1>3. CASE \E body \in Body(q.pos, q.b) :
             /\ Set(r, Opened(r, q.pos, body, "gap"))
             /\ lost' = (lost \/ body.until # q.b)
  <2>1. PICK body \in Body(q.pos, q.b) :
          /\ Set(r, Opened(r, q.pos, body, "gap"))
          /\ lost' = (lost \/ body.until # q.b)
    BY <1>3
  <2>2. q.pos \in 0 .. Len /\ body \in [from : 0 .. Len, until : 0 .. Len]
    BY <1>1, Sizes DEF Body
  <2>3. Honest \/ ~lost' => body.from = q.pos /\ body.until = q.b
    <3>1. CASE body = [from |-> q.pos, until |-> q.b]
      BY <3>1
    <3>2. CASE body = [from |-> 0, until |-> Len] /\ ~Honest
      <4>1. body.until # q.b BY <3>2, <1>1, Sizes
      <4> QED BY <4>1, <2>1, <3>2
    <3> QED BY <3>1, <3>2 DEF Body, Honest
  <2> DEFINE c == Opened(r, q.pos, body, "gap")
  <2>4. /\ c \in Request
        /\ c.pc = "gap" /\ c.own = q.own /\ c.b = q.b /\ c.e = q.e
        /\ c.failed = q.failed /\ c.state = q.state
        /\ c.pos = q.pos /\ c.from = body.from /\ c.until = body.until
        /\ c.next = q.pos + Interval /\ c.crc = q.crc
    BY <1>1, <2>2, OpenedIs
  <2>5. Set(r, c) BY <2>1
  <2>6. Stored /\ Anchors' = Anchors /\ (Honest \/ ~lost' => Sound)
        /\ (Roomy /\ ~lost' => KeptAll)
    <3>1. lost' \in BOOLEAN /\ (lost => lost') BY <2>1, <1>1
    <3> QED BY <1>2, <3>1, Untouched
  <2>7. (c.failed => lost') BY <2>1, <2>4, <1>1
  <2>8. Followed(r, c) BY <2>4, <1>2 DEF Followed
  <2> HIDE DEF q, c
  <2>9. Good(c)
    <3>1. Bounds(c) BY <1>1, <2>2, <2>4, Sizes DEF Bounds
    <3>2. Honest \/ ~lost' => Right(c)
      <4> SUFFICES ASSUME Honest \/ ~lost' PROVE Right(c)
        OBVIOUS
      <4>1. Right(q) BY <2>6 DEF Sound, q
      <4> QED BY <4>1, <1>1, <2>3, <2>4 DEF Right, Coherent
    <3>3. Roomy /\ ~lost' /\ c.own => Kept(c, Anchors', full')
      <4> SUFFICES ASSUME Roomy, ~lost', c.own PROVE Kept(c, Anchors', full')
        OBVIOUS
      <4>1. Kept(q, Anchors, full) BY <2>4, <2>6 DEF KeptAll, q
      <4>2. q.e = Len /\ Reach(q.b, Anchors) /\ q.pos \in Anchors
        BY <4>1, <1>1 DEF Kept, Working
      <4>3. q.pos < q.pos + Interval /\ q.pos <= q.pos BY <1>1, Sizes
      <4> QED BY <4>2, <4>3, <2>3, <2>4, <2>6 DEF Kept
    <3> QED BY <3>1, <3>2, <3>3, <2>7 DEF Good
  <2> QED BY <2>4, <2>5, <2>6, <2>8, <2>9, RecordStep
<1>4. CASE "refuse" \in Upstream /\ Set(r, Content(q, FALSE, 0)) /\ lost' = TRUE
  <2> DEFINE c == Content(q, FALSE, 0)
  <2>1. /\ c \in Request
        /\ c.pc = "fetch" /\ c.own = q.own /\ c.b = q.b /\ c.e = q.e
        /\ c.failed = q.failed /\ c.anchored = FALSE
        /\ c.pos = 0 /\ c.from = 0 /\ c.crc = q.crc
    <3>1. 0 \in States /\ 0 \in Offsets /\ 0 \in 0 .. Len /\ q \in Request
      BY <1>1, Sizes
    <3>2. c = [q EXCEPT !.pc = "fetch", !.anchored = FALSE, !.state = 0,
                        !.pos = 0, !.from = 0, !.until = 0, !.next = 0]
      BY DEF Content
    <3> HIDE DEF q, c
    <3> QED BY <3>1, <3>2 DEF Request
  <2>2. Set(r, c) BY <1>4
  <2> HIDE DEF c
  <2>3. Stored /\ (Honest => Sound)
    BY <1>2, <1>4, Untouched
  <2>4. Good(c)
    BY <1>1, <1>4, <2>1, <2>3, Sizes DEF Good, Bounds, Right, Coherent, Sound
  <2>5. Followed(r, c) BY <2>1, <1>2 DEF Followed
  <2> QED BY <2>1, <2>2, <2>3, <2>4, <2>5, RecordStep
<1> QED BY <1>3, <1>4 DEF AskGap, q

LEMMA AskContentStep ==
    ASSUME Inv, NEW r \in Requests, AskContent(r)
    PROVE  Inv'
<1> DEFINE q == req[r]
<1>1. /\ q \in Request /\ q.pc = "fetch" /\ q.b < q.e
      /\ q.b \in 0 .. Len /\ q.e \in 0 .. Len /\ (q.failed => lost)
      /\ req \in [Requests -> Request] /\ lost \in BOOLEAN
  <2>1. q \in Request /\ q.pc = "fetch" /\ Bounds(q) /\ (q.failed => lost)
    BY DEF AskContent, Inv, TypeOK
  <2>2. q.b \in 0 .. Len /\ q.e \in 0 .. Len
    BY <2>1 DEF Request
  <2> QED BY <2>1, <2>2 DEF Inv, TypeOK, Bounds, Working
<1>2. ckpts' = ckpts /\ full' = full /\ client' = client
  BY DEF AskContent
<1>3. PICK body \in Body(q.b, q.e) :
        /\ Set(r, Opened(r, q.b, body, "copy"))
        /\ lost' = (lost \/ body # [from |-> q.b, until |-> q.e])
  BY DEF AskContent
<1>4. body \in [from : 0 .. Len, until : 0 .. Len]
  BY <1>1, Sizes DEF Body
<1>5. Honest \/ ~lost' => body.from = q.b /\ body.until = q.e
  <2>1. body = [from |-> q.b, until |-> q.e] \/ ~Honest
    BY DEF Body, Honest
  <2>2. ~lost' => body = [from |-> q.b, until |-> q.e]
    BY <1>3
  <2> QED BY <2>1, <2>2
<1> DEFINE c == Opened(r, q.b, body, "copy")
<1>6. /\ c \in Request
      /\ c.pc = "copy" /\ c.own = q.own /\ c.b = q.b /\ c.e = q.e
      /\ c.failed = q.failed /\ c.anchored = q.anchored /\ c.state = q.state
      /\ c.pos = q.b /\ c.from = body.from /\ c.until = body.until
      /\ c.next = q.b + Interval /\ c.crc = q.crc
  BY <1>1, <1>4, OpenedIs
<1>7. Set(r, c) /\ (c.failed => lost') BY <1>1, <1>3, <1>6
<1>8. Stored /\ Anchors' = Anchors /\ (Honest \/ ~lost' => Sound)
      /\ (Roomy /\ ~lost' => KeptAll)
  <2>1. lost' \in BOOLEAN /\ (lost => lost') BY <1>3, <1>1
  <2> QED BY <1>2, <2>1, Untouched
<1>9. Followed(r, c) BY <1>6, <1>2 DEF Followed
<1> HIDE DEF q, c
<1>10. Good(c)
  <2>1. Bounds(c) BY <1>1, <1>4, <1>6, Sizes DEF Bounds
  <2>2. Honest \/ ~lost' => Right(c)
    <3> SUFFICES ASSUME Honest \/ ~lost' PROVE Right(c)
      OBVIOUS
    <3>1. Right(q) BY <1>8 DEF Sound, q
    <3> QED BY <3>1, <1>1, <1>5, <1>6 DEF Right, Coherent
  <2>3. Roomy /\ ~lost' /\ c.own => Kept(c, Anchors', full')
    <3> SUFFICES ASSUME Roomy, ~lost', c.own PROVE Kept(c, Anchors', full')
      OBVIOUS
    <3>1. Kept(q, Anchors, full) BY <1>6, <1>8 DEF KeptAll, q
    <3>2. q.e = Len /\ Reach(q.b, Anchors) /\ q.anchored
      BY <3>1, <1>1 DEF Kept, Working
    <3>3. PICK o \in Anchors : o <= q.b /\ q.b < o + Interval
      BY <3>1, <1>1 DEF Kept
    <3>4. q.b < q.b + Interval /\ q.b + Interval < o + 2 * Interval
      <4>1. o \in Nat BY Sizes DEF Anchors, Inv, TypeOK
      <4> QED BY <4>1, <3>3, <1>1, Sizes
    <3> QED BY <3>2, <3>3, <3>4, <1>5, <1>6, <1>8 DEF Kept
  <2> QED BY <2>1, <2>2, <2>3, <1>7 DEF Good
<1> QED BY <1>6, <1>7, <1>8, <1>9, <1>10, RecordStep

\* Reading on within two intervals and a read of an anchor keeps everything reachable.
LEMMA ReachOn ==
    ASSUME Roomy, NEW A, A \subseteq Nat, NEW pos \in Nat, Reach(pos, A), NEW k \in 1 .. MaxChunk,
           NEW next \in Nat, pos < next, NEW o \in A, o <= pos, next < o + 2 * Interval
    PROVE  /\ pos + k < next => Reach(pos + k, A)
           /\ Reach(pos + k, A \cup {pos + k})
<1>1. o \in Nat /\ k \in Nat /\ k <= MaxChunk /\ MaxGap >= 2 * Interval + MaxChunk - 3
  BY Sizes DEF Roomy
<1>2. ASSUME NEW x \in 0 .. pos + k, pos + k < next \/ x < pos + k
      PROVE  Covered(x, A)
  <2>1. CASE x <= pos
    BY <2>1 DEF Reach
  <2>2. CASE x > pos
    <3>1. o <= x /\ x - o <= MaxGap
      BY <1>1, <1>2, <2>2, Sizes
    <3> QED BY <3>1 DEF Covered
  <2> QED BY <2>1, <2>2
<1>3. Covered(pos + k, A \cup {pos + k})
  BY <1>1, Sizes DEF Covered
<1>4. \A x : Covered(x, A) => Covered(x, A \cup {pos + k})
  BY DEF Covered
<1>5. \A x \in 0 .. pos + k : x < pos + k \/ x = pos + k
  BY <1>1
<1>6. pos + k < next => Reach(pos + k, A)
  BY <1>2 DEF Reach
<1>7. Reach(pos + k, A \cup {pos + k})
  BY <1>2, <1>3, <1>4, <1>5 DEF Reach
<1> QED BY <1>6, <1>7

\* What a read of k bytes through the tracker does to the invariant.
LEMMA DigestStep ==
    ASSUME Inv, NEW r \in Requests, NEW k \in 1 .. MaxChunk, Digest(r, k),
           req[r].pc = "gap" \/ (req[r].pc = "copy" /\ req[r].anchored),
           req[r].from + k <= req[r].until, full' = full, client' = client
    PROVE  Inv'
<1> DEFINE q == req[r]
           s == IF q.state = q.from THEN q.from + k ELSE Bad
           c == Moved(q, k, s)
           d == [c EXCEPT !.next = q.pos + k + Interval]
<1>1. /\ q \in Request /\ q.b < q.e /\ q.pos <= q.from + Len /\ (q.failed => lost)
      /\ q.pos \in Nat /\ q.from \in 0 .. Len /\ q.until \in 0 .. Len /\ q.next \in Nat
      /\ k \in Nat /\ k > 0 /\ q.from + k <= q.until
      /\ q.pc = "gap" \/ (q.pc = "copy" /\ q.anchored)
  <2>1. q \in Request /\ Bounds(q) /\ (q.failed => lost)
    BY DEF Inv, TypeOK
  <2>2. q.pos \in Offsets /\ q.from \in 0 .. Len /\ q.until \in 0 .. Len /\ q.next \in Nat
    BY <2>1 DEF Request
  <2>3. q.pos \in Nat
    BY <2>2, Sizes
  <2>5. k \in Nat /\ k > 0
    BY Sizes
  <2>4. q.b < q.e /\ q.pos <= q.from + Len
    BY <2>1 DEF Bounds, Working
  <2> QED BY <2>1, <2>2, <2>3, <2>4, <2>5
<1>2. s \in States /\ q.pos + k \in Offsets /\ q.pos + k + Interval \in Nat
      /\ q.from + k \in 0 .. Len
  BY <1>1, Sizes DEF States, Offsets
<1>3. /\ c \in Request
      /\ c.pc = q.pc /\ c.own = q.own /\ c.b = q.b /\ c.e = q.e
      /\ c.failed = q.failed /\ c.anchored = q.anchored /\ c.state = s
      /\ c.pos = q.pos + k /\ c.from = q.from + k /\ c.until = q.until
      /\ c.next = q.next /\ c.crc = q.crc
  BY <1>1, <1>2, MovedIs
<1>4. /\ d \in Request
      /\ d.pc = q.pc /\ d.own = q.own /\ d.b = q.b /\ d.e = q.e
      /\ d.failed = q.failed /\ d.anchored = q.anchored /\ d.state = s
      /\ d.pos = q.pos + k /\ d.from = q.from + k /\ d.until = q.until
      /\ d.next = q.pos + k + Interval /\ d.crc = q.crc
  <2> HIDE DEF c
  <2> QED BY <1>2, <1>3, NextIs
<1>5. \/ q.pos + k >= q.next /\ PutCheckpoint(r, q.pos + k, s, d)
      \/ q.pos + k < q.next /\ Set(r, c) /\ UNCHANGED <<ckpts, lost>>
  <2>1. c = [q EXCEPT !.pos = q.pos + k, !.from = @ + k, !.state = s]
    BY DEF Moved
  <2>2. IF q.pos + k >= q.next THEN PutCheckpoint(r, q.pos + k, s, d)
        ELSE Set(r, c) /\ UNCHANGED <<ckpts, lost>>
    BY <2>1, Zenon DEF Digest
  <2> HIDE DEF q, s, c, d
  <2>3. q.pos + k >= q.next \/ q.pos + k < q.next
    BY <1>1
  <2> QED BY <2>2, <2>3
<1>6. Honest \/ ~lost => s = q.pos + k /\ q.from = q.pos /\ q.crc \in {0, Len}
  <2> SUFFICES ASSUME Honest \/ ~lost
               PROVE  s = q.pos + k /\ q.from = q.pos /\ q.crc \in {0, Len}
    OBVIOUS
  <2>1. Right(q) BY DEF Inv, Sound
  <2> QED BY <2>1, <1>1 DEF Right, Coherent
<1> HIDE DEF q, s, c, d
<1>7. Bounds(c) /\ Bounds(d) /\ (Honest \/ ~lost => Right(c) /\ Right(d))
  BY <1>1, <1>2, <1>3, <1>4, <1>6, Sizes DEF Bounds, Right, Coherent
<1>8. ASSUME Roomy, ~lost, q.own
      PROVE  /\ q.pos + k < q.next => Kept(c, Anchors, full)
             /\ Kept(d, Anchors \cup {q.pos + k}, full)
  <2>1. Kept(q, Anchors, full)
    BY <1>8 DEF Inv, KeptAll, q
  <2>2. q.e = Len /\ Reach(q.b, Anchors) /\ Anchors \subseteq Nat
    BY <2>1, <1>1, Sizes DEF Kept, Working, Anchors, Inv, TypeOK
  <2>3. Reach(q.b, Anchors \cup {q.pos + k})
    BY <2>2, ReachGrows
  <2>4. q.pos + k <= q.pos + k /\ q.pos + k < q.pos + k + Interval
        /\ q.pos + k + Interval < q.pos + k + 2 * Interval
    BY <1>1, Sizes
  <2>5. CASE q.pc = "gap"
    <3>1. q.until = q.b /\ \E o \in Anchors : o <= q.pos /\ q.next = o + Interval
      BY <2>1, <2>5 DEF Kept
    <3>2. \A o \in Anchors : o <= q.pos => o <= q.pos + k
      BY <1>1, <2>2
    <3>3. q.pos + k < q.next => Kept(c, Anchors, full)
      BY <2>2, <2>5, <3>1, <3>2, <1>3 DEF Kept
    <3>4. Kept(d, Anchors \cup {q.pos + k}, full)
      BY <2>2, <2>3, <2>4, <2>5, <3>1, <1>4 DEF Kept
    <3> QED BY <3>3, <3>4
  <2>6. CASE q.pc = "copy"
    <3>1. q.anchored /\ q.until = Len /\ q.pos < q.next /\ Reach(q.pos, Anchors)
      BY <2>1, <2>6 DEF Kept
    <3>2. PICK o \in Anchors : o <= q.pos /\ q.next < o + 2 * Interval
      BY <2>1, <2>6 DEF Kept
    <3>3. /\ q.pos + k < q.next => Reach(q.pos + k, Anchors)
          /\ Reach(q.pos + k, Anchors \cup {q.pos + k})
      BY <1>8, <3>1, <3>2, <2>2, <1>1, ReachOn
    <3>4. o <= q.pos + k
      BY <3>2, <2>2, <1>1
    <3>5. q.pos + k < q.next => Kept(c, Anchors, full)
      BY <2>2, <2>6, <3>1, <3>2, <3>3, <3>4, <1>3 DEF Kept
    <3>6. Kept(d, Anchors \cup {q.pos + k}, full)
      BY <2>2, <2>3, <2>4, <2>6, <3>1, <3>3, <1>4 DEF Kept
    <3> QED BY <3>5, <3>6
  <2> QED BY <2>5, <2>6, <1>1
<1>9. CASE q.pos + k >= q.next /\ PutCheckpoint(r, q.pos + k, s, d)
  <2>1. d.own = req[r].own /\ (d.failed => req[r].failed)
    BY <1>4 DEF q
  <2>2. Roomy /\ ~lost /\ d.own => Kept(d, Anchors \cup {q.pos + k}, full)
    BY <1>4, <1>8
  <2> QED BY <1>2, <1>4, <1>6, <1>7, <1>9, <2>1, <2>2, Checkpointed
<1>10. CASE q.pos + k < q.next /\ Set(r, c) /\ UNCHANGED <<ckpts, lost>>
  <2>1. lost' \in BOOLEAN /\ (lost => lost') BY <1>10 DEF Inv, TypeOK
  <2>2. Stored /\ Anchors' = Anchors
    BY <1>10, <2>1, Untouched
  <2>3. Good(c)
    BY <1>1, <1>3, <1>7, <1>8, <1>10, <2>2 DEF Good
  <2>4. Followed(r, c) BY <1>3 DEF Followed, q
  <2> QED BY <1>3, <1>10, <2>2, <2>3, <2>4, RecordStep
<1> QED BY <1>5, <1>9, <1>10

LEMMA ReadGapStep ==
    ASSUME Inv, NEW r \in Requests, ReadGap(r)
    PROVE  Inv'
BY DigestStep DEF ReadGap

LEMMA ReadContentStep ==
    ASSUME Inv, NEW r \in Requests, ReadContent(r)
    PROVE  Inv'
<1>1. PICK k \in 1 .. MaxChunk :
        /\ req[r].from + k <= req[r].until
        /\ IF req[r].anchored
           THEN Digest(r, k)
           ELSE /\ Set(r, [req[r] EXCEPT !.pos = @ + k, !.from = @ + k])
                /\ UNCHANGED <<ckpts, lost>>
  BY DEF ReadContent
<1>2. full' = full /\ client' = client /\ req[r].pc = "copy"
  BY DEF ReadContent
<1>3. CASE req[r].anchored
  BY <1>1, <1>2, <1>3, DigestStep
<1>4. CASE ~req[r].anchored
  <2> DEFINE q == req[r]
             c == Moved(q, k, q.state)
  <2>1. /\ q \in Request /\ q.b < q.e /\ q.pos <= q.from + Len /\ (q.failed => lost)
        /\ q.from \in 0 .. Len /\ q.state \in States /\ q.pos \in Nat /\ k \in Nat
    <3>1. q \in Request /\ Bounds(q) /\ (q.failed => lost)
      BY DEF Inv, TypeOK
    <3>2. q.pos \in Offsets /\ q.from \in 0 .. Len /\ q.state \in States
      BY <3>1 DEF Request
    <3>a. q.pos \in Nat
      BY <3>2 DEF Offsets
    <3>b. k \in Nat
      OBVIOUS
    <3>3. q.pos \in Nat /\ k \in Nat
      BY <3>a, <3>b, Zenon
    <3>4. q.b < q.e /\ q.pos <= q.from + Len
      BY <3>1, <1>2 DEF Bounds, Working
    <3> QED BY <3>1, <3>2, <3>3, <3>4
  <2>2. /\ c \in Request
        /\ c.pc = q.pc /\ c.own = q.own /\ c.b = q.b /\ c.e = q.e
        /\ c.failed = q.failed /\ c.anchored = q.anchored
        /\ c.pos = q.pos + k /\ c.from = q.from + k /\ c.crc = q.crc
    BY <1>1, <2>1, MovedIs
  <2>3. Set(r, c) /\ ckpts' = ckpts /\ lost' = lost
    <3>1. c = [q EXCEPT !.pos = @ + k, !.from = @ + k]
      BY <2>1 DEF Moved, Request
    <3> QED BY <1>1, <1>4, <3>1
  <2> HIDE DEF c
  <2>4. Stored /\ Anchors' = Anchors /\ (Honest \/ ~lost' => Sound)
        /\ (Roomy /\ ~lost' => KeptAll)
    BY <2>3, <1>2, Untouched DEF Inv, TypeOK
  <2> HIDE DEF q
  <2>5. Good(c)
    <3>1. Bounds(c) BY <2>1, <2>2, <1>2, Sizes DEF Bounds, q
    <3>2. Honest \/ ~lost' => Right(c)
      <4> SUFFICES ASSUME Honest \/ ~lost' PROVE Right(c)
        OBVIOUS
      <4>1. Right(q) BY <2>4 DEF Sound, q
      <4> QED BY <4>1, <2>2, <1>2, <1>4 DEF Right, Coherent, q
    <3>3. Roomy /\ ~lost' => ~c.own
      BY <2>2, <2>4, <1>2, <1>4 DEF KeptAll, Kept, q
    <3> QED BY <3>1, <3>2, <3>3, <2>1, <2>2, <2>3 DEF Good
  <2>6. Followed(r, c) BY <2>2, <1>2 DEF Followed, q
  <2> QED BY <2>2, <2>3, <2>4, <2>5, <2>6, RecordStep
<1> QED BY <1>3, <1>4

LEMMA GapEndsStep ==
    ASSUME Inv, NEW r \in Requests, GapEnds(r)
    PROVE  Inv'
<1> DEFINE q == req[r]
<1>1. /\ q \in Request /\ q.pc = "gap" /\ q.b < q.e /\ (q.failed => lost)
      /\ q.b \in 0 .. Len /\ q.state \in States /\ lost \in BOOLEAN
  <2>1. q \in Request /\ q.pc = "gap" /\ Bounds(q) /\ (q.failed => lost)
    BY DEF GapEnds, Inv, TypeOK
  <2>2. q.b \in 0 .. Len /\ q.state \in States
    BY <2>1 DEF Request
  <2> QED BY <2>1, <2>2 DEF Inv, TypeOK, Bounds, Working
<1>2. ckpts' = ckpts /\ full' = full /\ client' = client
  BY DEF GapEnds
<1> HIDE DEF q
<1>3. ASSUME NEW a \in BOOLEAN, NEW s \in States, Set(r, Content(q, a, s)),
             lost' \in BOOLEAN, lost => lost',
             Honest \/ ~lost' => (a => s = q.b),
             Roomy /\ ~lost' /\ q.own => a /\ \E o \in Anchors : o <= q.b /\ q.b < o + Interval
      PROVE  Inv'
  <2> DEFINE c == Content(q, a, s)
  <2>1. /\ c \in Request
        /\ c.pc = "fetch" /\ c.own = q.own /\ c.b = q.b /\ c.e = q.e
        /\ c.failed = q.failed /\ c.anchored = a /\ (a => c.state = s)
        /\ c.pos = 0 /\ c.from = 0 /\ c.crc = q.crc
    BY <1>1, ContentIs
  <2>2. Set(r, c) BY <1>3
  <2> HIDE DEF c
  <2>3. Stored /\ Anchors' = Anchors /\ (Honest \/ ~lost' => Sound)
        /\ (Roomy /\ ~lost' => KeptAll)
    BY <1>2, <1>3, Untouched
  <2>4. Good(c)
    <3>1. Bounds(c) BY <1>1, <2>1, Sizes DEF Bounds
    <3>2. Honest \/ ~lost' => Right(c)
      <4> SUFFICES ASSUME Honest \/ ~lost' PROVE Right(c)
        OBVIOUS
      <4>1. Right(q) /\ (a => s = q.b) BY <2>3, <1>3 DEF Sound, q
      <4> QED BY <4>1, <2>1 DEF Right, Coherent
    <3>3. Roomy /\ ~lost' /\ c.own => Kept(c, Anchors', full')
      <4> SUFFICES ASSUME Roomy, ~lost', c.own PROVE Kept(c, Anchors', full')
        OBVIOUS
      <4>1. Kept(q, Anchors, full) BY <2>1, <2>3 DEF KeptAll, q
      <4>2. q.e = Len /\ Reach(q.b, Anchors) BY <4>1, <1>1 DEF Kept, Working
      <4> QED BY <4>2, <1>3, <2>1, <2>3 DEF Kept
    <3> QED BY <3>1, <3>2, <3>3, <2>1, <1>1, <1>3 DEF Good
  <2>5. Followed(r, c) BY <2>1, <1>2 DEF Followed, q
  <2> QED BY <2>1, <2>2, <2>3, <2>4, <2>5, RecordStep
<1>4. CASE q.from = q.until /\ Set(r, Content(q, q.pos = q.b, q.state)) /\ UNCHANGED lost
  <2> DEFINE at == q.pos = q.b
  <2>1. at \in BOOLEAN /\ Set(r, Content(q, at, q.state)) BY <1>4
  <2>2. Honest \/ ~lost' => (at => q.state = q.b)
    <3>1. Honest \/ ~lost' => Right(q) BY <1>4 DEF Inv, Sound, q
    <3> QED BY <3>1, <1>1 DEF Right, Coherent
  <2>3. Roomy /\ ~lost' /\ q.own => at /\ \E o \in Anchors : o <= q.b /\ q.b < o + Interval
    <3> SUFFICES ASSUME Roomy, ~lost', q.own
                 PROVE  at /\ \E o \in Anchors : o <= q.b /\ q.b < o + Interval
      OBVIOUS
    <3>1. Right(q) /\ Kept(q, Anchors, full) BY <1>4 DEF Inv, Sound, KeptAll, q
    <3>2. q.from = q.pos /\ q.until = q.b /\ q.pos < q.next
      BY <3>1, <1>1 DEF Right, Coherent, Kept
    <3>3. \E o \in Anchors : o <= q.pos /\ q.next = o + Interval
      BY <3>1, <1>1 DEF Kept
    <3> QED BY <3>2, <3>3, <1>4
  <2> HIDE DEF at
  <2> QED BY <2>1, <2>2, <2>3, <1>1, <1>3, <1>4
<1>5. CASE Set(r, Content(q, FALSE, 0)) /\ lost' = TRUE
  BY <1>1, <1>3, <1>5, Sizes
<1> QED BY <1>4, <1>5 DEF GapEnds, q

\* The content of a request ends without anything being recorded: nobody loses a
\* checksum by it that was not lost before.
LEMMA PastStep ==
    ASSUME Inv, NEW r \in Requests, NEW pc \in {"directory", "done"},
           Set(r, Past(req[r], pc)), ckpts' = ckpts, full' = full, client' = client,
           lost' \in BOOLEAN, lost => lost',
           Roomy /\ ~lost' /\ req[r].own =>
               /\ req[r].crc = Len
               /\ pc = "directory" => full = Len /\ Reach(Len, Anchors)
    PROVE  Inv'
<1> DEFINE q == req[r]
           c == Past(q, pc)
<1>1. q \in Request BY DEF Inv, TypeOK
<1>2. /\ c \in Request /\ c.pc = pc /\ c.own = q.own /\ ~c.failed /\ c.pos = 0 /\ c.from = 0
      /\ c.crc = q.crc
  <2> HIDE DEF q
  <2> QED BY <1>1, PastIs
<1>3. Set(r, c) OBVIOUS
<1> HIDE DEF c
<1>4. Stored /\ Anchors' = Anchors /\ (Honest \/ ~lost' => Sound)
      /\ (Roomy /\ ~lost' => KeptAll)
  BY Untouched
<1>5. Good(c)
  <2>1. Bounds(c) BY <1>2, Sizes DEF Bounds, Working
  <2>2. Honest \/ ~lost' => Right(c)
    BY <1>2, <1>4 DEF Right, Coherent, Sound
  <2>3. Roomy /\ ~lost' /\ c.own => Kept(c, Anchors', full')
    BY <1>2, <1>4 DEF Kept, Working
  <2> QED BY <1>2, <2>1, <2>2, <2>3 DEF Good
<1>6. Followed(r, c) BY <1>2 DEF Followed
<1> QED BY <1>2, <1>3, <1>4, <1>5, <1>6, RecordStep

LEMMA DirectoryStep ==
    ASSUME Inv, NEW r \in Requests, Directory(r)
    PROVE  Inv'
<1>1. Roomy /\ ~lost /\ req[r].own => req[r].crc = Len
  BY DEF Directory, Inv, KeptAll, Kept
<1>2. lost \in BOOLEAN BY DEF Inv, TypeOK
<1> QED BY <1>1, <1>2, PastStep DEF Directory

LEMMA BehindIs ==
    ASSUME NEW q
    PROVE  Behind(q) \in {"directory", "done"}
BY DEF Behind

LEMMA ContentShortStep ==
    ASSUME Inv, NEW r \in Requests, ContentShort(r)
    PROVE  Inv'
BY BehindIs, PastStep DEF ContentShort

LEMMA ContentEndsStep ==
    ASSUME Inv, NEW r \in Requests, ContentEnds(r)
    PROVE  Inv'
<1> DEFINE q == req[r]
           past == Past(q, Behind(q))
           c == [past EXCEPT !.crc = q.state]
<1>1. /\ q \in Request /\ q.pc = "copy" /\ q.from = q.until /\ q.b < q.e /\ client' = client
      /\ q.e \in 0 .. Len /\ q.state \in States /\ lost \in BOOLEAN
  <2>1. q \in Request /\ q.pc = "copy" /\ Bounds(q)
    BY DEF ContentEnds, Inv, TypeOK
  <2>2. q.e \in 0 .. Len /\ q.state \in States
    BY <2>1 DEF Request
  <2> QED BY <2>1, <2>2 DEF ContentEnds, Inv, TypeOK, Bounds, Working
<1>2. /\ past \in Request /\ past.pc = Behind(q) /\ past.own = q.own /\ ~past.failed
      /\ past.pos = 0 /\ past.from = 0 /\ past.crc = q.crc
  <2> HIDE DEF q
  <2> QED BY <1>1, BehindIs, PastIs
<1>3. IF q.anchored /\ q.pos = q.e
      THEN IF q.e = Len
           THEN PutCRC(r, q.state, c) /\ UNCHANGED ckpts
           ELSE PutCheckpoint(r, q.e, q.state, past) /\ UNCHANGED full
      ELSE Set(r, past) /\ UNCHANGED <<ckpts, full, lost>>
  BY DEF ContentEnds
<1>4. Honest \/ ~lost => q.from = q.pos /\ (q.anchored => q.state = q.pos) /\ q.crc \in {0, Len}
  <2>1. Honest \/ ~lost => Right(q) BY DEF Inv, Sound
  <2> HIDE DEF q
  <2> QED BY <2>1, <1>1 DEF Right, Coherent
<1>5. Roomy /\ ~lost /\ q.own =>
        q.e = Len /\ q.anchored /\ q.until = Len /\ Reach(q.pos, Anchors)
  <2>1. Roomy /\ ~lost /\ q.own => Kept(q, Anchors, full) BY DEF Inv, KeptAll
  <2> HIDE DEF q
  <2> QED BY <2>1, <1>1 DEF Kept, Working
<1> HIDE DEF past
<1>6. /\ c \in Request /\ c.pc = past.pc /\ c.own = past.own /\ c.failed = past.failed
      /\ c.pos = past.pos /\ c.from = past.from /\ c.crc = q.state
  <2> HIDE DEF q
  <2> QED BY <1>1, <1>2, KnownIs
<1> HIDE DEF c
<1>7. CASE q.anchored /\ q.pos = q.e /\ q.e = Len
  <2>1. PutCRC(r, q.state, c) /\ ckpts' = ckpts BY <1>3, <1>7
  <2>2. c.pc = "directory" BY <1>2, <1>6, <1>7 DEF Behind
  <2>3. c.own = req[r].own /\ ~c.failed /\ Bounds(c)
    BY <1>2, <1>6, <2>2, Sizes DEF Bounds, Working
  <2>4. Honest \/ ~lost => q.state = Len /\ Right(c)
    BY <1>4, <1>6, <1>7, <2>2 DEF Right, Coherent
  <2>5. Roomy /\ ~lost /\ c.own => Kept(c, Anchors, Len)
    <3> SUFFICES ASSUME Roomy, ~lost, c.own PROVE Kept(c, Anchors, Len)
      OBVIOUS
    <3>1. Reach(Len, Anchors) /\ c.crc = Len
      BY <1>2, <1>5, <1>6, <1>7, <2>4
    <3> QED BY <3>1, <2>2 DEF Kept, Working
  <2> QED BY <1>1, <1>6, <2>1, <2>3, <2>4, <2>5, Checksummed
<1>8. CASE q.anchored /\ q.pos = q.e /\ q.e # Len
  <2>1. PutCheckpoint(r, q.e, q.state, past) /\ full' = full BY <1>3, <1>8
  <2>2. past.pc = "done" BY <1>2, <1>8 DEF Behind
  <2>3. past.own = req[r].own /\ ~past.failed /\ Bounds(past)
    BY <1>2, <2>2, Sizes DEF Bounds, Working
  <2>4. Honest \/ ~lost => q.state = q.e /\ Right(past)
    BY <1>2, <1>4, <1>8, <2>2 DEF Right, Coherent
  <2>5. Roomy /\ ~lost /\ past.own => Kept(past, Anchors \cup {q.e}, full)
    BY <1>2, <1>5, <1>8
  <2>6. q.e \in Offsets BY <1>1, Sizes
  <2> QED BY <1>1, <1>2, <2>1, <2>3, <2>4, <2>5, <2>6, Checkpointed
<1>9. CASE ~(q.anchored /\ q.pos = q.e)
  <2>1. Set(r, past) /\ ckpts' = ckpts /\ full' = full /\ lost' = lost BY <1>3, <1>9
  <2>2. Roomy /\ ~lost => ~req[r].own
    BY <1>1, <1>4, <1>5, <1>9
  <2> QED BY <1>1, <2>1, <2>2, BehindIs, PastStep DEF past
<1> QED BY <1>7, <1>8, <1>9

\* Whatever of the content the client is left with, an anchor is within reach of it,
\* and if it is left with all of the file, the checksum is known or lost.
LEMMA HangUpIs ==
    ASSUME Inv, NEW r \in Requests, Active(r), client.req = r, HangUp(r),
           ckpts' = ckpts, full' = full
    PROVE  /\ client' \in [req : Requests \cup {NoRequest}, base : 0 .. Len]
           /\ client'.req \notin Requests
           /\ lost' \in BOOLEAN /\ (lost => lost')
           /\ Roomy /\ ~lost' => Based'
<1> DEFINE q == req[r]
<1>1. PICK held \in client.base .. Len :
        /\ CASE req[r].pc = "copy" -> held <= req[r].pos
             [] req[r].pc \in {"directory", "done"} -> TRUE
             [] OTHER -> held = client.base
        /\ client' = [req |-> NoRequest, base |-> held]
        /\ lost' = (lost \/ (req[r].pc = "copy" /\ held = Len))
  BY DEF HangUp
<1>2. /\ q.pc = "copy" => held <= q.pos
      /\ q.pc = "copy" \/ q.pc \in {"directory", "done"} \/ held = client.base
  BY <1>1, Zenon
<1>3. client' = [req |-> NoRequest, base |-> held]
      /\ lost' = (lost \/ (q.pc = "copy" /\ held = Len))
  BY <1>1, Zenon
<1>4. lost \in BOOLEAN /\ client.base \in 0 .. Len /\ q.own
  BY DEF Inv, TypeOK
<1> HIDE DEF q
<1>5. held \in 0 .. Len /\ Anchors' = Anchors
  BY <1>1, <1>4, Sizes DEF Anchors
<1>6. ASSUME Roomy, ~lost' PROVE Based'
  <2>1. Kept(q, Anchors, full) /\ Based
    BY <1>3, <1>4, <1>6 DEF Inv, KeptAll, q
  <2>2. client'.base = held BY <1>3
  <2>3. CASE q.pc = "copy"
    <3>1. Reach(q.pos, Anchors) /\ held <= q.pos /\ held # Len
      BY <2>1, <2>3, <1>2, <1>3, <1>6 DEF Kept
    <3>2. q.pos \in Nat BY Sizes DEF Inv, TypeOK, Request, q
    <3>3. Reach(held, Anchors)
      BY <3>1, <3>2, <1>5 DEF Reach
    <3> QED BY <3>1, <3>3, <2>2, <1>5 DEF Based
  <2>4. CASE q.pc \in {"directory", "done"}
    <3>1. Reach(Len, Anchors) /\ full = Len
      BY <2>1, <2>4 DEF Kept, Active, q
    <3>2. Reach(held, Anchors)
      BY <3>1, <1>5, Sizes DEF Reach
    <3> QED BY <3>1, <3>2, <2>2, <1>5 DEF Based
  <2>5. CASE held = client.base
    BY <2>1, <2>2, <2>5, <1>5 DEF Based
  <2> QED BY <2>3, <2>4, <2>5, <1>2
<1> QED BY <1>3, <1>4, <1>5, <1>6, SizesAssumption

LEMMA DieStep ==
    ASSUME Inv, NEW r \in Requests, Die(r)
    PROVE  Inv'
<1> DEFINE q == req[r]
           c == Past(q, "failed")
<1>1. q \in Request /\ lost \in BOOLEAN BY DEF Inv, TypeOK
<1>2. Set(r, c) /\ ckpts' = ckpts /\ full' = full
      /\ Active(r) /\ IF client.req = r THEN HangUp(r) ELSE UNCHANGED <<client, lost>>
  BY DEF Die
<1>3. /\ c \in Request /\ c.pc = "failed" /\ c.own = q.own /\ ~c.failed
      /\ c.pos = 0 /\ c.from = 0 /\ c.crc = 0
  <2> HIDE DEF q
  <2> QED BY <1>1, PastIs
<1> HIDE DEF c
<1>4. lost' \in BOOLEAN /\ (lost => lost') /\ Followed(r, c)
  <2>1. CASE client.req = r
    BY <2>1, <1>2, HangUpIs DEF Followed
  <2>2. CASE client.req # r
    BY <2>2, <1>1, <1>2, <1>3 DEF Followed
  <2> QED BY <2>1, <2>2
<1>5. Stored BY <1>2, <1>4, Untouched
<1>6. Good(c)
  BY <1>3, Sizes DEF Good, Bounds, Working, Right, Coherent, Kept
<1> QED BY <1>2, <1>3, <1>4, <1>5, <1>6, RecordStep

LEMMA CutStep ==
    ASSUME Inv, NEW r \in Requests, Cut(r)
    PROVE  Inv'
<1>1. ckpts' = ckpts /\ full' = full /\ req' = req /\ client.req = r /\ HangUp(r) /\ Active(r)
  BY DEF Cut
<1>2. /\ client' \in [req : Requests \cup {NoRequest}, base : 0 .. Len]
      /\ client'.req \notin Requests
      /\ lost' \in BOOLEAN /\ (lost => lost')
      /\ Roomy /\ ~lost' => Based'
  BY <1>1, HangUpIs
<1>3. TypeOK' BY <1>1, <1>2 DEF Inv, TypeOK
<1>4. Honest \/ ~lost' => Sound'
  BY <1>1, <1>2 DEF Inv, Sound, StoreTrue
<1>5. Roomy /\ ~lost' => KeptAll'
  BY <1>1, <1>2 DEF Inv, KeptAll, Anchors
<1> QED BY <1>1, <1>2, <1>3, <1>4, <1>5 DEF Inv

LEMMA ForgetStep ==
    ASSUME Inv, Forget
    PROVE  Inv'
<1>1. lost' = TRUE /\ req' = req /\ client' = client
      /\ \/ ckpts' = [o \in {} |-> 0] /\ full' = full
         \/ full' = 0 /\ ckpts' = ckpts
  BY DEF Forget
<1>2. TypeOK' BY <1>1, Sizes DEF Inv, TypeOK
<1>3. Honest => Sound'
  BY <1>1 DEF Inv, Sound, StoreTrue
<1> QED BY <1>1, <1>2, <1>3 DEF Inv

LEMMA InitInv == Init => Inv
<1> SUFFICES ASSUME Init PROVE Inv
  OBVIOUS
<1>1. DOMAIN ckpts = {} /\ full = 0 /\ req = [r \in Requests |-> Fresh]
      /\ client = [req |-> NoRequest, base |-> 0] /\ lost = FALSE
  BY DEF Init
<1>2. TypeOK BY <1>1, FreshIs, Sizes DEF TypeOK
<1>3. \A r \in Requests : req[r] = Fresh BY <1>1
<1>4. \A r \in Requests : Bounds(req[r]) /\ ~req[r].failed
  BY <1>3, Sizes DEF Fresh, Bounds, Working
<1>5. client.req \notin Requests BY <1>1, SizesAssumption
<1>6. Sound BY <1>1, <1>3 DEF Sound, StoreTrue, Right, Coherent, Fresh
<1>7. KeptAll
  <2>1. Based
    <3>1. Anchors = {0} BY <1>1 DEF Anchors
    <3>2. \A x \in 0 .. 0 : Covered(x, Anchors) BY <3>1, Sizes DEF Covered
    <3> QED BY <3>2, <1>1, Sizes DEF Based, Reach
  <2> QED BY <2>1, <1>3 DEF KeptAll, Fresh
<1> QED BY <1>2, <1>4, <1>5, <1>6, <1>7 DEF Inv

LEMMA StutterStep ==
    ASSUME Inv, UNCHANGED vars
    PROVE  Inv'
BY DEF vars, Inv, TypeOK, Sound, StoreTrue, KeptAll, Based, Anchors

LEMMA NextInv ==
    ASSUME Inv, [Next]_vars
    PROVE  Inv'
<1>1. ASSUME NEW r \in Requests, Step(r) PROVE Inv'
  BY <1>1, DownloadStep, OtherRequestStep, SeedStep, AskGapStep, ReadGapStep, GapEndsStep,
     AskContentStep, ReadContentStep, ContentEndsStep, ContentShortStep, DirectoryStep,
     DieStep, CutStep DEF Step
<1> QED BY <1>1, ForgetStep, StutterStep DEF Next, Over

LEMMA Invariant == Spec => []Inv
BY InitInv, NextInv, PTL DEF Spec
-----------------------------------------------------------------------------
\* The state of the store, the requests and the download stays what the code's types
\* and the file's length allow, whatever upstream and Redis do: the tracker never gets
\* further from the file than a body that is the whole of it (ziphttp/crc.go:59-67).
THEOREM CRCTypeCorrect == Spec => []TypeOK
BY Invariant, PTL DEF Inv

\* crc.go:23-25: with an upstream that answers a Range request with the range, no store
\* ever holds the checksum state of anything but the prefix it is filed under.
THEOREM StoreHolds ==
    ASSUME "whole" \notin Upstream
    PROVE  Spec => []StoreTrue
<1>1. Inv => StoreTrue BY DEF Inv, Honest, Sound
<1> QED BY <1>1, Invariant, PTL

\* writer.go:395-399: nor does the central directory of any response carry another
\* checksum than the file's, or none.
THEOREM DirectoryHolds ==
    ASSUME "whole" \notin Upstream
    PROVE  Spec => []DirectoryNeverWrong
<1>1. Inv => DirectoryNeverWrong BY DEF Inv, Honest, Sound, Right, DirectoryNeverWrong
<1> QED BY <1>1, Invariant, PTL

\* crc.go:30-38: a download broken off and resumed anywhere, over and over, ends with
\* the real checksum if nothing was lost on the way, provided that the gap the writer is
\* ready to fetch is two intervals and a read long, less three bytes: it is 64 MiB with
\* an interval of 16 MiB.
THEOREM ChecksumKept ==
    ASSUME MaxGap >= 2 * Interval + MaxChunk - 3
    PROVE  Spec => []ChecksumSurvives
<1>1. Inv => ChecksumSurvives
  BY DEF Inv, Roomy, KeptAll, Kept, ChecksumSurvives
<1> QED BY <1>1, Invariant, PTL
=============================================================================
