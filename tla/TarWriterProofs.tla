-------------------------- MODULE TarWriterProofs --------------------------
(***************************************************************************)
(* What tarhttp's header helpers give, for every name, size and time; then *)
(* the tar writer and the requests around it, for every archive, window,   *)
(* failure of upstream or client, and resume: the response is the window,  *)
(* byte for byte, and the whole download implements ArchiveStream.         *)
(***************************************************************************)
EXTENDS TarWriter, ArchiveWriterProofs

\* padding fills the block in hand and never a whole one.
LEMMA PaddingFills ==
    ASSUME NEW n \in Nat
    PROVE  /\ Padding(n) \in 0 .. BlockSize - 1
           /\ (n + Padding(n)) % BlockSize = 0
<1>1. BlockSize \in Nat \ {0} BY FormatAssumption
<1>2. n % BlockSize \in 0 .. BlockSize - 1 BY <1>1
<1>3. n = BlockSize * (n \div BlockSize) + (n % BlockSize) BY <1>1
<1>4. n \div BlockSize \in Nat BY <1>1
<1>5. CASE n % BlockSize = 0
  BY <1>1, <1>5 DEF Padding
<1>6. CASE n % BlockSize # 0
  <2>1. Padding(n) = BlockSize - (n % BlockSize) /\ Padding(n) \in 0 .. BlockSize - 1
    BY <1>1, <1>2, <1>6 DEF Padding
  <2>2. n + Padding(n) = BlockSize * ((n \div BlockSize) + 1)
    BY <1>1, <1>2, <1>3, <1>4, <2>1
  <2>3. \A b \in Nat \ {0} : \A k \in Nat : (b * k) % b = 0
    OBVIOUS
  <2>4. (n \div BlockSize) + 1 \in Nat
    BY <1>4
  <2>5. (BlockSize * ((n \div BlockSize) + 1)) % BlockSize = 0
    BY <1>1, <2>3, <2>4, Zenon
  <2> QED BY <2>1, <2>2, <2>5
<1> QED BY <1>5, <1>6

\* The numbers of at most six digits: every length of a record.
Limit == 1000000

\* A number of d digits lies between the powers of ten.
LEMMA DigitsBounds ==
    ASSUME NEW n \in Nat, n < Limit
    PROVE  \/ n <= 9 /\ Digits(n) = 1
           \/ n >= 10 /\ n <= 99 /\ Digits(n) = 2
           \/ n >= 100 /\ n <= 999 /\ Digits(n) = 3
           \/ n >= 1000 /\ n <= 9999 /\ Digits(n) = 4
           \/ n >= 10000 /\ n <= 99999 /\ Digits(n) = 5
           \/ n >= 100000 /\ Digits(n) = 6
BY SMT DEF Digits, FewDigits, Limit

\* tarhttp/writer.go:224-235: one correction of the first guess is enough.  The length
\* a record claims, its own digits included, is the length it has.
THEOREM RecordsMeasureUp ==
    ASSUME NEW v \in Nat, v + Frame + 7 < Limit
    PROVE  /\ PaxRecord(v).claims = PaxRecord(v).has
           /\ PaxRecord(v).has \in v + Frame + 1 .. v + Frame + 6
<1> DEFINE n == v + Frame
           g == FirstGuess(v)
           d == RecordLen(v, g)
           c == PaxClaim(v)
<1>1. n \in Nat /\ n < Limit - 7 /\ Frame \in Nat
  BY FormatAssumption, SMT DEF Limit
<1>2. /\ g = n + Digits(n) /\ d = n + Digits(g)
      /\ c = IF d = g THEN g ELSE d
      /\ RecordLen(v, c) = n + Digits(c)
  BY SMT DEF FirstGuess, RecordLen, PaxClaim, Limit
<1>3. Digits(n) \in 1 .. 6
  <2> HIDE DEF n
  <2> QED BY <1>1, DigitsBounds, SMT DEF Limit
<1>4. g \in Nat /\ g < Limit /\ g >= n + 1
  <2> HIDE DEF n, g
  <2> QED BY <1>1, <1>2, <1>3, SMT DEF Limit
<1>5. Digits(g) \in 1 .. 6
  <2> HIDE DEF n, g
  <2> QED BY <1>4, DigitsBounds, SMT DEF Limit
<1>6. d \in Nat /\ d < Limit
  <2> HIDE DEF n, g, d
  <2> QED BY <1>1, <1>2, <1>5, SMT DEF Limit
<1>7. c \in Nat /\ c < Limit
  <2> HIDE DEF n, g, d, c
  <2> QED BY <1>2, <1>4, <1>6, SMT DEF Limit
<1>8. Digits(c) \in 1 .. 6
  <2> HIDE DEF n, g, d, c
  <2> QED BY <1>7, DigitsBounds, SMT DEF Limit
<1>9. c = n + Digits(c)
  <2> HIDE DEF n, g, d, c
  <2>1. CASE d = g
    BY <1>2, <2>1, SMT DEF Limit
  <2>2. CASE d # g
    <3>1. c = d /\ Digits(g) # Digits(n)
      BY <1>1, <1>2, <1>3, <1>5, <2>2, SMT DEF Limit
    <3>2. Digits(g) = Digits(n) + 1
      BY <1>1, <1>2, <1>3, <1>4, <3>1, DigitsBounds, SMT DEF Limit
    <3>3. Digits(d) = Digits(g)
      BY <1>1, <1>2, <1>3, <1>4, <1>5, <1>6, <3>2, DigitsBounds, SMT DEF Limit
    <3> QED BY <1>2, <3>1, <3>3, SMT DEF Limit
  <2> QED BY <2>1, <2>2, SMT DEF Limit
<1> HIDE DEF n, c
<1>10. PaxRecord(v) = [claims |-> c, has |-> RecordLen(v, c)]
  BY SMT DEF PaxRecord, c, Limit
<1> QED BY <1>1, <1>2, <1>8, <1>9, <1>10, SMT DEF n, Limit

\* The record of a size is as well measured as that of a name.
LEMMA SizeRecord ==
    ASSUME NEW bytes \in Nat
    PROVE  /\ PaxRecord(Digits(bytes)).claims = PaxRecord(Digits(bytes)).has
           /\ PaxRecord(Digits(bytes)).has \in 1 .. Frame + 18
<1>1. Digits(bytes) \in 1 .. 12
  BY SMT DEF Digits, FewDigits
<1>2. Frame \in Nat /\ Frame <= 1000
  BY FormatAssumption, SMT
<1>3. Digits(bytes) \in Nat /\ Digits(bytes) + Frame + 7 < Limit
  BY <1>1, <1>2, SMT DEF Limit
<1>4. /\ PaxRecord(Digits(bytes)).claims = PaxRecord(Digits(bytes)).has
      /\ PaxRecord(Digits(bytes)).has \in Digits(bytes) + Frame + 1 .. Digits(bytes) + Frame + 6
  BY <1>3, RecordsMeasureUp
<1> QED BY <1>1, <1>2, <1>4, SMT

\* tarhttp/writer.go:184-187: whatever name, size and time an entry has, a reader finds
\* its way through the header and gets the name and the size back; the PAX entry
\* must not outgrow the size field of its own block.
THEOREM HeaderReadsBack ==
    ASSUME NEW name \in [len : Nat, ascii : BOOLEAN, whole : BOOLEAN], name.whole,
           name.len + Frame + 7 < Limit,
           NEW bytes \in Nat, NEW modified \in Int,
           (name.len + Frame + 6) + (Frame + 18) <= MaxOctal
    PROVE  LET h == EncodeHeader(name, bytes, modified)
           IN  /\ Legible(h)
               /\ ReadName(h) = name /\ ReadSize(h) = bytes
               /\ h.time # -1
<1> DEFINE h == EncodeHeader(name, bytes, modified)
           path == IF NeedsPath(name) THEN PaxRecord(name.len) ELSE NoRecord
           big  == IF NeedsSize(bytes) THEN PaxRecord(Digits(bytes)) ELSE NoRecord
<1>1. /\ MaxOctal \in Nat /\ MaxName \in Nat /\ Frame \in Nat
      /\ name.len \in Nat /\ name.ascii \in BOOLEAN
  BY FormatAssumption, SMT
<1>2. /\ h.path = path /\ h.fullName = name /\ h.big = big /\ h.bigSize = bytes
      /\ h.data = Octal(path.has + big.has)
      /\ h.name = Truncated(name)
      /\ h.size = Octal(IF NeedsSize(bytes) THEN 0 ELSE bytes)
      /\ h.time = Octal(IF modified \in 0 .. MaxOctal THEN modified ELSE 0)
  BY SMT DEF EncodeHeader
<1>3. /\ PaxRecord(name.len).claims = PaxRecord(name.len).has
      /\ PaxRecord(name.len).has \in 1 .. name.len + Frame + 6
  BY <1>1, RecordsMeasureUp, SMT
<1>4. NoRecord.claims = NoRecord.has /\ NoRecord.has = 0
  BY DEF NoRecord
<1>5. /\ path.claims = path.has /\ path.has \in 0 .. name.len + Frame + 6
      /\ big.claims = big.has /\ big.has \in 0 .. Frame + 18
      /\ path = NoRecord <=> ~NeedsPath(name)
      /\ big = NoRecord <=> ~NeedsSize(bytes)
  BY <1>1, <1>3, <1>4, SizeRecord, SMT
<1> HIDE DEF path, big, h
<1>6. path.has + big.has \in 0 .. MaxOctal
  BY <1>1, <1>5, SMT
<1>7. Legible(h)
  BY <1>2, <1>5, <1>6, SMT DEF Legible, Octal
<1>8. ReadName(h) = name
  <2>1. CASE NeedsPath(name)
    BY <1>2, <1>5, <2>1, SMT DEF ReadName
  <2>2. CASE ~NeedsPath(name)
    <3>1. h.path = NoRecord
      BY <1>2, <1>5, <2>2, SMT
    <3>2. name.len <= MaxName
      BY <1>1, <2>2, SMT DEF NeedsPath
    <3>3. Truncated(name) = name
      BY <3>2, SMT DEF Truncated
    <3> QED BY <1>2, <3>1, <3>3, SMT DEF ReadName
  <2> QED BY <2>1, <2>2
<1>9. ReadSize(h) = bytes
  BY <1>1, <1>2, <1>5, SMT DEF ReadSize, NeedsSize, Octal
<1>10. h.time # -1
  BY <1>1, <1>2, SMT DEF Octal
<1> QED BY <1>7, <1>8, <1>9, <1>10, Zenon DEF h
-----------------------------------------------------------------------------
\* The length of the archive.
Total == Place[NEntries + 1] + 2 * BlockSize

\* The cursor `current' is where the layout puts what comes next.
CursorOK ==
    /\ step = "header" => current = Place[at]
    /\ step \in {"content", "fetching", "padding"} => at \in Entries \ Dirs
    /\ step \in {"content", "fetching"} => current = ContentPlace
    /\ step = "padding" => current = ContentPlace + Size[at]
    /\ step = "done" => current = Total

WindowOK ==
    /\ pass = "size" => /\ win.b = 0 /\ win.e = Unbounded
                        /\ step \notin {"fetching", "failed"}
    /\ pass = "write" => /\ size = Total
                         /\ win.e \in Nat /\ win.b <= win.e /\ win.e < size
                         /\ asked.e = win.e /\ asked.b <= win.b

\* What was handed over is what lies between the window's start and the cursor.
OutOK ==
    /\ pass = "size" => size + out = current
    /\ pass = "write" => /\ out <= win.e + 1 - win.b
                         /\ step # "failed" => out = Held(current, win)
    /\ step = "fetching" => out - sent <= NetBuf /\ Streams
    /\ step = "done" => passed = out
    /\ ~wrong

VerdictOK ==
    /\ step # "failed" => err = "nil"
    /\ step = "failed" /\ outcome = "none" => err # "nil"
    /\ err # "length"
    /\ err = "write" => gone
    /\ err = "reset" => "reset" \in Upstream
    /\ outcome # "none" => /\ step \in {"done", "failed"}
                           /\ pass = "write"
                           /\ outcome = ArchiveOutcome(gone, err)
                           /\ err = "nil" => passed = Announced
                           /\ step = "done" => sent = passed

\* OnlyBodiesMisplace says nothing of where the writer is; it is kept because the cursor
\* follows the layout and the output the cursor.  That is lost with the first body that
\* is not what was asked for.
IInv == TypeOK /\ CursorOK /\ WindowOK /\ OutOK /\ VerdictOK

\* What holds whatever the bodies are: how the response ends is known from what went
\* wrong with it.
EndOK ==
    /\ gone \in BOOLEAN /\ err \in {"nil", "write", "length", "fetch", "reset"}
    /\ step # "failed" => err = "nil"
    /\ step = "failed" /\ outcome = "none" => err # "nil"
    /\ err = "write" => gone
    /\ err = "reset" => "reset" \in Upstream
    /\ err = "length" => ~exact
    /\ step = "done" => passed = out
    /\ outcome # "none" => /\ step \in {"done", "failed"}
                           /\ outcome = ArchiveOutcome(gone, err)
                           /\ err = "nil" => passed = out

\* No body is asked for when sizing, and none moves the size.
SizeOK ==
    /\ pass \in {"size", "write"}
    /\ pass = "size" => exact
    /\ pass = "write" => size = Total

Inv == EndOK /\ SizeOK /\ (exact => IInv)
-----------------------------------------------------------------------------
\* Entries follow each other without a gap.
LEMMA Layout ==
    ASSUME NEW k \in Entries
    PROVE  /\ NEntries \in Nat /\ k + 1 \in 1 .. NEntries + 1
           /\ HeaderLen[k] \in Nat \ {0} /\ Size[k] \in Nat /\ Padding(Size[k]) \in Nat
           /\ Place[k] \in Nat /\ Place[k + 1] \in Nat
           /\ k \in Dirs => Place[k + 1] = Place[k] + HeaderLen[k]
           /\ k \notin Dirs =>
                 Place[k + 1] = Place[k] + HeaderLen[k] + Size[k] + Padding(Size[k])
<1>1. /\ NEntries \in Nat /\ HeaderLen \in [Entries -> Nat \ {0}]
      /\ Size \in [Entries -> Nat] /\ Place \in [1 .. NEntries + 1 -> Nat]
  BY LayoutAssumption
<1>2. k \in 1 .. NEntries + 1 /\ k + 1 \in 1 .. NEntries + 1
  BY <1>1 DEF Entries
<1>3. HeaderLen[k] \in Nat \ {0} /\ Size[k] \in Nat /\ Place[k] \in Nat /\ Place[k + 1] \in Nat
  BY <1>1, <1>2
<1>4. BlockSize \in Nat \ {0}
  BY FormatAssumption
<1>5. Padding(Size[k]) \in Nat
  <2>1. Padding(Size[k]) \in 0 .. BlockSize - 1
    BY <1>3, PaddingFills
  <2> QED BY <1>4, <2>1
<1>6. Place[k + 1] = Place[k] + EntryLen(k)
  BY TarLayout
<1> QED BY <1>1, <1>2, <1>3, <1>5, <1>6 DEF EntryLen

LEMMA LastPlace ==
    /\ NEntries \in Nat /\ 1 \in 1 .. NEntries + 1 /\ Place[1] = 0
    /\ Place[NEntries + 1] \in Nat /\ BlockSize \in Nat \ {0} /\ Total \in Nat
<1>1. NEntries \in Nat /\ Place \in [1 .. NEntries + 1 -> Nat] /\ Place[1] = 0
  BY LayoutAssumption
<1>2. 1 \in 1 .. NEntries + 1 /\ NEntries + 1 \in 1 .. NEntries + 1
  BY <1>1
<1>3. BlockSize \in Nat \ {0}
  BY FormatAssumption
<1> QED BY <1>1, <1>2, <1>3 DEF Total

\* What the type invariant and the window say, in the form the steps use.
LEMMA Shape ==
    ASSUME IInv
    PROVE  /\ win = [b |-> win.b, e |-> win.e] /\ win.b \in Nat
           /\ current \in Nat /\ out \in Nat /\ passed \in 0 .. out /\ sent \in 0 .. passed
           /\ passed \in Nat /\ sent \in Nat /\ size \in Nat
           /\ pass \in {"size", "write"} /\ at \in 1 .. NEntries + 1
           /\ pass = "size" => win.b = 0 /\ win.e = Unbounded
           /\ pass = "write" => win \in [b : Nat, e : Nat] /\ win.b <= win.e
BY DEF IInv, TypeOK, WindowOK

\* Until it has failed the writer is running.
LEMMA Runs ==
    ASSUME IInv, step # "failed"
    PROVE  Running /\ ~wrong
BY Shape DEF IInv, OutOK, TypeOK, Running
-----------------------------------------------------------------------------
LEMMA InitIInv == Init => IInv
<1> SUFFICES ASSUME Init PROVE IInv
  OBVIOUS
<1> USE DEF Init
<1>1. MaxResumes \in Nat /\ NEntries \in Nat /\ Place[1] = 0
  BY LayoutAssumption
<1>2. TypeOK
  <2>1. asked \in [b : Nat, e : Nat \cup {Unbounded}]
    OBVIOUS
  <2>2. at \in 1 .. NEntries + 1 /\ resumes \in 0 .. MaxResumes
        /\ passed \in 0 .. out /\ sent \in 0 .. passed
    BY <1>1
  <2> QED BY <2>1, <2>2 DEF TypeOK
<1>3. CursorOK
  BY <1>1 DEF CursorOK
<1>4. WindowOK
  BY DEF WindowOK
<1>5. OutOK
  BY DEF OutOK
<1>6. VerdictOK
  BY DEF VerdictOK
<1> QED BY <1>2, <1>3, <1>4, <1>5, <1>6 DEF IInv

\* A step of the writer that neither ends in a failure nor begins a request keeps
\* the invariant if cursor and output move together.
LEMMA MovePreserves ==
    ASSUME IInv, UNCHANGED <<pass, asked, win, resumes, exact>>, UNCHANGED verdict,
           size' \in Nat, pass = "write" => size' = size,
           step \notin {"done", "failed"},
           step' \in {"header", "content", "fetching", "padding", "done"},
           pass = "size" => step' # "fetching",
           at' \in 1 .. NEntries + 1, current' \in Nat,
           Onward, wrong' \in BOOLEAN, ~wrong',
           CursorOK',
           pass = "size" => size' + out' = current',
           pass = "write" => out' = Held(current', win),
           step' = "fetching" => out' - sent' <= NetBuf /\ Streams',
           step' = "done" => passed' = out'
    PROVE  IInv'
<1>1. TypeOK'
  BY DEF IInv, TypeOK, verdict, Onward
<1>2. WindowOK'
  BY DEF IInv, WindowOK
<1>3. pass = "write" => out' <= win.e + 1 - win.b
  BY Shape, HeldBounds
<1>4. OutOK'
  BY <1>3 DEF IInv, OutOK
<1>5. VerdictOK'
  BY DEF IInv, VerdictOK, verdict
<1> QED BY <1>1, <1>2, <1>4, <1>5 DEF IInv

LEMMA HeaderPreserves == IInv /\ Header => IInv'
<1> SUFFICES ASSUME IInv, Header PROVE IInv'
  OBVIOUS
<1>1. at \in Entries /\ step = "header" /\ current = Place[at]
  BY Shape DEF Header, Entries, IInv, CursorOK
<1>2. /\ NEntries \in Nat /\ at + 1 \in 1 .. NEntries + 1 /\ HeaderLen[at] \in Nat
      /\ Place[at] \in Nat
      /\ at \in Dirs => Place[at + 1] = Place[at] + HeaderLen[at]
  BY <1>1, Layout
<1>3. Emit(current, HeaderLen[at])
  BY <1>1 DEF Header
<1>4. /\ Onward /\ ~wrong' /\ wrong' \in BOOLEAN
      /\ pass = "size" => out' = out + HeaderLen[at]
      /\ pass = "write" => out' = Held(current + HeaderLen[at], win)
  BY <1>1, <1>2, <1>3, EmitAdds, Runs DEF Running
<1>5. /\ current' = current + HeaderLen[at] /\ UNCHANGED verdict
      /\ UNCHANGED <<pass, asked, win, resumes, exact, size>>
  BY DEF Header, request
<1>6. \/ at \in Dirs /\ at' = at + 1 /\ step' = "header"
      \/ at \notin Dirs /\ at' = at /\ step' = "content"
  BY DEF Header, NextEntry
<1>7. CursorOK'
  <2>1. CASE at \in Dirs
    <3>1. current' = Place[at'] /\ step' = "header"
      BY <1>1, <1>2, <1>5, <1>6, <2>1
    <3> QED BY <3>1 DEF CursorOK
  <2>2. CASE at \notin Dirs
    <3>1. /\ current' = Place[at'] + HeaderLen[at'] /\ step' = "content"
          /\ at' \in Entries \ Dirs
      BY <1>1, <1>5, <1>6, <2>2
    <3> QED BY <3>1 DEF CursorOK, ContentPlace
  <2> QED BY <2>1, <2>2
<1>8. at' \in 1 .. NEntries + 1 /\ current' \in Nat /\ size' \in Nat
  BY <1>2, <1>5, <1>6, Shape
<1>9. pass = "size" => size' + out' = current'
  BY <1>1, <1>2, <1>4, <1>5, Shape DEF IInv, OutOK
<1>10. pass = "write" => out' = Held(current', win)
  BY <1>4, <1>5
<1>11. step \notin {"done", "failed"} /\ step' \in {"header", "content"}
  BY <1>1, <1>6
<1> QED BY <1>4, <1>5, <1>7, <1>8, <1>9, <1>10, <1>11, MovePreserves

LEMMA SkipContentPreserves == IInv /\ SkipContent => IInv'
<1> SUFFICES ASSUME IInv, SkipContent PROVE IInv'
  OBVIOUS
<1>1. at \in Entries /\ at \notin Dirs /\ step = "content" /\ current = ContentPlace
  BY DEF SkipContent, IInv, CursorOK
<1>2. Size[at] \in Nat /\ HeaderLen[at] \in Nat /\ Place[at] \in Nat
  BY <1>1, Layout
<1>3. /\ current' = current + Size[at] /\ step' = "padding" /\ at' = at
      /\ UNCHANGED <<pass, asked, win, resumes, exact>> /\ UNCHANGED stream /\ UNCHANGED verdict
      /\ size' = IF pass = "size" THEN size + Size[at] ELSE size
  BY DEF SkipContent
<1>4. out' = out /\ passed' = passed /\ sent' = sent /\ wrong' = wrong
  BY <1>3 DEF stream
<1>5. CursorOK'
  BY <1>1, <1>3 DEF CursorOK, ContentPlace
<1>6. pass = "size" => size' + out' = current'
  BY <1>1, <1>2, <1>3, <1>4, Shape DEF IInv, OutOK
<1>7. pass = "write" => out' = Held(current', win)
  <2>1. pass = "write" => Clipped(Size[at]).skip
    BY DEF SkipContent, Streams
  <2> QED BY <1>1, <1>2, <1>3, <1>4, <2>1, ChunkAdds, Runs
<1>8. size' \in Nat /\ current' \in Nat /\ (pass = "write" => size' = size)
  BY <1>2, <1>3, Shape
<1>9. at' \in 1 .. NEntries + 1 /\ step' = "padding" /\ step \notin {"done", "failed"}
  BY <1>1, <1>3, Shape
<1>10. Onward /\ ~wrong' /\ wrong' \in BOOLEAN
  BY <1>4, Shape DEF IInv, OutOK, TypeOK, Onward
<1> QED BY <1>3, <1>5, <1>6, <1>7, <1>8, <1>9, <1>10, MovePreserves

LEMMA AskUpstreamPreserves == IInv /\ AskUpstream => IInv'
<1> SUFFICES ASSUME IInv, AskUpstream PROVE IInv'
  OBVIOUS
<1>1. step = "content" /\ Streams /\ step' = "fetching" /\ at' = at /\ current' = current
  BY DEF AskUpstream
<1>2. /\ UNCHANGED <<pass, asked, win, resumes, exact, size>> /\ UNCHANGED verdict
      /\ out' = out /\ wrong' = wrong /\ passed' = out /\ Leaves
  BY DEF AskUpstream, Flush, request
<1>3. Streams' /\ pass = "write"
  BY <1>1, <1>2 DEF Streams, Clipped
<1>4. CursorOK'
  BY <1>1 DEF IInv, CursorOK, ContentPlace
<1>5. out' = Held(current', win)
  BY <1>1, <1>2, <1>3 DEF IInv, OutOK
<1>6. Onward /\ out' - sent' <= NetBuf
  <2>1. out' \in Nat /\ passed' \in 0 .. out'
    BY <1>2, Shape
  <2> QED BY <1>1, <1>2, <1>3, <2>1, LeavesOnward, Runs
<1>7. ~wrong' /\ wrong' \in BOOLEAN
  BY <1>2 DEF IInv, OutOK, TypeOK
<1> QED BY <1>1, <1>2, <1>3, <1>4, <1>5, <1>6, <1>7, Shape, MovePreserves

\* The body is what was asked for.
LEMMA CopyContentPreserves == IInv /\ exact' /\ CopyContent => IInv'
<1> SUFFICES ASSUME IInv, exact', CopyContent PROVE IInv'
  OBVIOUS
<1>1. /\ at \in Entries /\ at \notin Dirs /\ step = "fetching" /\ current = ContentPlace
      /\ Streams
  BY DEF CopyContent, IInv, CursorOK, OutOK
<1>2. Size[at] \in Nat /\ HeaderLen[at] \in Nat /\ Place[at] \in Nat
  BY <1>1, Layout
<1>3. /\ current' = current + Size[at] /\ step' = "padding" /\ at' = at
      /\ UNCHANGED <<pass, asked, win, resumes, exact, size>> /\ UNCHANGED verdict
      /\ Hand(ContentPlace + Clipped(Size[at]).b, Kept(Size[at]))
  <2>1. PICK body \in Bodies : Hand(body.place, body.len) /\ exact' = (exact /\ body = Asked)
    BY DEF CopyContent
  <2>4. body = Asked
    BY <2>1, Zenon
  <2>2. body.place = ContentPlace + Clipped(Size[at]).b /\ body.len = Kept(Size[at])
    BY <2>4 DEF Asked, Chunk
  <2>3. exact \in BOOLEAN
    BY DEF IInv, TypeOK
  <2> QED BY <2>1, <2>2, <2>3 DEF CopyContent, span
<1>4. pass = "write" /\ ~Clipped(Size[at]).skip
  BY <1>1 DEF Streams
<1>5. Emit(current, Size[at])
  BY <1>1, <1>3, <1>4 DEF Emit
<1>6. /\ Onward /\ ~wrong' /\ wrong' \in BOOLEAN
      /\ out' = Held(current + Size[at], win)
  BY <1>1, <1>2, <1>4, <1>5, EmitAdds, Runs DEF Running
<1>7. CursorOK'
  BY <1>1, <1>3 DEF CursorOK, ContentPlace
<1>8. current' \in Nat
  BY <1>2, <1>3, Shape
<1> QED BY <1>1, <1>3, <1>4, <1>6, <1>7, <1>8, Shape, MovePreserves

LEMMA PadPreserves == IInv /\ Pad => IInv'
<1> SUFFICES ASSUME IInv, Pad PROVE IInv'
  OBVIOUS
<1> DEFINE pad == Padding(Size[at])
<1>1. at \in Entries /\ at \notin Dirs /\ step = "padding" /\ current = ContentPlace + Size[at]
  BY DEF Pad, IInv, CursorOK
<1>2. /\ NEntries \in Nat /\ at + 1 \in 1 .. NEntries + 1 /\ pad \in Nat
      /\ HeaderLen[at] \in Nat /\ Size[at] \in Nat /\ Place[at] \in Nat
      /\ Place[at + 1] = Place[at] + HeaderLen[at] + Size[at] + pad
  BY <1>1, Layout
<1>3. /\ UNCHANGED <<pass, asked, win, resumes, exact, size>> /\ UNCHANGED verdict
      /\ at' = at + 1 /\ step' = "header"
  BY DEF Pad, NextEntry, request
<1>4. current' = current + pad
  <2>1. CASE pad > 0
    BY <2>1 DEF Pad
  <2>2. CASE ~(pad > 0)
    BY <1>2, <2>2, Shape DEF Pad
  <2> QED BY <2>1, <2>2
<1>5. /\ Onward /\ ~wrong' /\ wrong' \in BOOLEAN
      /\ pass = "size" => out' = out + pad
      /\ pass = "write" => out' = Held(current + pad, win)
  <2>1. CASE pad > 0
    <3>1. Emit(current, pad)
      BY <1>1, <2>1 DEF Pad
    <3> QED BY <1>1, <1>2, <3>1, EmitAdds, Runs DEF Running
  <2>2. CASE ~(pad > 0)
    <3>1. pad = 0 /\ out' = out /\ passed' = passed /\ sent' = sent /\ wrong' = wrong
      BY <1>2, <2>2 DEF Pad, stream
    <3>2. current + 0 = current /\ out + 0 = out
      BY Shape
    <3> HIDE DEF pad
    <3>3. Onward
      BY <3>1, Shape DEF Onward
    <3> QED BY <1>1, <3>1, <3>2, <3>3, Shape DEF IInv, OutOK, TypeOK
  <2> QED BY <2>1, <2>2
<1>6. CursorOK'
  <2>1. current' = Place[at']
    BY <1>1, <1>2, <1>3, <1>4 DEF ContentPlace
  <2> QED BY <1>3, <2>1 DEF CursorOK
<1>7. at' \in 1 .. NEntries + 1 /\ current' \in Nat /\ size' \in Nat
  BY <1>2, <1>3, <1>4, Shape
<1>8. pass = "size" => size' + out' = current'
  BY <1>1, <1>2, <1>3, <1>4, <1>5, Shape DEF IInv, OutOK
<1>9. pass = "write" => out' = Held(current', win)
  BY <1>4, <1>5
<1> QED BY <1>1, <1>3, <1>5, <1>6, <1>7, <1>8, <1>9, MovePreserves

\* At the end of the archive the output is the window.
LEMMA ClosePreserves == IInv /\ Close => IInv'
<1> SUFFICES ASSUME IInv, Close PROVE IInv'
  OBVIOUS
<1> DEFINE l == 2 * BlockSize
<1>1. at = NEntries + 1 /\ step = "header" /\ current = Place[NEntries + 1]
  BY LastPlace, Shape DEF Close, IInv, CursorOK
<1>2. l \in Nat /\ Place[NEntries + 1] \in Nat /\ Total = Place[NEntries + 1] + l
  BY LastPlace DEF Total
<1>3. /\ UNCHANGED <<pass, asked, win, resumes, exact, size>> /\ UNCHANGED verdict
      /\ at' = at /\ step' = "done" /\ current' = current + l
      /\ EmitAndFlush(current, l)
  BY <1>1 DEF Close, request
<1>4. out \in Nat /\ ~wrong /\ wrong \in BOOLEAN /\ pass \in {"size", "write"}
  BY Shape DEF IInv, OutOK, TypeOK
<1>5. /\ Onward /\ passed' = out' /\ wrong' = wrong
      /\ pass = "size" => out' = out + l
      /\ pass = "write" => out' = Held(current + l, win)
  BY <1>1, <1>2, <1>3, EndAdds, Runs
<1> HIDE DEF l
<1>6. Onward /\ ~wrong' /\ wrong' \in BOOLEAN
  BY <1>4, <1>5
<1>7. pass = "write" => out' = Held(current', win)
  BY <1>3, <1>5
<1>8. passed' = out'
  BY <1>5
<1>9. pass = "size" => size' + out' = current'
  BY <1>1, <1>2, <1>3, <1>5, Shape DEF IInv, OutOK
<1>10. CursorOK'
  BY <1>1, <1>2, <1>3 DEF CursorOK
<1>11. at' \in 1 .. NEntries + 1 /\ current' \in Nat /\ size' \in Nat
       /\ step \notin {"done", "failed"}
  BY <1>1, <1>2, <1>3, <1>6, <1>8, Shape
<1> QED BY <1>3, <1>6, <1>7, <1>8, <1>9, <1>10, <1>11, MovePreserves

\* Size answers the length of the archive, and every range of it is a window.
LEMMA SizedPreserves == IInv /\ Sized => IInv'
<1> SUFFICES ASSUME IInv, Sized PROVE IInv'
  OBVIOUS
<1>1. /\ pass = "size" /\ step = "done" /\ size + out = Total /\ passed = out
  BY DEF Sized, StartWrite, IInv, CursorOK, OutOK
<1>2. /\ pass' = "write" /\ size' = size + out
      /\ at' = 1 /\ step' = "header" /\ current' = 0
      /\ out' = 0 /\ passed' = 0 /\ sent' = 0
      /\ gone' = FALSE /\ err' = "nil" /\ outcome' = "none"
      /\ wrong' = wrong /\ resumes' = resumes /\ exact' = exact /\ win' = asked'
  BY <1>1 DEF Sized, StartWrite, Fresh
<1>3. PICK b \in 0 .. (size + out) - 1, e \in 0 .. (size + out) - 1 :
              b <= e /\ asked' = [b |-> b, e |-> e]
  BY <1>1 DEF Sized, StartWrite
<1>4. /\ size + out \in Nat /\ b \in Nat /\ e \in Nat /\ e < size'
      /\ win'.b = b /\ win'.e = e /\ asked'.b = b /\ asked'.e = e
      /\ win' \in [b : Nat, e : Nat] /\ asked' \in [b : Nat, e : Nat]
  <2>1. size + out \in Nat
    BY Shape
  <2>2. b \in Nat /\ e \in Nat /\ e < size + out
    BY <1>3, <2>1
  <2> QED BY <1>2, <1>3, <2>1, <2>2
<1>5. NEntries \in Nat /\ Place[1] = 0
  BY LastPlace
<1>6. TypeOK'
  <2>1. win' \in [b : Nat, e : Nat \cup {Unbounded}] /\ asked' \in [b : Nat, e : Nat \cup {Unbounded}]
    BY <1>4
  <2>2. at' \in 1 .. NEntries + 1 /\ passed' \in 0 .. out' /\ sent' \in 0 .. passed'
    BY <1>2, <1>5
  <2> QED BY <1>2, <1>4, <2>1, <2>2 DEF IInv, TypeOK
<1>7. CursorOK'
  BY <1>2, <1>5 DEF CursorOK
<1>8. WindowOK'
  BY <1>1, <1>2, <1>3, <1>4 DEF WindowOK, Total
<1>9. OutOK'
  <2>1. Held(0, win') = 0
    BY <1>4, HeldBounds, <1>3
  <2> QED BY <1>2, <1>3, <1>4, <2>1 DEF OutOK, IInv
<1>10. VerdictOK'
  BY <1>2 DEF VerdictOK
<1> QED BY <1>6, <1>7, <1>8, <1>9, <1>10 DEF IInv

\* A failure leaves what was handed over a beginning of the window.
LEMMA FailurePreserves ==
    ASSUME IInv, UNCHANGED request, pass = "write", step \notin {"done", "failed"},
           at' = at, current' = current, step' = "failed",
           gone' = gone, outcome' = outcome,
           err' \in {"write", "fetch", "reset"}, err' = "write" => gone,
           err' = "reset" => "reset" \in Upstream,
           Onward, wrong' \in BOOLEAN, ~wrong',
           out' <= win.e + 1 - win.b
    PROVE  IInv'
<1>1. TypeOK'
  BY DEF IInv, TypeOK, request, Onward
<1>2. CursorOK'
  BY DEF CursorOK
<1>3. WindowOK'
  BY DEF IInv, WindowOK, request
<1>4. OutOK'
  BY DEF IInv, OutOK, request
<1>5. VerdictOK'
  BY DEF IInv, VerdictOK, request
<1> QED BY <1>1, <1>2, <1>3, <1>4, <1>5 DEF IInv

LEMMA UpstreamFailsPreserves == IInv /\ UpstreamFails => IInv'
<1> SUFFICES ASSUME IInv, UpstreamFails PROVE IInv'
  OBVIOUS
<1>1. /\ step = "fetching" /\ step' = "failed" /\ UNCHANGED request /\ at' = at
      /\ current' = current /\ gone' = gone /\ outcome' = outcome /\ err' \in {"fetch", "reset"}
      /\ err' = "reset" => "reset" \in Upstream
  BY DEF UpstreamFails, UpstreamErrors
<1>2. pass = "write" /\ at \in Entries /\ ~Clipped(Size[at]).skip /\ current = ContentPlace
  BY <1>1 DEF IInv, OutOK, CursorOK, Streams
<1>3. Size[at] \in Nat
  BY <1>2, Layout
<1>4. /\ out \in Nat /\ ~wrong /\ wrong \in BOOLEAN /\ current \in Nat
      /\ out <= win.e + 1 - win.b
      /\ win.b \in Nat /\ win.e \in Nat /\ win.b <= win.e /\ win \in [b : Nat, e : Nat]
  BY <1>2, Shape DEF IInv, OutOK, TypeOK
<1>5. CASE UNCHANGED stream
  <2>1. Onward /\ out' = out /\ wrong' = wrong
    BY <1>5, Shape DEF stream, Onward
  <2> QED BY <1>1, <1>2, <1>4, <2>1, FailurePreserves
<1>6. CASE \E n \in 0 .. Requested - 1 : Hand(ContentPlace + Clipped(Size[at]).b, n)
  <2>1. PICK n \in 0 .. Kept(Size[at]) - 1 :
              Hand(current + Clipped(Size[at]).b, n)
    BY <1>2, <1>6 DEF Requested
  <2>2. Onward /\ wrong' = wrong /\ out' <= win.e + 1 - win.b
    BY <1>1, <1>2, <1>3, <2>1, PartAdds, Runs
  <2> QED BY <1>1, <1>2, <1>4, <2>2, FailurePreserves
<1> QED BY <1>5, <1>6 DEF UpstreamFails

LEMMA WriteFailsPreserves == IInv /\ WriteFails => IInv'
<1> SUFFICES ASSUME IInv, WriteFails PROVE IInv'
  OBVIOUS
<1>1. /\ pass = "write" /\ gone /\ step \notin {"done", "failed"} /\ step' = "failed"
      /\ UNCHANGED request /\ at' = at /\ current' = current
      /\ gone' = gone /\ outcome' = outcome /\ err' = "write"
      /\ out' = out /\ passed' = passed /\ sent' = sent /\ wrong' = wrong
  BY DEF WriteFails, Chunks, stream
<1>2. /\ Onward /\ ~wrong /\ wrong \in BOOLEAN /\ out <= win.e + 1 - win.b
  BY <1>1, Shape DEF IInv, OutOK, TypeOK, Onward
<1> QED BY <1>1, <1>2, FailurePreserves

\* What the writer has in hand never goes beyond what was announced, if upstream's
\* bodies are what was asked for.
LEMMA NeverRefused == IInv /\ Refused => ~exact'
<1> SUFFICES ASSUME IInv, Refused, exact' PROVE FALSE
  OBVIOUS
<1>0. PICK chunk \in Chunks : /\ Overrun(chunk.place, chunk.len)
                            /\ exact' = (exact /\ (step = "fetching" => chunk = Asked))
  BY DEF Refused
<1>1. pass = "write" /\ out + chunk.len > Announced
  BY <1>0 DEF Overrun
<1>10. step = "fetching" => chunk = Asked
  BY <1>0, Zenon
<1>2. step \in {"header", "content", "fetching", "padding"}
  BY <1>0 DEF Chunks
<1>3. Running
  BY <1>2, Runs
<1>4. out \in Nat /\ Announced \in Int /\ out <= Announced
  BY <1>1, Shape DEF IInv, OutOK, Announced
<1>5. chunk.len = 0 \/ \E l \in Nat : chunk.len = Kept(l)
  <2>1. CASE step = "header" /\ at <= NEntries
    <3>1. HeaderLen[at] \in Nat
      BY <2>1, Shape, Layout DEF Entries
    <3>4. ~(at > NEntries)
      BY <2>1, LastPlace, Shape
    <3>2. chunk \in Part(Place[at], HeaderLen[at])
      BY <1>0, <2>1, <3>4, Zenon DEF Chunks
    <3>3. chunk.len = Kept(HeaderLen[at])
      BY <3>2 DEF Part, Chunk
    <3> QED BY <3>1, <3>3
  <2>2. CASE step = "header" /\ at > NEntries
    <3>1. 2 * BlockSize \in Nat
      BY LastPlace
    <3> QED BY <1>0, <2>2, <3>1 DEF Chunks, Chunk
  <2>3. CASE step = "content"
    BY <1>0, <2>3 DEF Chunks, Flushing
  <2>4. CASE step \in {"fetching", "padding"}
    <3>1. at \in Entries
      BY <2>4 DEF IInv, CursorOK
    <3>2. Size[at] \in Nat /\ Padding(Size[at]) \in Nat
      BY <3>1, Layout
    <3>3. CASE step = "fetching"
      BY <1>10, <3>2, <3>3 DEF Asked, Chunk
    <3>4. CASE step = "padding"
      BY <1>0, <3>2, <3>4 DEF Chunks, Part, Chunk
    <3> QED BY <2>4, <3>3, <3>4
  <2>5. at \in Nat /\ NEntries \in Nat
    BY Shape, LastPlace
  <2> QED BY <1>2, <2>1, <2>2, <2>3, <2>4, <2>5
<1>6. chunk.len # 0
  BY <1>1, <1>4
<1>7. PICK l \in Nat : chunk.len = Kept(l)
  BY <1>5, <1>6
<1>8. out + Kept(l) <= Announced
  BY <1>1, <1>3, ChunkFits
<1>9. Kept(l) \in Int
  <2>1. CASE Clipped(l).skip
    BY <2>1 DEF Kept
  <2>2. CASE ~Clipped(l).skip
    BY <1>3, <2>2, ChunkAdds DEF Kept
  <2> QED BY <2>1, <2>2
<1> QED BY <1>1, <1>4, <1>7, <1>8, <1>9

\* A writer that is done has passed on what was announced.
LEMMA AllPassed ==
    ASSUME IInv, pass = "write", step = "done"
    PROVE  passed = out /\ out = Announced
<1>1. /\ win \in [b : Nat, e : Nat] /\ win.b <= win.e /\ win.e < Total
      /\ win.b \in Nat /\ win.e \in Nat
  BY Shape DEF IInv, WindowOK
<1>2. Held(Total, win) = win.e + 1 - win.b
  BY <1>1, LastPlace, HeldBounds
<1>3. passed = out /\ out = Held(Total, win)
  BY DEF IInv, OutOK, CursorOK
<1> QED BY <1>1, <1>2, <1>3 DEF Announced

LEMMA RecordPreserves == IInv /\ Record => IInv'
<1> SUFFICES ASSUME IInv, Record PROVE IInv'
  OBVIOUS
<1>1. /\ pass = "write" /\ step \in {"done", "failed"} /\ outcome = "none"
      /\ outcome' = ArchiveOutcome(gone, err)
      /\ UNCHANGED <<request, at, current, out, passed, wrong, gone, err>>
  BY DEF Record
<1>2. outcome' \in Outcomes
  BY <1>1, OutcomeKnown DEF IInv, TypeOK
<1>3. /\ (step' = step /\ sent' = passed) \/ step' = "failed"
      /\ sent' \in 0 .. passed
  BY Shape DEF Record
<1>4. TypeOK'
  BY <1>1, <1>2, <1>3 DEF IInv, TypeOK, request
<1>5. CursorOK'
  BY <1>1, <1>3 DEF IInv, CursorOK
<1>6. WindowOK'
  BY <1>1 DEF IInv, WindowOK, request
<1>7. OutOK'
  BY <1>1, <1>3 DEF IInv, OutOK, request
<1>8. VerdictOK'
  <2>1. err = "nil" => passed = Announced
    BY <1>1, AllPassed DEF IInv, VerdictOK
  <2>2. Announced' = Announced
    BY <1>1 DEF Announced, request
  <2>3. outcome' # "none" /\ pass' = "write" /\ step' \in {"done", "failed"}
    BY <1>1, <1>2, <1>3 DEF Outcomes, request
  <2>4. /\ err' = "nil" => passed' = Announced'
        /\ step' = "done" => sent' = passed'
        /\ outcome' = ArchiveOutcome(gone', err')
    BY <1>1, <1>3, <2>1, <2>2
  <2>5. /\ step' # "failed" => err' = "nil" /\ err' # "length"
        /\ err' # "length"
        /\ err' = "write" => gone'
        /\ err' = "reset" => "reset" \in Upstream
    BY <1>1, <1>3 DEF IInv, VerdictOK
  <2> QED BY <2>3, <2>4, <2>5 DEF VerdictOK
<1> QED BY <1>4, <1>5, <1>6, <1>7, <1>8 DEF IInv

LEMMA ClientGonePreserves == IInv /\ ClientGone => IInv'
<1> SUFFICES ASSUME IInv, ClientGone PROVE IInv'
  OBVIOUS
<1>1. /\ outcome = "none" /\ gone' = TRUE
      /\ UNCHANGED <<request, writer, stream, err, outcome>>
  BY DEF ClientGone
<1>2. TypeOK'
  BY <1>1 DEF IInv, TypeOK, request, writer, stream
<1>3. CursorOK'
  BY <1>1 DEF IInv, CursorOK, writer, ContentPlace
<1>4. WindowOK'
  BY <1>1 DEF IInv, WindowOK, writer, request
<1>5. OutOK'
  BY <1>1 DEF IInv, OutOK, writer, request, stream, Streams, Clipped
<1>6. VerdictOK'
  BY <1>1 DEF IInv, VerdictOK, writer, request
<1> QED BY <1>2, <1>3, <1>4, <1>5, <1>6 DEF IInv

\* The rest of a window is a window of the same archive.
LEMMA ResumePreserves == IInv /\ Resume => IInv'
<1> SUFFICES ASSUME IInv, Resume PROVE IInv'
  OBVIOUS
<1>1. /\ outcome # "none" /\ at' = 1 /\ step' = "header" /\ current' = 0
      /\ out' = 0 /\ passed' = 0 /\ sent' = 0
      /\ resumes' = resumes + 1 /\ resumes < MaxResumes
      /\ gone' = FALSE /\ err' = "nil" /\ outcome' = "none"
      /\ pass' = pass /\ size' = size /\ asked' = asked /\ wrong' = wrong /\ exact' = exact
  BY DEF Resume, Fresh
<1>2. PICK held \in 0 .. sent : win.b + held <= win.e /\ win' = [win EXCEPT !.b = @ + held]
  BY DEF Resume
<1>3. /\ pass = "write" /\ win \in [b : Nat, e : Nat] /\ win.b \in Nat /\ win.e \in Nat
      /\ held \in Nat
  BY <1>1, <1>2, Shape DEF IInv, VerdictOK
<1>4. /\ win' \in [b : Nat, e : Nat] /\ win'.b = win.b + held /\ win'.e = win.e
      /\ win'.b <= win'.e
  BY <1>2, <1>3
<1>5. NEntries \in Nat /\ Place[1] = 0 /\ MaxResumes \in Nat
  BY LastPlace, LayoutAssumption
<1>6. TypeOK'
  <2>1. /\ resumes' \in 0 .. MaxResumes /\ at' \in 1 .. NEntries + 1
        /\ passed' \in 0 .. out' /\ sent' \in 0 .. passed'
    BY <1>1, <1>5 DEF IInv, TypeOK
  <2>2. win' \in [b : Nat, e : Nat \cup {Unbounded}]
    BY <1>4
  <2> QED BY <1>1, <2>1, <2>2 DEF IInv, TypeOK
<1>7. CursorOK'
  BY <1>1, <1>5 DEF CursorOK
<1>8. WindowOK'
  <2>1. asked \in [b : Nat, e : Nat \cup {Unbounded}] /\ asked.b <= win.b /\ asked.e = win.e
        /\ size = Total /\ win.e < size
    BY <1>3 DEF IInv, TypeOK, WindowOK
  <2>2. asked.b <= win'.b
    BY <1>3, <1>4, <2>1
  <2> QED BY <1>1, <1>3, <1>4, <2>1, <2>2 DEF WindowOK, Total
<1>9. OutOK'
  <2>1. Held(0, win') = 0
    BY <1>4, HeldBounds
  <2> QED BY <1>1, <1>3, <1>4, <2>1 DEF OutOK, IInv
<1>10. VerdictOK'
  BY <1>1 DEF VerdictOK
<1> QED BY <1>6, <1>7, <1>8, <1>9, <1>10 DEF IInv

LEMMA StutterPreserves == IInv /\ UNCHANGED vars => IInv'
BY DEF IInv, TypeOK, CursorOK, WindowOK, OutOK, VerdictOK, vars, request, writer, stream,
       verdict, Streams, Clipped, ContentPlace, Announced

\* A body that was not what was asked for is not made good.
LEMMA ExactBefore == [Next]_vars /\ exact' => exact
BY DEF Next, vars, request, span, Header, SkipContent, AskUpstream, UpstreamFails, CopyContent,
       Pad, Close, Sized, StartWrite, WriteFails, Refused, Record, Resume, ClientGone

LEMMA NextPreserves == IInv /\ exact' /\ [Next]_vars => IInv'
<1> SUFFICES ASSUME IInv, exact', [Next]_vars PROVE IInv'
  OBVIOUS
<1>1. CASE Header         BY <1>1, HeaderPreserves
<1>2. CASE SkipContent    BY <1>2, SkipContentPreserves
<1>3. CASE AskUpstream    BY <1>3, AskUpstreamPreserves
<1>4. CASE UpstreamFails  BY <1>4, UpstreamFailsPreserves
<1>5. CASE CopyContent    BY <1>5, CopyContentPreserves
<1>6. CASE Pad            BY <1>6, PadPreserves
<1>7. CASE Close          BY <1>7, ClosePreserves
<1>8. CASE Sized          BY <1>8, SizedPreserves
<1>9. CASE WriteFails     BY <1>9, WriteFailsPreserves
<1>10. CASE Record        BY <1>10, RecordPreserves
<1>11. CASE Resume        BY <1>11, ResumePreserves
<1>12. CASE ClientGone    BY <1>12, ClientGonePreserves
<1>13. CASE Refused       BY <1>13, NeverRefused
<1>14. CASE UNCHANGED vars  BY <1>14, StutterPreserves
<1> QED
  BY <1>1, <1>2, <1>3, <1>4, <1>5, <1>6, <1>7, <1>8, <1>9, <1>10, <1>11, <1>12, <1>13,
     <1>14 DEF Next

\* The error of a response is what went wrong with it, through every step.
LEMMA EndPreserves == Inv /\ [Next]_vars => EndOK'
<1> SUFFICES ASSUME Inv, [Next]_vars PROVE EndOK'
  OBVIOUS
<1>1. EndOK /\ (exact => IInv)
  BY DEF Inv
\* The steps of the writer that succeed.
<1>2. ASSUME step \notin {"done", "failed"}, step' # "failed", UNCHANGED verdict,
             step' = "done" => passed' = out'
      PROVE  EndOK'
  BY <1>1, <1>2 DEF EndOK, verdict
<1>3. CASE Header \/ SkipContent \/ AskUpstream \/ CopyContent \/ Pad \/ Close
  <2>1. step \notin {"done", "failed"} /\ step' # "failed" /\ UNCHANGED verdict
    BY <1>3 DEF Header, SkipContent, AskUpstream, CopyContent, Pad, Close, NextEntry
  <2>2. step' = "done" => passed' = out'
    BY <1>3 DEF Header, SkipContent, AskUpstream, CopyContent, Pad, Close, NextEntry,
       EmitAndFlush
  <2> QED BY <1>2, <2>1, <2>2
\* Those that fail.
<1>4. ASSUME step \notin {"done", "failed"}, step' = "failed", UNCHANGED <<gone, outcome>>,
             err' \in {"write", "fetch", "reset", "length"},
             err' = "write" => gone, err' = "reset" => "reset" \in Upstream,
             err' = "length" => ~exact'
      PROVE  EndOK'
  BY <1>1, <1>4 DEF EndOK
<1>5. CASE UpstreamFails
  BY <1>4, <1>5 DEF UpstreamFails, UpstreamErrors
<1>6. CASE WriteFails
  <2>1. step \notin {"done", "failed"}
    BY <1>6 DEF WriteFails, Chunks
  <2> QED BY <1>4, <1>6, <2>1 DEF WriteFails
<1>7. CASE Refused
  <2>1. step \notin {"done", "failed"}
    BY <1>7 DEF Refused, Chunks
  <2>2. ~exact'
    <3>1. exact' => exact
      BY ExactBefore
    <3> QED BY <1>1, <1>7, <3>1, NeverRefused
  <2> QED BY <1>4, <1>7, <2>1, <2>2 DEF Refused
<1>8. CASE Sized \/ Resume
  BY <1>8 DEF Sized, StartWrite, Resume, Fresh, EndOK
<1>9. CASE Record
  <2>1. /\ step \in {"done", "failed"} /\ outcome = "none"
        /\ outcome' = ArchiveOutcome(gone, err) /\ step' \in {step, "failed"}
        /\ gone' = gone /\ err' = err /\ passed' = passed /\ out' = out /\ exact' = exact
    BY <1>9 DEF Record, request
  <2>2. ArchiveOutcome(gone, err) # "none"
    <3>1. ArchiveOutcome(gone, err) \in Outcomes
      BY <1>1, OutcomeKnown DEF EndOK
    <3> QED BY <3>1 DEF Outcomes
  <2> QED BY <1>1, <2>1, <2>2 DEF EndOK
<1>10. CASE ClientGone
  BY <1>1, <1>10 DEF ClientGone, EndOK, request, writer, stream
<1>11. CASE UNCHANGED vars
  BY <1>1, <1>11 DEF EndOK, vars, request, writer, stream, verdict
<1> QED
  BY <1>3, <1>5, <1>6, <1>7, <1>8, <1>9, <1>10, <1>11 DEF Next

LEMMA SizePreserves == Inv /\ [Next]_vars => SizeOK'
<1> SUFFICES ASSUME Inv, [Next]_vars PROVE SizeOK'
  OBVIOUS
<1>1. SizeOK /\ (exact => IInv)
  BY DEF Inv
<1>2. CASE Sized
  <2>1. exact /\ pass = "size" /\ step = "done" /\ IInv
    BY <1>1, <1>2 DEF Sized, StartWrite, SizeOK
  <2>2. size + passed = Total
    BY <2>1 DEF IInv, OutOK, CursorOK
  <2> QED BY <1>2, <2>2 DEF Sized, StartWrite, SizeOK
<1>3. CASE ~Sized
  <2>1. pass' = pass /\ (pass = "write" => size' = size)
    BY <1>3 DEF Next, vars, request, span, Header, SkipContent, AskUpstream, UpstreamFails,
       CopyContent, Pad, Close, WriteFails, Refused, Record, Resume, ClientGone
  <2>2. CASE CopyContent \/ Refused
    <3>1. pass = "write"
      <4>1. CASE Refused
        BY <4>1 DEF Refused, Overrun
      <4>2. CASE CopyContent
        <5>1. step = "fetching"
          BY <4>2 DEF CopyContent
        <5>2. exact => pass = "write"
          BY <1>1, <5>1 DEF IInv, OutOK, Streams
        <5> QED BY <1>1, <5>2 DEF SizeOK
      <4> QED BY <2>2, <4>1, <4>2
    <3> QED BY <1>1, <2>1, <3>1 DEF SizeOK
  <2>3. CASE ~CopyContent /\ ~Refused
    <3>1. exact' = exact
      BY <1>3, <2>3 DEF Next, vars, request, Header, SkipContent, AskUpstream, UpstreamFails,
         Pad, Close, WriteFails, Record, Resume, ClientGone
    <3> QED BY <1>1, <2>1, <3>1 DEF SizeOK
  <2> QED BY <2>2, <2>3
<1> QED BY <1>2, <1>3

LEMMA InvariantHolds == Spec => []Inv
<1>1. Init => EndOK /\ SizeOK
  BY DEF Init, EndOK, SizeOK
<1>2. Inv /\ [Next]_vars => Inv'
  BY NextPreserves, ExactBefore, EndPreserves, SizePreserves DEF Inv
<1> QED BY <1>1, <1>2, InitIInv, PTL DEF Spec, Inv

\* The variables keep their types as long as upstream's bodies are what was asked for.
THEOREM TypeCorrect == Spec => [](exact => TypeOK)
<1>1. Inv => (exact => TypeOK) BY DEF Inv, IInv
<1> QED BY <1>1, InvariantHolds, PTL

\* archive.go:10-12: whatever window, failures and resumes, no byte out of place is
\* ever handed over before upstream has sent another body than was asked for.
THEOREM BytesRight == Spec => []OnlyBodiesMisplace
<1>1. Inv => OnlyBodiesMisplace BY DEF Inv, IInv, OutOK, OnlyBodiesMisplace
<1> QED BY <1>1, InvariantHolds, PTL

\* web.go:334: the announced length is the one a complete response has, and the size
\* pass is not misled by any body.
THEOREM LengthAnnounced == Spec => []AnnouncedLength
<1>1. Inv => AnnouncedLength
  <2> SUFFICES ASSUME Inv, pass = "write"
               PROVE  /\ size = Place[NEntries + 1] + 2 * BlockSize
                      /\ step = "done" /\ exact => passed = Announced
    BY DEF AnnouncedLength
  <2>1. size = Total
    BY DEF Inv, SizeOK
  <2> QED BY <2>1, AllPassed DEF Total, Inv
<1> QED BY <1>1, InvariantHolds, PTL

\* tarhttp/writer.go:120: while the writer waits for upstream, what the client has not
\* been sent fits into net/http's buffers, however long the header in front, and
\* whatever bodies came before.
THEOREM HeldBackBounded == Spec => []LittleHeldBack
<1>1. Init => LittleHeldBack
  BY DEF Init, LittleHeldBack
<1>2. ASSUME LittleHeldBack, [Next]_vars PROVE LittleHeldBack'
  <2>1. CASE AskUpstream
    BY <2>1 DEF AskUpstream, Flush, Leaves, Streams, LittleHeldBack
  <2>2. CASE ~AskUpstream
    <3>1. step' = "fetching" => step = "fetching" /\ out' = out /\ sent' = sent
      BY <1>2, <2>2 DEF Next, vars, writer, stream, Header, SkipContent, UpstreamFails,
         CopyContent, Pad, Close, Sized, StartWrite, WriteFails, Refused, Record, Resume,
         ClientGone, NextEntry
    <3> QED BY <1>2, <3>1 DEF LittleHeldBack
  <2> QED BY <2>1, <2>2
<1> QED BY <1>1, <1>2, PTL DEF Spec

\* metrics.go:29-31, 98-101: every response is counted under what became of it,
\* whatever bodies upstream sends, as long as no connection to it is reset (the
\* outcome_reset run shows why that is assumed).
THEOREM OutcomeRight ==
    ASSUME "reset" \notin Upstream PROVE Spec => []OutcomeTold
<1>1. Inv => OutcomeTold
  <2> SUFFICES ASSUME Inv, outcome # "none"
               PROVE  /\ step \in {"done", "failed"}
                      /\ outcome = "ok" => passed = out /\ (exact => passed = Announced)
                      /\ outcome = "upstream_error" => err = "fetch" /\ ~gone
                      /\ outcome = "client_gone" => gone
                      /\ outcome = "error" => err = "length" /\ ~exact
    BY DEF OutcomeTold
  <2>1. /\ step \in {"done", "failed"} /\ outcome = ArchiveOutcome(gone, err)
        /\ gone \in BOOLEAN /\ err \in {"nil", "write", "length", "fetch", "reset"}
        /\ err # "reset"
        /\ err = "write" => gone
        /\ err = "length" => ~exact
        /\ err = "nil" => passed = out
    BY DEF Inv, EndOK
  <2>2. /\ outcome = "error" => err = "length"
        /\ outcome = "ok" <=> err = "nil"
        /\ outcome = "upstream_error" => err = "fetch" /\ ~gone
        /\ outcome = "client_gone" => gone \/ err \in {"write", "reset"}
    BY <2>1, OutcomeKnown
  <2>3. exact /\ err = "nil" => passed = Announced
    BY DEF Inv, IInv, VerdictOK
  <2> QED BY <2>1, <2>2, <2>3
<1> QED BY <1>1, InvariantHolds, PTL

\* tarhttp/writer.go:184-187: whatever name, size and time an entry has, a reader gets
\* the name and the size back.
THEOREM HeadersRight == Spec => []HeadersReadBack
<1>1. ASSUME NEW k \in Entries, NEW bytes \in Nat
      PROVE  LET h == HeaderOf(k, bytes)
             IN  /\ Legible(h)
                 /\ ReadName(h) = NameOf(k) /\ ReadSize(h) = bytes
                 /\ h.time # -1
  <2>1. Meta[k] \in [len : Nat \ {0}, ascii : BOOLEAN, time : Int]
    BY MetaAssumption
  <2>2. /\ NameOf(k) \in [len : Nat, ascii : BOOLEAN, whole : BOOLEAN]
        /\ NameOf(k).whole /\ NameOf(k).len = Meta[k].len
    BY <2>1 DEF NameOf
  <2>3. Meta[k].time \in Int /\ Meta[k].len \in Nat
    BY <2>1
  <2>4. NameOf(k).len + Frame + 7 < 1000000
    BY <2>2, NamesFit, SMT
  <2>5. (NameOf(k).len + Frame + 6) + (Frame + 18) <= MaxOctal
    <3>1. Meta[k].len + 2 * Frame + 24 <= MaxOctal
      BY NamesFit, SMT
    <3>2. Frame \in Nat /\ MaxOctal \in Nat
      BY FormatAssumption, SMT
    <3> QED BY <2>2, <2>3, <3>1, <3>2, SMT
  <2> QED BY <2>2, <2>3, <2>4, <2>5, HeaderReadsBack, SMT DEF HeaderOf, Limit
<1>2. MaxOctal - 1 .. MaxOctal + 2 \subseteq Nat \/ Entries = {}
  <2> SUFFICES ASSUME NEW k \in Entries PROVE MaxOctal - 1 .. MaxOctal + 2 \subseteq Nat
    OBVIOUS
  <2>1. Meta[k].len + 2 * Frame + 24 <= MaxOctal /\ Meta[k].len \in Nat
    BY NamesFit, MetaAssumption, SMT
  <2>2. Frame \in Nat /\ MaxOctal \in Nat
    BY FormatAssumption, SMT
  <2> QED BY <2>1, <2>2, SMT
<1>3. HeadersReadBack
  <2> SUFFICES ASSUME at \in Entries,
                      NEW bytes \in {Size[at]} \cup (MaxOctal - 1 .. MaxOctal + 2)
               PROVE  LET h == HeaderOf(at, bytes)
                      IN  /\ Legible(h)
                          /\ ReadName(h) = NameOf(at) /\ ReadSize(h) = bytes
                          /\ h.time # -1
    BY DEF HeadersReadBack
  <2>1. bytes \in Nat
    BY <1>2, Layout
  <2> QED BY <1>1, <2>1, Zenon
<1> QED BY <1>3, PTL
-----------------------------------------------------------------------------
\* What the client of ArchiveStream asked for and holds.
Want == IF pass = "size" THEN 0 ELSE asked.e - asked.b + 1
Got == IF pass = "size" THEN 0 ELSE win.b - asked.b + sent

\* In the write pass the client never holds more than it asked for.
LEMMA GotInWant ==
    ASSUME IInv, pass = "write"
    PROVE  /\ Want = asked.e - asked.b + 1 /\ Got = win.b - asked.b + sent
           /\ win.b \in Nat /\ asked.b \in Nat /\ sent \in Nat
           /\ Want \in Nat \ {0} /\ Got \in Nat /\ Got <= Want
<1>1. /\ win.b \in Nat /\ win.e \in Nat /\ asked.b \in Nat /\ asked.b <= win.b
      /\ asked.e = win.e /\ win.b <= win.e
  BY Shape DEF IInv, WindowOK, TypeOK
<1>2. /\ sent \in Nat /\ passed \in Nat /\ out \in Nat
      /\ sent <= passed /\ passed <= out /\ out <= win.e + 1 - win.b
  BY Shape DEF IInv, OutOK
<1> QED BY <1>1, <1>2 DEF Want, Got

\* The client was told that it has everything.
Told == outcome # "none" /\ step = "done" /\ exact

\* What the abstract stream makes of a step of the writer.
LEMMA StreamStep ==
    ASSUME ~wrong, ~wrong', wrong \in BOOLEAN, wrong' \in BOOLEAN,
           \/ /\ Want' = Want /\ Got' = Got
              /\ Told' = Told
           \/ /\ Want = 0 /\ Want' \in Nat \ {0} /\ Got' = Got
              /\ ~Told /\ ~Told'
           \/ /\ Want' = Want
              /\ ~Told /\ ~Told'
              /\ \/ Got' > Got /\ Got' <= Want
                 \/ Got' >= 0 /\ Got' <= Got
           \/ /\ Want' = Want /\ Want # 0 /\ Got' = Want
              /\ Told'
    PROVE  [Stream!Next]_(Stream!vars)
BY DEF Stream!Next, Stream!Ask, Stream!Receive, Stream!Resume, Stream!Complete, Stream!vars,
       Want, Got, Told

\* archive.go:10-12, for the whole download: it implements ArchiveStream.  Every
\* step either leaves what the client holds alone, or is the one the abstract
\* stream takes there.
LEMMA StepRefines ==
    ASSUME IInv, IInv', exact, exact', [Next]_vars
    PROVE  [Stream!Next]_(Stream!vars)
<1>1. ~wrong /\ ~wrong' /\ wrong \in BOOLEAN /\ wrong' \in BOOLEAN
  BY DEF IInv, OutOK, TypeOK
<1>2. pass \in {"size", "write"} /\ sent \in Nat
  BY Shape DEF IInv, TypeOK
\* The size pass hands the client nothing.
<1>3. CASE pass = "size" /\ pass' = "size"
  <2>1. ~Told /\ ~Told'
    BY <1>3 DEF Told, IInv, VerdictOK
  <2> QED BY <1>1, <1>3, <2>1, StreamStep DEF Want, Got
<1>4. ASSUME pass = "write", UNCHANGED <<pass, asked, win>>, sent' >= sent, ~Told, ~Told'
      PROVE  [Stream!Next]_(Stream!vars)
  <2>1. /\ pass' = "write" /\ win' = win /\ asked' = asked
    BY <1>4
  <2>2. /\ Want = asked.e - asked.b + 1 /\ Got = win.b - asked.b + sent
        /\ win.b \in Nat /\ asked.b \in Nat /\ Got \in Nat /\ asked.e = win.e /\ win.e \in Nat
    BY <1>4, GotInWant DEF IInv, WindowOK
  <2>3. /\ sent' \in Nat /\ passed' \in Nat /\ out' \in Nat
        /\ sent' <= passed' /\ passed' <= out' /\ out' <= win.e + 1 - win.b
    BY <2>1, <2>2 DEF IInv, OutOK, TypeOK
  <2>4. Want' = Want /\ Got' = win.b - asked.b + sent'
    BY <2>1, <2>2 DEF Want, Got
  <2>5. Got' <= Want /\ Got' >= Got /\ Got' \in Nat
    BY <1>2, <1>4, <2>2, <2>3, <2>4
  <2> QED BY <1>1, <1>4, <2>2, <2>4, <2>5, StreamStep
<1>0. ASSUME pass = "write" => sent' >= sent, UNCHANGED <<pass, asked, win>>,
             step \notin {"done", "failed"}, outcome' = outcome
      PROVE  [Stream!Next]_(Stream!vars)
  <2>1. ~Told /\ ~Told'
    BY <1>0 DEF Told, IInv, VerdictOK
  <2> QED BY <1>0, <1>2, <1>3, <1>4, <2>1
\* The steps of the writer.
<1>5. CASE Header
  <2>1. /\ UNCHANGED <<pass, asked, win>> /\ step = "header" /\ outcome' = outcome
        /\ at \in Entries /\ current = Place[at] /\ Emit(current, HeaderLen[at])
    BY <1>5, Shape DEF Header, request, verdict, Entries, IInv, CursorOK
  <2>2. HeaderLen[at] \in Nat
    BY <2>1, Layout
  <2>3. pass = "write" => sent' >= sent
    BY <2>1, <2>2, EmitAdds, Runs DEF Onward
  <2> QED BY <1>0, <2>1, <2>3
<1>6. CASE SkipContent
  <2>1. /\ UNCHANGED <<pass, asked, win>> /\ step = "content" /\ outcome' = outcome
        /\ sent' = sent
    BY <1>6 DEF SkipContent, stream, verdict
  <2> QED BY <1>0, <1>2, <2>1
<1>7. CASE AskUpstream
  <2>1. /\ UNCHANGED <<pass, asked, win>> /\ step = "content" /\ outcome' = outcome
        /\ out' = out /\ passed' = out /\ Leaves
    BY <1>7 DEF AskUpstream, Flush, request, verdict
  <2>2. pass = "write" => sent' >= sent
    <3>1. out' \in Nat /\ passed' \in 0 .. out'
      BY <2>1, Shape
    <3> QED BY <2>1, <3>1, LeavesOnward, Runs DEF Onward
  <2> QED BY <1>0, <2>1, <2>2
<1>8. CASE UpstreamFails \/ CopyContent
  <2>1. /\ UNCHANGED <<pass, asked, win>> /\ step = "fetching" /\ outcome' = outcome
    BY <1>8 DEF UpstreamFails, CopyContent, request, span, verdict
  <2>2. pass = "write" => sent' >= sent
    <3>1. sent' = sent \/ Leaves
      BY <1>8 DEF UpstreamFails, CopyContent, Hand, stream
    <3>2. passed' \in Nat
      BY DEF IInv, TypeOK
    <3> QED BY <1>2, <3>1, <3>2 DEF Leaves
  <2> QED BY <1>0, <2>1, <2>2
<1>9. CASE Pad
  <2>1. /\ UNCHANGED <<pass, asked, win>> /\ step = "padding" /\ outcome' = outcome
        /\ at \in Entries /\ current = ContentPlace + Size[at]
    BY <1>9 DEF Pad, request, verdict, IInv, CursorOK
  <2>2. Padding(Size[at]) \in Nat
    BY <2>1, Layout
  <2>3. pass = "write" => sent' >= sent
    <3>1. CASE Padding(Size[at]) > 0
      <4>1. Emit(current, Padding(Size[at]))
        BY <1>9, <2>1, <3>1 DEF Pad
      <4> QED BY <2>1, <2>2, <4>1, EmitAdds, Runs DEF Onward
    <3>2. CASE ~(Padding(Size[at]) > 0)
      BY <1>2, <1>9, <3>2 DEF Pad, stream
    <3> QED BY <3>1, <3>2
  <2> QED BY <1>0, <2>1, <2>3
<1>10. CASE Close
  <2>1. /\ UNCHANGED <<pass, asked, win>> /\ step = "header" /\ outcome' = outcome
        /\ EmitAndFlush(current, 2 * BlockSize)
    BY <1>10, LastPlace, Shape DEF Close, request, verdict, IInv, CursorOK
  <2>2. pass = "write" => sent' >= sent
    BY <2>1, LastPlace, EndAdds, Runs DEF Onward
  <2> QED BY <1>0, <2>1, <2>2
\* The client asks.
<1>11. CASE Sized
  <2>1. /\ pass = "size" /\ pass' = "write" /\ win' = asked' /\ sent' = 0
        /\ ~Told /\ ~Told'
    BY <1>11 DEF Sized, StartWrite, Fresh, Told, IInv, VerdictOK
  <2>2. /\ win'.b \in Nat /\ win'.e \in Nat /\ win'.b <= win'.e
    BY <2>1 DEF IInv, TypeOK, WindowOK
  <2>3. Want = 0 /\ Got = 0 /\ Want' = win'.e - win'.b + 1 /\ Got' = win'.b - win'.b + 0
    BY <2>1 DEF Want, Got
  <2>4. Want' \in Nat \ {0} /\ Got' = Got
    BY <2>2, <2>3
  <2> QED BY <1>1, <2>1, <2>3, <2>4, StreamStep
\* The client asks for the rest, and may have lost what was on its way.
<1>12. CASE Resume
  <2>1. /\ outcome # "none" /\ pass' = pass /\ asked' = asked /\ sent' = 0
        /\ step = "failed" \/ sent < Announced
        /\ ~Told'
    BY <1>12 DEF Resume, Fresh, Told
  <2>2. pass = "write"
    BY <2>1 DEF IInv, VerdictOK
  <2>8. ~Told
    <3>1. CASE step = "done"
      <4>1. sent = Announced
        BY <2>1, <2>2, <3>1, AllPassed DEF IInv, VerdictOK
      <4> QED BY <1>2, <2>1, <3>1, <4>1
    <3> QED BY <3>1 DEF Told
  <2>3. PICK held \in 0 .. sent : win' = [win EXCEPT !.b = @ + held]
    BY <1>12 DEF Resume
  <2>4. /\ Want = asked.e - asked.b + 1 /\ Got = win.b - asked.b + sent
        /\ win.b \in Nat /\ asked.b \in Nat /\ asked.b <= win.b /\ win \in [b : Nat, e : Nat]
    BY <2>2, GotInWant, Shape DEF IInv, WindowOK
  <2>5. held \in Nat /\ held <= sent /\ win'.b = win.b + held
    BY <1>2, <2>3, <2>4
  <2>6. Want' = Want /\ Got' = win'.b - asked.b + 0
    BY <2>1, <2>2 DEF Want, Got
  <2>7. Got' >= 0 /\ Got' <= Got
    BY <1>2, <2>4, <2>5, <2>6
  <2> QED BY <1>1, <2>1, <2>6, <2>7, <2>8, StreamStep
<1>13. CASE WriteFails \/ Refused
  <2>1. /\ UNCHANGED <<pass, asked, win>> /\ step \notin {"done", "failed"}
        /\ outcome' = outcome
    BY <1>13 DEF WriteFails, Refused, Chunks, request, span
  <2>2. pass = "write" => sent' >= sent
    <3>1. sent' = sent \/ Leaves
      BY <1>13 DEF WriteFails, Refused, Overrun, stream
    <3>2. passed' \in Nat
      BY DEF IInv, TypeOK
    <3> QED BY <1>2, <3>1, <3>2 DEF Leaves
  <2> QED BY <1>0, <2>1, <2>2
\* The handler returns: what was announced has arrived, or the connection is gone.
<1>14. CASE Record
  <2>1. /\ pass = "write" /\ outcome = "none" /\ step \in {"done", "failed"}
        /\ UNCHANGED <<pass, asked, win, out, passed>>
    BY <1>14 DEF Record, request
  <2>2. passed \in Nat /\ ~Told
    BY <2>1, Shape DEF Told
  <2>3. CASE step' = "failed"
    <3>1. sent' >= sent
      BY <1>2, <1>14, <2>2, Shape DEF Record
    <3> QED BY <1>4, <2>1, <2>2, <2>3, <3>1 DEF Told
  <2>4. CASE step' # "failed"
    <3>1. step' = "done" /\ step = "done" /\ sent' = passed
      BY <1>14, <2>1, <2>4 DEF Record
    <3>2. passed = win.e - win.b + 1
      BY <2>1, <3>1, AllPassed DEF Announced
    <3>3. /\ Want = asked.e - asked.b + 1 /\ Want # 0 /\ asked.e = win.e
          /\ win.b \in Nat /\ win.e \in Nat /\ asked.b \in Nat
      BY <2>1, GotInWant, Shape DEF IInv, WindowOK
    <3>4. Want' = Want /\ Got' = win.b - asked.b + sent'
      BY <2>1 DEF Want, Got
    <3>5. Got' = Want
      BY <3>1, <3>2, <3>3, <3>4
    <3>6. Told'
      <4>1. outcome' \in Outcomes
        BY <1>14, OutcomeKnown DEF Record, IInv, TypeOK
      <4> QED BY <3>1, <4>1 DEF Told, Outcomes
    <3> QED BY <1>1, <3>3, <3>4, <3>5, <3>6, StreamStep
  <2> QED BY <2>3, <2>4
<1>15. CASE ClientGone \/ UNCHANGED vars
  <2>1. UNCHANGED <<pass, asked, win, step, sent, outcome, exact>>
    BY <1>15 DEF ClientGone, vars, request, writer, stream, verdict
  <2> QED BY <1>1, <2>1, StreamStep DEF Want, Got, Told
<1> QED
  BY <1>5, <1>6, <1>7, <1>8, <1>9, <1>10, <1>11, <1>12, <1>13, <1>14, <1>15 DEF Next

\* Where upstream ends no body elsewhere than asked, none ends there.
LEMMA StaysExact == ASSUME ExactBodies, exact, [Next]_vars PROVE exact'
<1>1. CASE CopyContent
  <2>1. PICK body \in Bodies : exact' = (exact /\ body = Asked)
    BY <1>1 DEF CopyContent
  <2> QED BY <2>1, BodyExact, Zenon
<1>2. CASE Refused
  <2>1. PICK chunk \in Chunks : exact' = (exact /\ (step = "fetching" => chunk = Asked))
    BY <1>2 DEF Refused
  <2>2. step = "fetching" => Chunks = Bodies
    BY DEF Chunks
  <2> QED BY <2>1, <2>2, BodyExact, Zenon
<1>3. CASE ~CopyContent /\ ~Refused
  BY <1>3 DEF Next, vars, request, Header, SkipContent, AskUpstream, UpstreamFails, Pad,
     Close, Sized, StartWrite, WriteFails, Record, Resume, ClientGone
<1> QED BY <1>1, <1>2, <1>3

\* archive.go:10-12: Size and Write, over all the requests of a client, are the fixed
\* string of bytes ArchiveStream describes, whole or from wherever it resumes.
\* The bodies upstream ends without an error have to be what was asked for; it may
\* refuse and break off as often as it likes.
THEOREM DeliversStream == ASSUME ExactBodies PROVE Spec => Delivers
<1>1. Init => exact /\ Stream!Init
  BY DEF Init, Stream!Init
<1>2. exact /\ [Next]_vars => exact'
  BY StaysExact
<1>3. Inv /\ exact => IInv
  BY DEF Inv
<1>4. IInv /\ IInv' /\ exact /\ exact' /\ [Next]_vars => [Stream!Next]_(Stream!vars)
  BY StepRefines
<1> QED BY <1>1, <1>2, <1>3, <1>4, InvariantHolds, PTL DEF Spec, Delivers, Stream!Spec
=============================================================================
