-------------------------- MODULE ZipWriterProofs --------------------------
(***************************************************************************)
(* The zip writer and the requests around it, for every archive, window,   *)
(* failure of upstream or client, and resume.  The response is the window, *)
(* byte for byte, up to what the deferred Close adds after an error.       *)
(***************************************************************************)
EXTENDS ZipWriter, ArchiveWriterProofs

\* The cursor `current' is where the layout puts what comes next; Close leaves it.
CursorOK ==
    /\ step = "header" => current = Place[at]
    /\ step \in {"content", "gap", "fetching", "descriptor"} => at \in Entries \ Dirs
    /\ step \in {"content", "gap", "fetching"} => current = ContentPlace
    /\ step = "descriptor" => current = ContentPlace + Size[at]
    /\ step = "aborting" => at \in Entries
    /\ step = "done" => at = NEntries + 1

WindowOK ==
    /\ pass = "size" => /\ win.b = 0 /\ win.e = Unbounded
                        /\ step \notin {"gap", "fetching", "aborting", "failed"}
    /\ pass = "write" => /\ size = Total
                         /\ win.e \in Nat /\ win.b <= win.e /\ win.e < size
                         /\ asked.e = win.e /\ asked.b <= win.b

\* What was handed over is what lies between the window's start and the cursor; in
\* front of a gap that is nothing.  After the deferred Close it may be more than
\* the window, but net/http has passed on no more than it announced.
OutOK ==
    /\ pass = "size" => size + out = IF step = "done" THEN Total ELSE current
    /\ pass = "write" => /\ passed <= win.e + 1 - win.b
                         /\ step \notin {"aborting", "done", "failed"} =>
                               out = Held(current, win)
                         /\ step = "aborting" => out <= win.e + 1 - win.b
                         /\ step = "done" => passed = win.e + 1 - win.b
    /\ step = "done" => passed = out
    /\ step \in {"gap", "fetching"} => out - sent <= NetBuf /\ Streams

VerdictOK ==
    /\ step = "failed" /\ outcome = "none" =>
          err # "nil" \/ (gone /\ at = NEntries + 1)
    /\ err # "nil" => step \in {"aborting", "failed"}
    /\ err # "length"
    /\ err = "write" => gone
    /\ err = "reset" => "reset" \in Upstream
    /\ step = "aborting" => err # "nil"
    /\ outcome # "none" => /\ step \in {"done", "failed"}
                           /\ pass = "write"
                           /\ outcome = ArchiveOutcome(gone, err)
                           /\ err = "nil" => /\ at = NEntries + 1
                                             /\ gone \/ passed = Announced
                           /\ step = "done" => sent = passed

\* OnlyTheAbortMisplaces says nothing of where the writer is; it is kept because the
\* cursor follows the layout and the output the cursor.  That is lost with the first
\* body that is not what was asked for.
IInv == TypeOK /\ CursorOK /\ WindowOK /\ OutOK /\ VerdictOK

\* What holds whatever the bodies are: how the response ends is known from what went
\* wrong with it.
EndOK ==
    /\ gone \in BOOLEAN /\ err \in {"nil", "write", "length", "fetch", "reset"}
    /\ err # "nil" => step \in {"aborting", "failed"}
    /\ step = "aborting" => err # "nil"
    /\ step \in {"done", "failed"} /\ err = "nil" => at > NEntries
    /\ err = "write" => gone
    /\ err = "reset" => "reset" \in Upstream
    /\ err = "length" => ~exact
    /\ outcome # "none" => /\ step \in {"done", "failed"}
                           /\ outcome = ArchiveOutcome(gone, err)

\* No body is asked for when sizing, and none moves the size.
SizeOK ==
    /\ pass \in {"size", "write"}
    /\ pass = "size" => exact
    /\ pass = "write" => size = Total

Inv == EndOK /\ SizeOK /\ (exact => IInv)
-----------------------------------------------------------------------------
\* Entries follow each other without a gap.
LEMMA Layout ==
    ASSUME NEW k \in Entries
    PROVE  /\ NEntries \in Nat /\ k + 1 \in 1 .. NEntries + 1
           /\ HeaderLen[k] \in Nat /\ Size[k] \in Nat /\ DescriptorLen[k] \in Nat
           /\ Place[k] \in Nat /\ Place[k + 1] \in Nat /\ EndingLen[k] \in Nat
           /\ k \in Dirs => Place[k + 1] = Place[k] + HeaderLen[k]
           /\ k \notin Dirs =>
                 Place[k + 1] = Place[k] + HeaderLen[k] + Size[k] + DescriptorLen[k]
<1>1. /\ NEntries \in Nat /\ HeaderLen \in [Entries -> Nat \ {0}]
      /\ Size \in [Entries -> Nat] /\ Place \in [1 .. NEntries + 1 -> Nat]
  BY LayoutAssumption
<1>2. k \in 1 .. NEntries + 1 /\ k + 1 \in 1 .. NEntries + 1 /\ k \in 0 .. NEntries
  BY <1>1 DEF Entries
<1>3. HeaderLen[k] \in Nat /\ Size[k] \in Nat /\ Place[k] \in Nat /\ Place[k + 1] \in Nat
  BY <1>1, <1>2
<1>4. DescriptorLen[k] \in Nat /\ EndingLen[k] \in Nat
  BY <1>2, LengthAssumption
<1>5. Place[k + 1] = Place[k] + EntryLen(k)
  BY ZipLayout
<1> QED BY <1>1, <1>2, <1>3, <1>4, <1>5 DEF EntryLen

LEMMA LastPlace ==
    /\ NEntries \in Nat /\ 1 \in 1 .. NEntries + 1 /\ Place[1] = 0
    /\ Ending \in Nat /\ EndingLen[NEntries] \in Nat /\ Total \in Nat
<1>1. NEntries \in Nat /\ Place \in [1 .. NEntries + 1 -> Nat] /\ Place[1] = 0
  BY LayoutAssumption
<1>2. 1 \in 1 .. NEntries + 1 /\ NEntries + 1 \in 1 .. NEntries + 1 /\ NEntries \in 0 .. NEntries
  BY <1>1
<1>3. EndingLen[NEntries] \in Nat
  BY <1>2, LengthAssumption
<1> QED BY <1>1, <1>2, <1>3 DEF Total, Ending

\* What the type invariant and the window say, in the form the steps use.
LEMMA Shape ==
    ASSUME IInv
    PROVE  /\ win.b \in Nat
           /\ current \in Nat /\ out \in Nat /\ passed \in 0 .. out /\ sent \in 0 .. passed
           /\ passed \in Nat /\ sent \in Nat /\ size \in Nat
           /\ pass \in {"size", "write"} /\ at \in 1 .. NEntries + 1
           /\ wrong \in BOOLEAN /\ gone \in BOOLEAN
           /\ pass = "size" => win.b = 0 /\ win.e = Unbounded
           /\ pass = "write" => win \in [b : Nat, e : Nat] /\ win.b <= win.e /\ win.e \in Nat
BY DEF IInv, TypeOK, WindowOK

\* Up to its ending the writer is running.
LEMMA Runs ==
    ASSUME IInv, step \notin {"aborting", "done", "failed"}
    PROVE  Running
BY Shape DEF IInv, OutOK, Running
-----------------------------------------------------------------------------
LEMMA InitIInv == Init => IInv
<1> SUFFICES ASSUME Init PROVE IInv
  OBVIOUS
<1> USE DEF Init
<1>1. MaxResumes \in Nat /\ NEntries \in Nat /\ Place[1] = 0
  BY LayoutAssumption
<1>2. TypeOK
  <2>1. asked \in [b : Nat, e : Nat \cup {Unbounded}]
    OBVIOUS
  <2>2. at \in 1 .. NEntries + 1 /\ resumes \in 0 .. MaxResumes
        /\ passed \in 0 .. out /\ sent \in 0 .. passed
    BY <1>1
  <2> QED BY <2>1, <2>2 DEF TypeOK
<1>3. CursorOK
  BY <1>1 DEF CursorOK
<1>4. WindowOK
  BY DEF WindowOK
<1>5. OutOK
  BY DEF OutOK
<1>6. VerdictOK
  BY DEF VerdictOK
<1> QED BY <1>2, <1>3, <1>4, <1>5, <1>6 DEF IInv

\* A step of the running writer that neither ends in a failure nor begins a request
\* keeps the invariant if cursor and output move together.
LEMMA MovePreserves ==
    ASSUME IInv, UNCHANGED <<pass, asked, win, resumes, exact>>, UNCHANGED verdict,
           size' \in Nat, pass = "write" => size' = size,
           step \notin {"aborting", "done", "failed"},
           step' \in {"header", "content", "gap", "fetching", "descriptor"},
           pass = "size" => step' \notin {"gap", "fetching"},
           at' \in 1 .. NEntries + 1, current' \in Nat,
           Onward, wrong' \in BOOLEAN,
           CursorOK',
           pass = "size" => size' + out' = current',
           pass = "write" => out' = Held(current', win),
           step' \in {"gap", "fetching"} => out' - sent' <= NetBuf /\ Streams'
    PROVE  IInv'
<1>1. TypeOK'
  BY DEF IInv, TypeOK, verdict, Onward
<1>2. WindowOK'
  BY DEF IInv, WindowOK
<1>3. pass = "write" => passed' <= win.e + 1 - win.b
  <2> SUFFICES ASSUME pass = "write" PROVE passed' <= win.e + 1 - win.b
    OBVIOUS
  <2>1. out' <= win.e + 1 - win.b /\ win.e \in Nat /\ win.b \in Nat
    BY Shape, HeldBounds
  <2>2. out' \in Nat /\ passed' \in Nat /\ passed' <= out'
    BY DEF Onward
  <2> QED BY <2>1, <2>2
<1>4. OutOK'
  BY <1>3 DEF IInv, OutOK
<1>5. VerdictOK'
  BY DEF IInv, VerdictOK, verdict
<1> QED BY <1>1, <1>2, <1>4, <1>5 DEF IInv

LEMMA HeaderPreserves == IInv /\ Header => IInv'
<1> SUFFICES ASSUME IInv, Header PROVE IInv'
  OBVIOUS
<1>1. at \in Entries /\ step = "header" /\ current = Place[at]
  BY Shape DEF Header, Entries, IInv, CursorOK
<1>2. /\ NEntries \in Nat /\ at + 1 \in 1 .. NEntries + 1 /\ HeaderLen[at] \in Nat
      /\ Place[at] \in Nat
      /\ at \in Dirs => Place[at + 1] = Place[at] + HeaderLen[at]
  BY <1>1, Layout
<1>3. Emit(current, HeaderLen[at])
  BY <1>1 DEF Header
<1>4. /\ Onward /\ wrong' = wrong
      /\ pass = "size" => out' = out + HeaderLen[at]
      /\ pass = "write" => out' = Held(current + HeaderLen[at], win)
  BY <1>1, <1>2, <1>3, EmitAdds, Runs
<1>5. /\ current' = current + HeaderLen[at] /\ UNCHANGED verdict
      /\ UNCHANGED <<pass, asked, win, resumes, exact, size>>
  BY DEF Header, request
<1>6. \/ at \in Dirs /\ at' = at + 1 /\ step' = "header"
      \/ at \notin Dirs /\ at' = at /\ step' = "content"
  BY DEF Header, NextEntry
<1>7. CursorOK'
  <2>1. CASE at \in Dirs
    <3>1. current' = Place[at'] /\ step' = "header"
      BY <1>1, <1>2, <1>5, <1>6, <2>1
    <3> QED BY <3>1 DEF CursorOK
  <2>2. CASE at \notin Dirs
    <3>1. /\ current' = Place[at'] + HeaderLen[at'] /\ step' = "content"
          /\ at' \in Entries \ Dirs
      BY <1>1, <1>5, <1>6, <2>2
    <3> QED BY <3>1 DEF CursorOK, ContentPlace
  <2> QED BY <2>1, <2>2
<1>8. at' \in 1 .. NEntries + 1 /\ current' \in Nat /\ size' \in Nat /\ wrong' \in BOOLEAN
  BY <1>2, <1>4, <1>5, <1>6, Shape
<1>9. pass = "size" => size' + out' = current'
  BY <1>1, <1>2, <1>4, <1>5, Shape DEF IInv, OutOK
<1>10. pass = "write" => out' = Held(current', win)
  BY <1>4, <1>5
<1>11. step = "header" /\ step' \in {"header", "content"}
  BY <1>1, <1>6
<1> QED BY <1>4, <1>5, <1>7, <1>8, <1>9, <1>10, <1>11, MovePreserves

LEMMA SkipContentPreserves == IInv /\ SkipContent => IInv'
<1> SUFFICES ASSUME IInv, SkipContent PROVE IInv'
  OBVIOUS
<1>1. at \in Entries /\ at \notin Dirs /\ step = "content" /\ current = ContentPlace
  BY DEF SkipContent, IInv, CursorOK
<1>2. Size[at] \in Nat
  BY <1>1, Layout
<1>3. /\ current' = current + Size[at] /\ step' = "descriptor" /\ at' = at
      /\ UNCHANGED <<pass, asked, win, resumes, exact>> /\ UNCHANGED stream /\ UNCHANGED verdict
      /\ size' = IF pass = "size" THEN size + Size[at] ELSE size
  BY DEF SkipContent
<1>4. out' = out /\ passed' = passed /\ sent' = sent /\ wrong' = wrong
  BY <1>3 DEF stream
<1>5. CursorOK'
  BY <1>1, <1>3 DEF CursorOK, ContentPlace
<1>6. pass = "size" => size' + out' = current'
  BY <1>1, <1>2, <1>3, <1>4, Shape DEF IInv, OutOK
<1>7. pass = "write" => out' = Held(current', win)
  <2>1. pass = "write" => Clipped(Size[at]).skip
    BY DEF SkipContent, Streams
  <2> QED BY <1>1, <1>2, <1>3, <1>4, <2>1, ChunkAdds, Runs
<1>8. size' \in Nat /\ current' \in Nat /\ (pass = "write" => size' = size)
  BY <1>2, <1>3, Shape
<1>9. at' \in 1 .. NEntries + 1 /\ Onward /\ wrong' \in BOOLEAN
  BY <1>3, <1>4, Shape DEF Onward
<1> QED BY <1>1, <1>3, <1>5, <1>6, <1>7, <1>8, <1>9, MovePreserves

\* A file is cut on the left only where the window begins in it: nothing has been
\* handed over, and nothing is held back while the gap is read.
LEMMA AskGapPreserves == IInv /\ AskGap => IInv'
<1> SUFFICES ASSUME IInv, AskGap PROVE IInv'
  OBVIOUS
<1>1. /\ step = "content" /\ Streams /\ Clipped(Size[at]).b > 0 /\ step' = "gap"
      /\ at' = at /\ current' = current /\ UNCHANGED <<pass, asked, win, resumes, exact, size>>
      /\ UNCHANGED verdict /\ wrong' = wrong
      /\ out' = out /\ passed' = passed /\ sent' = sent
  BY DEF AskGap, request, stream
<1>2. /\ at \in Entries /\ at \notin Dirs /\ current = ContentPlace /\ pass = "write"
      /\ out = Held(current, win)
  BY <1>1 DEF IInv, CursorOK, OutOK, Streams
<1>3. Streams'
  BY <1>1 DEF Streams, Clipped
<1>4. CursorOK'
  BY <1>1, <1>2 DEF CursorOK, ContentPlace
<1>5. Onward /\ out' - sent' <= NetBuf
  <2>1. CutsLeft(current, win.b, Size[at])
    <3>1. Clipped(Size[at]) = Clip(current, win.b, win.e, Size[at])
      BY DEF Clipped
    <3>2. ~CutsLeft(current, win.b, Size[at]) => Clipped(Size[at]).b = 0
      BY <3>1 DEF Clip
    <3> QED BY <1>1, <3>2
  <2>2. current <= win.b
    BY <2>1, Shape DEF CutsLeft
  <2>3. out = 0
    BY <1>2, <2>2 DEF Held
  <2>4. sent = 0 /\ passed = 0
    BY <2>3, Shape
  <2> QED BY <1>1, <2>3, <2>4, LayoutAssumption DEF Onward
<1> QED BY <1>1, <1>2, <1>3, <1>4, <1>5, Shape, MovePreserves

LEMMA AskUpstreamPreserves == IInv /\ AskUpstream => IInv'
<1> SUFFICES ASSUME IInv, AskUpstream PROVE IInv'
  OBVIOUS
<1>1. /\ step \in {"content", "gap"} /\ Streams /\ step' = "fetching" /\ at' = at
      /\ current' = current /\ UNCHANGED <<pass, asked, win, resumes, exact, size>>
      /\ UNCHANGED verdict /\ out' = out /\ wrong' = wrong /\ passed' = out /\ Leaves
  BY DEF AskUpstream, Flush, request, IInv, OutOK
<1>2. Streams' /\ pass = "write"
  BY <1>1 DEF Streams, Clipped
<1>3. CursorOK'
  BY <1>1 DEF IInv, CursorOK, ContentPlace
<1>4. out' = Held(current', win)
  BY <1>1, <1>2 DEF IInv, OutOK
<1>5. Onward /\ out' - sent' <= NetBuf /\ wrong' \in BOOLEAN
  <2>1. out' \in Nat /\ passed' \in 0 .. out' /\ wrong' \in BOOLEAN
    BY <1>1, Shape
  <2> QED BY <1>1, <1>2, <2>1, LeavesOnward, Runs
<1> QED BY <1>1, <1>2, <1>3, <1>4, <1>5, Shape, MovePreserves

\* The body is what was asked for.
LEMMA Copied ==
    ASSUME CopyContent, exact'
    PROVE  /\ Hand(ContentPlace + Clipped(Size[at]).b, Kept(Size[at]))
           /\ exact' = exact
<1>1. PICK body \in Bodies : Hand(body.place, body.len) /\ exact' = (exact /\ body = Asked)
  BY DEF CopyContent
<1>2. body = Asked /\ exact' = exact
  <2>1. body = Asked /\ exact
    BY <1>1, Zenon
  <2> QED BY <1>1, <2>1
<1>3. body.place = ContentPlace + Clipped(Size[at]).b /\ body.len = Kept(Size[at])
  BY <1>2 DEF Asked, Chunk
<1> QED BY <1>1, <1>2, <1>3

LEMMA CopyContentPreserves == IInv /\ exact' /\ CopyContent => IInv'
<1> SUFFICES ASSUME IInv, exact', CopyContent PROVE IInv'
  OBVIOUS
<1>1. /\ at \in Entries /\ at \notin Dirs /\ step = "fetching" /\ current = ContentPlace
      /\ Streams
  BY DEF CopyContent, IInv, CursorOK, OutOK
<1>2. Size[at] \in Nat
  BY <1>1, Layout
<1>3. /\ current' = current + Size[at] /\ step' = "descriptor" /\ at' = at
      /\ UNCHANGED <<pass, asked, win, resumes, exact, size>> /\ UNCHANGED verdict
      /\ Hand(ContentPlace + Clipped(Size[at]).b, Kept(Size[at]))
  BY Copied DEF CopyContent, span
<1>4. pass = "write" /\ ~Clipped(Size[at]).skip
  BY <1>1 DEF Streams
<1>5. Emit(current, Size[at])
  BY <1>1, <1>3, <1>4 DEF Emit
<1>6. /\ Onward /\ wrong' = wrong
      /\ out' = Held(current + Size[at], win)
  BY <1>1, <1>2, <1>4, <1>5, EmitAdds, Runs
<1>7. CursorOK'
  BY <1>1, <1>3 DEF CursorOK, ContentPlace
<1>8. current' \in Nat /\ wrong' \in BOOLEAN
  BY <1>2, <1>3, <1>6, Shape
<1> QED BY <1>1, <1>3, <1>4, <1>6, <1>7, <1>8, Shape, MovePreserves

LEMMA DescriptorPreserves == IInv /\ Descriptor => IInv'
<1> SUFFICES ASSUME IInv, Descriptor PROVE IInv'
  OBVIOUS
<1> DEFINE l == DescriptorLen[at]
<1>1. /\ at \in Entries /\ at \notin Dirs /\ step = "descriptor"
      /\ current = ContentPlace + Size[at]
  BY DEF Descriptor, IInv, CursorOK
<1>2. /\ NEntries \in Nat /\ at + 1 \in 1 .. NEntries + 1 /\ l \in Nat
      /\ HeaderLen[at] \in Nat /\ Size[at] \in Nat /\ Place[at] \in Nat
      /\ Place[at + 1] = Place[at] + HeaderLen[at] + Size[at] + l
  BY <1>1, Layout
<1>3. /\ UNCHANGED <<pass, asked, win, resumes, exact, size>> /\ UNCHANGED verdict
      /\ at' = at + 1 /\ step' = "header" /\ current' = current + l /\ Emit(current, l)
  BY <1>1 DEF Descriptor, NextEntry, request
<1> HIDE DEF l
<1>4. /\ Onward /\ wrong' = wrong
      /\ pass = "size" => out' = out + l
      /\ pass = "write" => out' = Held(current + l, win)
  BY <1>1, <1>2, <1>3, EmitAdds, Runs
<1>5. CursorOK'
  <2>1. current' = Place[at']
    BY <1>1, <1>2, <1>3 DEF ContentPlace
  <2> QED BY <1>3, <2>1 DEF CursorOK
<1>6. /\ at' \in 1 .. NEntries + 1 /\ current' \in Nat /\ size' \in Nat /\ wrong' \in BOOLEAN
  BY <1>2, <1>3, <1>4, Shape
<1>7. pass = "size" => size' + out' = current'
  BY <1>1, <1>2, <1>3, <1>4, Shape DEF IInv, OutOK
<1>8. pass = "write" => out' = Held(current', win)
  BY <1>3, <1>4
<1> QED BY <1>1, <1>3, <1>4, <1>5, <1>6, <1>7, <1>8, MovePreserves

\* At the end of the archive what the client has is the window.
LEMMA ClosePreserves == IInv /\ Close => IInv'
<1> SUFFICES ASSUME IInv, Close PROVE IInv'
  OBVIOUS
<1> DEFINE l == EndingLen[NEntries]
<1>1. at = NEntries + 1 /\ step = "header" /\ current = Ending
  BY LastPlace, Shape DEF Close, IInv, CursorOK, Ending
<1>2. l \in Nat /\ Ending \in Nat /\ Total = Ending + l /\ NEntries \in Nat
  BY LastPlace DEF Total
<1>3. /\ UNCHANGED <<pass, asked, win, resumes, exact, size>> /\ UNCHANGED verdict
      /\ at' = at /\ step' = "done" /\ current' = current /\ EmitAndFlush(current, l)
  BY <1>1 DEF Close, request
<1> HIDE DEF l
<1>4. /\ Onward /\ passed' = out' /\ wrong' = wrong
      /\ pass = "size" => out' = out + l
      /\ pass = "write" => out' = Held(Total, win)
  BY <1>1, <1>2, <1>3, EndAdds, Runs
<1>5. pass = "write" => passed' = win.e + 1 - win.b
  <2> SUFFICES ASSUME pass = "write" PROVE passed' = win.e + 1 - win.b
    OBVIOUS
  <2>1. win \in [b : Nat, e : Nat] /\ win.b <= win.e /\ win.e < Total /\ win.e \in Nat
    BY Shape DEF IInv, WindowOK
  <2>2. Held(Total, win) = win.e + 1 - win.b
    BY <2>1, LastPlace, HeldBounds
  <2> QED BY <1>4, <2>2
<1>6. pass = "size" => size' + out' = Total
  BY <1>1, <1>2, <1>3, <1>4, Shape DEF IInv, OutOK
<1>7. TypeOK'
  <2>1. wrong' \in BOOLEAN
    BY <1>4, Shape
  <2> QED BY <1>3, <1>4, <2>1 DEF IInv, TypeOK, verdict, Onward
<1>8. CursorOK'
  BY <1>1, <1>3 DEF CursorOK
<1>9. WindowOK'
  BY <1>3 DEF IInv, WindowOK
<1>10. OutOK'
  <2>1. pass = "write" => win.e + 1 - win.b <= win.e + 1 - win.b
    BY Shape
  <2> QED BY <1>3, <1>4, <1>5, <1>6, <2>1 DEF OutOK
<1>11. VerdictOK'
  BY <1>1, <1>3 DEF IInv, VerdictOK, verdict
<1> QED BY <1>7, <1>8, <1>9, <1>10, <1>11 DEF IInv

\* The ending is never more than was announced.
LEMMA EndingFits ==
    ASSUME IInv, step = "header", pass = "write"
    PROVE  ~Overrun(Ending + Clipped(EndingLen[NEntries]).b, Kept(EndingLen[NEntries]))
<1>1. step = "header" /\ pass = "write"
  OBVIOUS
<1>2. out + Kept(EndingLen[NEntries]) <= Announced
  BY <1>1, Runs, LastPlace, ChunkFits
<1>3. out + Kept(EndingLen[NEntries]) \in Int /\ Announced \in Int
  <2>1. Kept(EndingLen[NEntries]) \in Int
    <3>1. CASE Clipped(EndingLen[NEntries]).skip
      BY <3>1 DEF Kept
    <3>2. CASE ~Clipped(EndingLen[NEntries]).skip
      BY <1>1, <3>2, Runs, LastPlace, ChunkAdds DEF Kept
    <3> QED BY <3>1, <3>2
  <2> QED BY <1>1, <2>1, Shape DEF Announced
<1> QED BY <1>2, <1>3 DEF Overrun

\* The ending cannot be written and nobody is told.
LEMMA CloseUnheardPreserves == IInv /\ CloseUnheard => IInv'
<1> SUFFICES ASSUME IInv, CloseUnheard PROVE IInv'
  OBVIOUS
<1>1. /\ pass = "write" /\ gone /\ step = "header" /\ at = NEntries + 1 /\ step' = "failed"
      /\ UNCHANGED <<pass, size, asked, win, resumes, exact, at, current>>
      /\ UNCHANGED <<out, passed, sent, wrong, gone, err, outcome>>
  BY EndingFits, LastPlace, Shape DEF CloseUnheard, request, stream, verdict
<1>2. TypeOK'
  BY <1>1 DEF IInv, TypeOK
<1>3. CursorOK'
  BY <1>1 DEF CursorOK
<1>4. WindowOK'
  BY <1>1 DEF IInv, WindowOK
<1>5. OutOK'
  BY <1>1 DEF IInv, OutOK
<1>6. VerdictOK'
  BY <1>1 DEF IInv, VerdictOK
<1> QED BY <1>2, <1>3, <1>4, <1>5, <1>6 DEF IInv

\* An error of upstream or of the client's connection leaves what was handed over a
\* beginning of the window.
LEMMA ErrorPreserves ==
    ASSUME IInv, UNCHANGED request, pass = "write",
           step \notin {"aborting", "done", "failed"}, at \in Entries,
           at' = at, current' = current, step' = "aborting",
           gone' = gone, outcome' = outcome,
           err' \in {"write", "fetch", "reset"}, err' = "write" => gone,
           err' = "reset" => "reset" \in Upstream,
           Onward, wrong' \in BOOLEAN,
           out' <= win.e + 1 - win.b
    PROVE  IInv'
<1>1. TypeOK'
  BY DEF IInv, TypeOK, request, Onward
<1>2. CursorOK'
  BY DEF CursorOK
<1>3. WindowOK'
  BY DEF IInv, WindowOK, request
<1>4. OutOK'
  <2>1. passed' <= win.e + 1 - win.b
    BY Shape DEF Onward
  <2> QED BY <2>1 DEF IInv, OutOK, request
<1>5. VerdictOK'
  BY DEF IInv, VerdictOK, request
<1> QED BY <1>1, <1>2, <1>3, <1>4, <1>5 DEF IInv

\* What a running writer has handed over fits the window.
LEMMA FitsWindow ==
    ASSUME IInv, pass = "write", step \notin {"aborting", "done", "failed"}
    PROVE  out <= win.e + 1 - win.b
<1>1. out = Held(current, win) /\ win \in [b : Nat, e : Nat] /\ win.b <= win.e /\ current \in Nat
  BY Shape DEF IInv, OutOK
<1> QED BY <1>1, HeldBounds

LEMMA UpstreamFailsPreserves == IInv /\ UpstreamFails => IInv'
<1> SUFFICES ASSUME IInv, UpstreamFails PROVE IInv'
  OBVIOUS
<1>1. /\ step = "fetching" /\ step' = "aborting" /\ UNCHANGED request /\ at' = at
      /\ current' = current /\ gone' = gone /\ outcome' = outcome /\ err' \in {"fetch", "reset"}
      /\ err' = "reset" => "reset" \in Upstream
  BY DEF UpstreamFails, UpstreamErrors
<1>2. pass = "write" /\ at \in Entries /\ ~Clipped(Size[at]).skip /\ current = ContentPlace
  BY <1>1 DEF IInv, OutOK, CursorOK, Streams
<1>3. Size[at] \in Nat
  BY <1>2, Layout
<1>4. CASE UNCHANGED stream
  <2>1. Onward /\ out' = out /\ wrong' = wrong
    BY <1>4, Shape DEF stream, Onward
  <2> QED BY <1>1, <1>2, <2>1, Shape, FitsWindow, ErrorPreserves
<1>5. CASE \E n \in 0 .. Requested - 1 : Hand(ContentPlace + Clipped(Size[at]).b, n)
  <2>1. PICK n \in 0 .. Kept(Size[at]) - 1 :
              Hand(current + Clipped(Size[at]).b, n)
    BY <1>2, <1>5 DEF Requested
  <2>2. Onward /\ wrong' = wrong /\ out' <= win.e + 1 - win.b
    BY <1>1, <1>2, <1>3, <2>1, PartAdds, Runs
  <2>3. wrong' \in BOOLEAN
    BY <2>2, Shape
  <2> QED BY <1>1, <1>2, <2>2, <2>3, ErrorPreserves
<1> QED BY <1>4, <1>5 DEF UpstreamFails

LEMMA WriteFailsPreserves == IInv /\ WriteFails => IInv'
<1> SUFFICES ASSUME IInv, WriteFails PROVE IInv'
  OBVIOUS
<1>1. /\ pass = "write" /\ gone /\ step \notin {"aborting", "done", "failed"}
      /\ step' = "aborting" /\ UNCHANGED request /\ at' = at /\ current' = current
      /\ gone' = gone /\ outcome' = outcome /\ err' = "write"
      /\ out' = out /\ passed' = passed /\ sent' = sent /\ wrong' = wrong
  BY DEF WriteFails, Chunks, stream
<1>2. at \in Entries
  <2>1. CASE step = "header"
    <3>1. at <= NEntries
      BY <2>1 DEF WriteFails, Chunks
    <3> QED BY <3>1, Shape DEF Entries
  <2>2. CASE step # "header"
    <3>1. step \in {"content", "gap", "fetching", "descriptor"}
      BY <2>2 DEF WriteFails, Chunks
    <3> QED BY <3>1 DEF IInv, CursorOK
  <2> QED BY <2>1, <2>2
<1>3. Onward
  BY <1>1, Shape DEF Onward
<1> QED BY <1>1, <1>2, <1>3, Shape, FitsWindow, ErrorPreserves

\* What the writer has in hand never goes beyond what was announced, if upstream's
\* bodies are what was asked for.
LEMMA NeverRefused == IInv /\ Refused => ~exact'
<1> SUFFICES ASSUME IInv, Refused, exact' PROVE FALSE
  OBVIOUS
<1>0. PICK chunk \in Chunks : /\ Overrun(chunk.place, chunk.len)
                            /\ exact' = (exact /\ (step = "fetching" => chunk = Asked))
  BY DEF Refused
<1>1. pass = "write" /\ out + chunk.len > Announced
  BY <1>0 DEF Overrun
<1>10. step = "fetching" => chunk = Asked
  BY <1>0, Zenon
<1>2. step \in {"header", "content", "gap", "fetching", "descriptor"}
  BY <1>0 DEF Chunks
<1>3. Running
  BY <1>2, Runs
<1>4. out \in Nat /\ Announced \in Int /\ out <= Announced
  BY <1>1, <1>2, Shape, FitsWindow DEF Announced
<1>5. chunk.len = 0 \/ \E l \in Nat : chunk.len = Kept(l)
  <2>1. CASE step = "header" /\ at <= NEntries
    <3>1. HeaderLen[at] \in Nat
      BY <2>1, Shape, Layout DEF Entries
    <3>2. chunk \in Part(Place[at], HeaderLen[at])
      BY <1>0, <2>1, Zenon DEF Chunks
    <3>3. chunk.len = Kept(HeaderLen[at])
      BY <3>2 DEF Part, Chunk
    <3> QED BY <3>1, <3>3
  <2>2. CASE step = "header" /\ ~(at <= NEntries)
    <3>1. Chunks = {}
      BY <2>2, Zenon DEF Chunks
    <3> QED BY <1>0, <3>1
  <2>3. CASE step \in {"content", "gap"}
    BY <1>0, <2>3 DEF Chunks, Flushing
  <2>4. CASE step \in {"fetching", "descriptor"}
    <3>1. at \in Entries
      BY <2>4 DEF IInv, CursorOK
    <3>2. Size[at] \in Nat /\ DescriptorLen[at] \in Nat
      BY <3>1, Layout
    <3>3. CASE step = "fetching"
      BY <1>10, <3>2, <3>3 DEF Asked, Chunk
    <3>4. CASE step = "descriptor"
      BY <1>0, <3>2, <3>4 DEF Chunks, Part, Chunk
    <3> QED BY <2>4, <3>3, <3>4
  <2> QED BY <1>2, <2>1, <2>2, <2>3, <2>4
<1>6. chunk.len # 0
  BY <1>1, <1>4
<1>7. PICK l \in Nat : chunk.len = Kept(l)
  BY <1>5, <1>6
<1>8. out + Kept(l) <= Announced
  BY <1>1, <1>3, ChunkFits
<1>9. Kept(l) \in Int
  <2>1. CASE Clipped(l).skip
    BY <2>1 DEF Kept
  <2>2. CASE ~Clipped(l).skip
    BY <1>3, <2>2, ChunkAdds DEF Kept
  <2> QED BY <2>1, <2>2
<1> QED BY <1>1, <1>4, <1>7, <1>8, <1>9

\* The deferred Close hands over what it likes, and net/http takes no more than was
\* announced.
LEMMA AbortBounds ==
    ASSUME IInv, AbortingClose, pass = "write", at \in Entries
    PROVE  /\ out' \in Nat /\ passed' \in 0 .. out' /\ sent' \in 0 .. passed'
           /\ wrong' \in BOOLEAN /\ passed' <= win.e + 1 - win.b /\ sent' >= sent
<1> DEFINE l == EndingLen[at]
           n == Kept(l)
           there == Total + Clipped(l).b
<1>1. /\ win \in [b : Nat, e : Nat] /\ win.b <= win.e
      /\ win.b \in Nat /\ win.e \in Nat /\ current \in Nat
      /\ out \in Nat /\ passed \in 0 .. out /\ sent \in 0 .. passed /\ wrong \in BOOLEAN
      /\ passed <= win.e + 1 - win.b
  BY Shape DEF IInv, OutOK
<1>2. n \in Nat
  <2>1. l \in Nat
    BY Layout
  <2>2. CASE Clipped(l).skip
    BY <2>2 DEF Kept
  <2>3. CASE ~Clipped(l).skip
    BY <1>1, <2>1, <2>3, ClipAdds DEF Clipped, Kept
  <2> QED BY <2>2, <2>3
<1>3. Announced \in Int /\ Announced = win.e + 1 - win.b
  BY <1>1 DEF Announced
<1>4. CASE UNCHANGED stream
  BY <1>1, <1>4 DEF stream
<1>5. CASE EmitAndFlush(Total, l)
  <2>1. /\ out' = out + n /\ passed' = out' /\ Leaves
        /\ wrong' = (wrong \/ (pass = "write" /\ n > 0 /\ there # win.b + out))
    BY <1>5 DEF EmitAndFlush, Takes
  <2>2. passed' <= Announced /\ sent' \in sent .. passed'
    BY <2>1 DEF Leaves
  <2> HIDE DEF n, there
  <2>3. wrong' \in BOOLEAN
    BY <1>1, <2>1
  <2> QED BY <1>1, <1>2, <1>3, <2>1, <2>2, <2>3
<1>6. CASE Overrun(there, n)
  <2>1. /\ out + n > Announced /\ out' = out + n /\ passed' \in passed .. Announced
        /\ Leaves /\ wrong' = (wrong \/ (n > 0 /\ there # win.b + out /\ passed' > out))
    BY <1>6 DEF Overrun
  <2>2. sent' \in sent .. passed'
    BY <2>1 DEF Leaves
  <2> HIDE DEF n, there
  <2>3. wrong' \in BOOLEAN
    BY <1>1, <2>1
  <2> QED BY <1>1, <1>2, <1>3, <2>1, <2>2, <2>3
<1> QED BY <1>4, <1>5, <1>6 DEF AbortingClose

LEMMA AbortingClosePreserves == IInv /\ AbortingClose => IInv'
<1> SUFFICES ASSUME IInv, AbortingClose PROVE IInv'
  OBVIOUS
<1>1. /\ step = "aborting" /\ step' = "failed" /\ UNCHANGED request /\ at' = at
      /\ current' = current /\ UNCHANGED <<gone, err, outcome>>
  BY DEF AbortingClose, verdict
<1>2. pass = "write" /\ at \in Entries
  BY <1>1, Shape DEF IInv, WindowOK, CursorOK
<1>3. /\ out' \in Nat /\ passed' \in 0 .. out' /\ sent' \in 0 .. passed'
      /\ wrong' \in BOOLEAN /\ passed' <= win.e + 1 - win.b
  BY <1>1, <1>2, AbortBounds
<1>4. TypeOK'
  BY <1>1, <1>3 DEF IInv, TypeOK, request
<1>5. CursorOK'
  BY <1>1 DEF CursorOK
<1>6. WindowOK'
  BY <1>1, <1>2 DEF IInv, WindowOK, request
<1>7. OutOK'
  BY <1>1, <1>2, <1>3 DEF OutOK, request
<1>8. VerdictOK'
  BY <1>1 DEF IInv, VerdictOK, request
<1> QED BY <1>4, <1>5, <1>6, <1>7, <1>8 DEF IInv

\* Size answers the length of the archive, and every range of it is a window.
LEMMA SizedPreserves == IInv /\ Sized => IInv'
<1> SUFFICES ASSUME IInv, Sized PROVE IInv'
  OBVIOUS
<1>1. /\ pass = "size" /\ step = "done" /\ size + out = Total /\ passed = out
  BY DEF Sized, StartWrite, IInv, OutOK
<1>2. /\ pass' = "write" /\ size' = size + out
      /\ at' = 1 /\ step' = "header" /\ current' = 0
      /\ out' = 0 /\ passed' = 0 /\ sent' = 0
      /\ gone' = FALSE /\ err' = "nil" /\ outcome' = "none"
      /\ wrong' = wrong /\ resumes' = resumes /\ exact' = exact /\ win' = asked'
  BY <1>1 DEF Sized, StartWrite, Fresh
<1>3. PICK b \in 0 .. (size + out) - 1, e \in 0 .. (size + out) - 1 :
              b <= e /\ asked' = [b |-> b, e |-> e]
  BY <1>1 DEF Sized, StartWrite
<1>4. /\ size + out \in Nat /\ b \in Nat /\ e \in Nat /\ e < size'
      /\ win'.b = b /\ win'.e = e /\ asked'.b = b /\ asked'.e = e
      /\ win' \in [b : Nat, e : Nat] /\ asked' \in [b : Nat, e : Nat]
  <2>1. size + out \in Nat
    BY Shape
  <2>2. b \in Nat /\ e \in Nat /\ e < size + out
    BY <1>3, <2>1
  <2> QED BY <1>2, <1>3, <2>1, <2>2
<1>5. NEntries \in Nat /\ Place[1] = 0
  BY LastPlace
<1>6. TypeOK'
  <2>1. win' \in [b : Nat, e : Nat \cup {Unbounded}] /\ asked' \in [b : Nat, e : Nat \cup {Unbounded}]
    BY <1>4
  <2>2. at' \in 1 .. NEntries + 1 /\ passed' \in 0 .. out' /\ sent' \in 0 .. passed'
    BY <1>2, <1>5
  <2> QED BY <1>2, <1>4, <2>1, <2>2 DEF IInv, TypeOK
<1>7. CursorOK'
  BY <1>2, <1>5 DEF CursorOK
<1>8. WindowOK'
  BY <1>1, <1>2, <1>3, <1>4 DEF WindowOK, Total
<1>9. OutOK'
  <2>1. Held(0, win') = 0
    BY <1>4, HeldBounds, <1>3
  <2> QED BY <1>2, <1>3, <1>4, <2>1 DEF OutOK, IInv
<1>10. VerdictOK'
  BY <1>2 DEF VerdictOK
<1> QED BY <1>6, <1>7, <1>8, <1>9, <1>10 DEF IInv

\* A writer that is done has passed on what was announced.
LEMMA AllPassed ==
    ASSUME IInv, pass = "write", step = "done"
    PROVE  passed = Announced /\ passed = out
<1>1. win.b \in Nat /\ win.e \in Nat /\ passed = win.e + 1 - win.b /\ passed = out
  BY Shape DEF IInv, OutOK
<1> QED BY <1>1 DEF Announced

LEMMA RecordPreserves == IInv /\ Record => IInv'
<1> SUFFICES ASSUME IInv, Record PROVE IInv'
  OBVIOUS
<1>1. /\ pass = "write" /\ step \in {"done", "failed"} /\ outcome = "none"
      /\ outcome' = ArchiveOutcome(gone, err)
      /\ UNCHANGED <<request, at, current, out, passed, wrong, gone, err>>
  BY DEF Record
<1>2. outcome' \in Outcomes
  BY <1>1, OutcomeKnown DEF IInv, TypeOK
<1>3. /\ (step' = step /\ sent' = passed) \/ step' = "failed"
      /\ sent' \in 0 .. passed
  BY Shape DEF Record
<1>4. TypeOK'
  BY <1>1, <1>2, <1>3 DEF IInv, TypeOK, request
<1>5. CursorOK'
  BY <1>1, <1>3 DEF IInv, CursorOK
<1>6. WindowOK'
  BY <1>1 DEF IInv, WindowOK, request
<1>7. OutOK'
  BY <1>1, <1>3 DEF IInv, OutOK, request
<1>8. VerdictOK'
  <2>1. err = "nil" => at = NEntries + 1 /\ (gone \/ passed = Announced)
    BY <1>1, AllPassed DEF IInv, VerdictOK, CursorOK
  <2>2. Announced' = Announced
    BY <1>1 DEF Announced, request
  <2>3. outcome' # "none" /\ pass' = "write" /\ step' \in {"done", "failed"}
    BY <1>1, <1>2, <1>3 DEF Outcomes, request
  <2>4. /\ err' = "nil" => at' = NEntries + 1 /\ (gone' \/ passed' = Announced')
        /\ step' = "done" => sent' = passed'
        /\ outcome' = ArchiveOutcome(gone', err')
    BY <1>1, <1>3, <2>1, <2>2
  <2>5. /\ err' # "nil" => step' \in {"aborting", "failed"}
        /\ err' # "length"
        /\ err' = "write" => gone'
        /\ err' = "reset" => "reset" \in Upstream
    BY <1>1, <1>3 DEF IInv, VerdictOK
  <2> QED BY <2>3, <2>4, <2>5 DEF VerdictOK
<1> QED BY <1>4, <1>5, <1>6, <1>7, <1>8 DEF IInv

LEMMA ClientGonePreserves == IInv /\ ClientGone => IInv'
<1> SUFFICES ASSUME IInv, ClientGone PROVE IInv'
  OBVIOUS
<1>1. /\ outcome = "none" /\ gone' = TRUE
      /\ UNCHANGED <<request, writer, stream, err, outcome>>
  BY DEF ClientGone
<1>2. TypeOK'
  BY <1>1 DEF IInv, TypeOK, request, writer, stream
<1>3. CursorOK'
  BY <1>1 DEF IInv, CursorOK, writer, ContentPlace
<1>4. WindowOK'
  BY <1>1 DEF IInv, WindowOK, writer, request
<1>5. OutOK'
  BY <1>1 DEF IInv, OutOK, writer, request, stream, Streams, Clipped
<1>6. VerdictOK'
  BY <1>1 DEF IInv, VerdictOK, writer, request
<1> QED BY <1>2, <1>3, <1>4, <1>5, <1>6 DEF IInv

\* The rest of a window is a window of the same archive.
LEMMA ResumePreserves == IInv /\ Resume => IInv'
<1> SUFFICES ASSUME IInv, Resume PROVE IInv'
  OBVIOUS
<1>1. /\ outcome # "none" /\ at' = 1 /\ step' = "header" /\ current' = 0
      /\ out' = 0 /\ passed' = 0 /\ sent' = 0
      /\ resumes' = resumes + 1 /\ resumes < MaxResumes
      /\ gone' = FALSE /\ err' = "nil" /\ outcome' = "none"
      /\ pass' = pass /\ size' = size /\ asked' = asked /\ wrong' = wrong /\ exact' = exact
  BY DEF Resume, Fresh
<1>2. PICK held \in 0 .. sent : win.b + held <= win.e /\ win' = [win EXCEPT !.b = @ + held]
  BY DEF Resume
<1>3. /\ pass = "write" /\ win \in [b : Nat, e : Nat] /\ win.b \in Nat /\ win.e \in Nat
      /\ held \in Nat
  BY <1>1, <1>2, Shape DEF IInv, VerdictOK
<1>4. /\ win' \in [b : Nat, e : Nat] /\ win'.b = win.b + held /\ win'.e = win.e
      /\ win'.b <= win'.e
  BY <1>2, <1>3
<1>5. NEntries \in Nat /\ Place[1] = 0 /\ MaxResumes \in Nat
  BY LastPlace, LayoutAssumption
<1>6. TypeOK'
  <2>1. /\ resumes' \in 0 .. MaxResumes /\ at' \in 1 .. NEntries + 1
        /\ passed' \in 0 .. out' /\ sent' \in 0 .. passed'
    BY <1>1, <1>5 DEF IInv, TypeOK
  <2>2. win' \in [b : Nat, e : Nat \cup {Unbounded}]
    BY <1>4
  <2> QED BY <1>1, <2>1, <2>2 DEF IInv, TypeOK
<1>7. CursorOK'
  BY <1>1, <1>5 DEF CursorOK
<1>8. WindowOK'
  <2>1. asked \in [b : Nat, e : Nat \cup {Unbounded}] /\ asked.b <= win.b /\ asked.e = win.e
        /\ size = Total /\ win.e < size
    BY <1>3 DEF IInv, TypeOK, WindowOK
  <2>2. asked.b <= win'.b
    BY <1>3, <1>4, <2>1
  <2> QED BY <1>1, <1>3, <1>4, <2>1, <2>2 DEF WindowOK, Total
<1>9. OutOK'
  <2>1. Held(0, win') = 0
    BY <1>4, HeldBounds
  <2> QED BY <1>1, <1>3, <1>4, <2>1 DEF OutOK, IInv
<1>10. VerdictOK'
  BY <1>1 DEF VerdictOK
<1> QED BY <1>6, <1>7, <1>8, <1>9, <1>10 DEF IInv

LEMMA StutterPreserves == IInv /\ UNCHANGED vars => IInv'
BY DEF IInv, TypeOK, CursorOK, WindowOK, OutOK, VerdictOK, vars, request, writer, stream,
       verdict, Streams, Clipped, ContentPlace, Announced

\* A body that was not what was asked for is not made good.
LEMMA ExactBefore == [Next]_vars /\ exact' => exact
BY DEF Next, vars, request, span, Header, SkipContent, AskGap, AskUpstream, UpstreamFails,
       CopyContent, Descriptor, Close, AbortingClose, Sized, StartWrite, CloseUnheard,
       WriteFails, Refused, Record, Resume, ClientGone

LEMMA NextPreserves == IInv /\ exact' /\ [Next]_vars => IInv'
<1> SUFFICES ASSUME IInv, exact', [Next]_vars PROVE IInv'
  OBVIOUS
<1>1. CASE Header         BY <1>1, HeaderPreserves
<1>2. CASE SkipContent    BY <1>2, SkipContentPreserves
<1>3. CASE AskGap         BY <1>3, AskGapPreserves
<1>4. CASE AskUpstream    BY <1>4, AskUpstreamPreserves
<1>5. CASE UpstreamFails  BY <1>5, UpstreamFailsPreserves
<1>6. CASE CopyContent    BY <1>6, CopyContentPreserves
<1>7. CASE Descriptor     BY <1>7, DescriptorPreserves
<1>8. CASE Close          BY <1>8, ClosePreserves
<1>9. CASE AbortingClose  BY <1>9, AbortingClosePreserves
<1>10. CASE Sized         BY <1>10, SizedPreserves
<1>11. CASE CloseUnheard  BY <1>11, CloseUnheardPreserves
<1>12. CASE WriteFails    BY <1>12, WriteFailsPreserves
<1>13. CASE Record        BY <1>13, RecordPreserves
<1>14. CASE Resume        BY <1>14, ResumePreserves
<1>15. CASE ClientGone    BY <1>15, ClientGonePreserves
<1>16. CASE Refused       BY <1>16, NeverRefused
<1>17. CASE UNCHANGED vars  BY <1>17, StutterPreserves
<1> QED
  BY <1>1, <1>2, <1>3, <1>4, <1>5, <1>6, <1>7, <1>8, <1>9, <1>10, <1>11, <1>12, <1>13,
     <1>14, <1>15, <1>16, <1>17
     DEF Next

\* The error of a response is what went wrong with it, through every step.
LEMMA EndPreserves == Inv /\ [Next]_vars => EndOK'
<1> SUFFICES ASSUME Inv, [Next]_vars PROVE EndOK'
  OBVIOUS
<1>1. EndOK /\ (exact => IInv)
  BY DEF Inv
\* The steps of the writer that succeed.
<1>2. ASSUME step \notin {"aborting", "done", "failed"}, step' \notin {"aborting", "failed"},
             UNCHANGED verdict, step' = "done" => at' > NEntries
      PROVE  EndOK'
  BY <1>1, <1>2 DEF EndOK, verdict
<1>3. CASE \/ Header \/ SkipContent \/ AskGap \/ AskUpstream \/ CopyContent
           \/ Descriptor \/ Close
  BY <1>2, <1>3 DEF Header, SkipContent, AskGap, AskUpstream, CopyContent, Descriptor, Close,
     NextEntry
\* Those that fail.
<1>4. ASSUME step \notin {"aborting", "done", "failed"}, step' = "aborting",
             UNCHANGED <<gone, outcome>>,
             err' \in {"write", "fetch", "reset", "length"},
             err' = "write" => gone, err' = "reset" => "reset" \in Upstream,
             err' = "length" => ~exact'
      PROVE  EndOK'
  BY <1>1, <1>4 DEF EndOK
<1>5. CASE UpstreamFails
  BY <1>4, <1>5 DEF UpstreamFails, UpstreamErrors
<1>6. CASE WriteFails
  <2>1. step \notin {"aborting", "done", "failed"}
    BY <1>6 DEF WriteFails, Chunks
  <2> QED BY <1>4, <1>6, <2>1 DEF WriteFails
<1>7. CASE Refused
  <2>1. step \notin {"aborting", "done", "failed"}
    BY <1>7 DEF Refused, Chunks
  <2>2. ~exact'
    <3>1. exact' => exact
      BY ExactBefore
    <3> QED BY <1>1, <1>7, <3>1, NeverRefused
  <2> QED BY <1>4, <1>7, <2>1, <2>2 DEF Refused
<1>8. CASE AbortingClose
  BY <1>1, <1>8 DEF AbortingClose, EndOK, request, verdict
<1>9. CASE CloseUnheard
  BY <1>1, <1>9 DEF CloseUnheard, EndOK, request, verdict
<1>10. CASE Sized \/ Resume
  BY <1>10 DEF Sized, StartWrite, Resume, Fresh, EndOK
<1>11. CASE Record
  <2>1. /\ step \in {"done", "failed"} /\ outcome = "none"
        /\ outcome' = ArchiveOutcome(gone, err) /\ step' \in {step, "failed"}
        /\ gone' = gone /\ err' = err /\ at' = at /\ exact' = exact
    BY <1>11 DEF Record, request
  <2>2. ArchiveOutcome(gone, err) # "none"
    <3>1. ArchiveOutcome(gone, err) \in Outcomes
      BY <1>1, OutcomeKnown DEF EndOK
    <3> QED BY <3>1 DEF Outcomes
  <2> QED BY <1>1, <2>1, <2>2 DEF EndOK
<1>12. CASE ClientGone
  BY <1>1, <1>12 DEF ClientGone, EndOK, request, writer, stream
<1>13. CASE UNCHANGED vars
  BY <1>1, <1>13 DEF EndOK, vars, request, writer, stream, verdict
<1> QED
  BY <1>3, <1>5, <1>6, <1>7, <1>8, <1>9, <1>10, <1>11, <1>12, <1>13 DEF Next

LEMMA SizePreserves == Inv /\ [Next]_vars => SizeOK'
<1> SUFFICES ASSUME Inv, [Next]_vars PROVE SizeOK'
  OBVIOUS
<1>1. SizeOK /\ (exact => IInv)
  BY DEF Inv
<1>2. CASE Sized
  <2>1. exact /\ pass = "size" /\ step = "done" /\ IInv
    BY <1>1, <1>2 DEF Sized, StartWrite, SizeOK
  <2>2. size + passed = Total
    BY <2>1 DEF IInv, OutOK
  <2> QED BY <1>2, <2>2 DEF Sized, StartWrite, SizeOK
<1>3. CASE ~Sized
  <2>1. pass' = pass /\ (pass = "write" => size' = size)
    BY <1>3 DEF Next, vars, request, span, Header, SkipContent, AskGap, AskUpstream,
       UpstreamFails, CopyContent, Descriptor, Close, AbortingClose, CloseUnheard,
       WriteFails, Refused, Record, Resume, ClientGone
  <2>2. CASE CopyContent \/ Refused
    <3>1. pass = "write"
      <4>1. CASE Refused
        BY <4>1 DEF Refused, Overrun
      <4>2. CASE CopyContent
        <5>1. step = "fetching"
          BY <4>2 DEF CopyContent
        <5>2. exact => pass = "write"
          BY <1>1, <5>1 DEF IInv, OutOK, Streams
        <5> QED BY <1>1, <5>2 DEF SizeOK
      <4> QED BY <2>2, <4>1, <4>2
    <3> QED BY <1>1, <2>1, <3>1 DEF SizeOK
  <2>3. CASE ~CopyContent /\ ~Refused
    <3>1. exact' = exact
      BY <1>3, <2>3 DEF Next, vars, request, Header, SkipContent, AskGap, AskUpstream,
         UpstreamFails, Descriptor, Close, AbortingClose, CloseUnheard, WriteFails,
         Record, Resume, ClientGone
    <3> QED BY <1>1, <2>1, <3>1 DEF SizeOK
  <2> QED BY <2>2, <2>3
<1> QED BY <1>2, <1>3

LEMMA InvariantHolds == Spec => []Inv
<1>1. Init => EndOK /\ SizeOK
  BY DEF Init, EndOK, SizeOK
<1>2. Inv /\ [Next]_vars => Inv'
  BY NextPreserves, ExactBefore, EndPreserves, SizePreserves DEF Inv
<1> QED BY <1>1, <1>2, InitIInv, PTL DEF Spec, Inv

\* The variables keep their types as long as upstream's bodies are what was asked for.
THEOREM TypeCorrect == Spec => [](exact => TypeOK)
<1>1. Inv => (exact => TypeOK) BY DEF Inv, IInv
<1> QED BY <1>1, InvariantHolds, PTL

\* web.go:334: the announced length is the one a complete response has, and the size
\* pass is not misled by any body.
THEOREM LengthAnnounced == Spec => []AnnouncedLength
<1>1. Inv => AnnouncedLength
  <2> SUFFICES ASSUME Inv, pass = "write"
               PROVE  /\ size = Total
                      /\ step = "done" /\ exact => passed = Announced
    BY DEF AnnouncedLength
  <2>1. size = Total
    BY DEF Inv, SizeOK
  <2> QED BY <2>1, AllPassed DEF Inv
<1> QED BY <1>1, InvariantHolds, PTL

\* metrics.go:29-31, 98-101: every response is counted under what became of it,
\* whatever bodies upstream sends, as long as no connection to it is reset (the
\* outcome_reset run shows why that is assumed).
THEOREM OutcomeRight ==
    ASSUME "reset" \notin Upstream PROVE Spec => []OutcomeTold
<1>1. Inv => OutcomeTold
  <2> SUFFICES ASSUME Inv, outcome # "none"
               PROVE  /\ step \in {"done", "failed"}
                      /\ outcome = "ok" =>
                            at > NEntries /\ (exact => gone \/ passed = Announced)
                      /\ outcome = "upstream_error" => err = "fetch" /\ ~gone
                      /\ outcome = "client_gone" => gone
                      /\ outcome = "error" => err = "length" /\ ~exact
    BY DEF OutcomeTold
  <2>1. /\ step \in {"done", "failed"} /\ outcome = ArchiveOutcome(gone, err)
        /\ gone \in BOOLEAN /\ err \in {"nil", "write", "length", "fetch", "reset"}
        /\ err # "reset"
        /\ err = "write" => gone
        /\ err = "length" => ~exact
        /\ err = "nil" => at > NEntries
    BY DEF Inv, EndOK
  <2>2. /\ outcome = "error" => err = "length"
        /\ outcome = "ok" <=> err = "nil"
        /\ outcome = "upstream_error" => err = "fetch" /\ ~gone
        /\ outcome = "client_gone" => gone \/ err \in {"write", "reset"}
    BY <2>1, OutcomeKnown
  <2>3. exact /\ err = "nil" => gone \/ passed = Announced
    BY DEF Inv, IInv, VerdictOK
  <2> QED BY <2>1, <2>2, <2>3
<1> QED BY <1>1, InvariantHolds, PTL
-----------------------------------------------------------------------------
\* What LittleHeldBack needs of a response, whatever its bodies: as long as the cursor
\* has not come to the window, nothing has been handed over.
HeldOK ==
    /\ pass \in {"size", "write"} /\ at \in 1 .. NEntries + 1
    /\ step \in {"content", "gap", "fetching", "descriptor"} => at \in Entries
    /\ step \in {"gap", "fetching"} => Streams
    /\ LittleHeldBack
    /\ pass = "write" =>
          /\ win.b \in Nat /\ win.e \in Nat /\ win \in [b : Nat, e : Nat]
          /\ current \in Nat
          /\ step \notin {"aborting", "done", "failed"} =>
                sent \in Nat /\ (current <= win.b => out = 0)

\* A chunk in front of the window is left out.
LEMMA InFront ==
    ASSUME HeldOK, pass = "write", step \notin {"aborting", "done", "failed"},
           out = 0 \/ current > win.b, NEW l \in Nat, NEW place,
           Emit(place, l), current' = current + l
    PROVE  /\ current' \in Nat /\ sent' \in Nat
           /\ current' <= win.b => out' = 0
<1>1. win.b \in Nat /\ win.e \in Nat /\ current \in Nat /\ sent \in Nat
  BY DEF HeldOK
<1>2. sent' \in Nat
  <2>1. sent' = sent \/ Leaves
    BY DEF Emit, Hand, stream
  <2> QED BY <1>1, <2>1 DEF Leaves
<1>3. current' <= win.b => Clipped(l).skip /\ ~(current > win.b)
  BY <1>1 DEF Clipped, Clip, Outside
<1> QED BY <1>1, <1>2, <1>3 DEF Emit, stream

LEMMA HeldPreserves == HeldOK /\ [Next]_vars => HeldOK'
<1> SUFFICES ASSUME HeldOK, [Next]_vars PROVE HeldOK'
  OBVIOUS
<1>1. /\ pass \in {"size", "write"} /\ at \in 1 .. NEntries + 1
      /\ NEntries \in Nat /\ NetBuf \in Nat
  BY LayoutAssumption DEF HeldOK
<1>2. pass = "write" => /\ win.b \in Nat /\ win.e \in Nat /\ win \in [b : Nat, e : Nat]
                        /\ current \in Nat
                        /\ step \notin {"aborting", "done", "failed"} => sent \in Nat
  BY DEF HeldOK
\* A step that writes no more than one chunk and goes on behind it.
<1>3. ASSUME UNCHANGED <<pass, win>>, at' \in 1 .. NEntries + 1,
             step' \in {"header", "content", "descriptor"},
             step' # "header" => at' \in Entries,
             pass = "write" => /\ current' \in Nat /\ sent' \in Nat
                               /\ current' <= win.b => out' = 0
      PROVE  HeldOK'
  BY <1>1, <1>2, <1>3 DEF HeldOK, LittleHeldBack
<1>4. CASE Header
  <2>1. at \in Entries /\ step = "header"
    BY <1>1, <1>4 DEF Header, Entries
  <2>2. /\ UNCHANGED <<pass, win>> /\ Emit(Place[at], HeaderLen[at])
        /\ current' = current + HeaderLen[at] /\ HeaderLen[at] \in Nat
        /\ \/ at' = at + 1 /\ step' = "header"
           \/ at' = at /\ step' = "content"
    BY <1>4, <2>1, Layout DEF Header, NextEntry, request
  <2>3. pass = "write" => out = 0 \/ current > win.b
    BY <1>2, <2>1 DEF HeldOK
  <2>4. at' \in 1 .. NEntries + 1
    BY <1>1, <2>1, <2>2 DEF Entries
  <2> QED BY <1>3, <2>1, <2>2, <2>3, <2>4, InFront
<1>5. CASE SkipContent
  <2>1. /\ UNCHANGED <<pass, win, at>> /\ step = "content" /\ at \in Entries
        /\ step' = "descriptor" /\ ~Streams
        /\ current' = current + Size[at] /\ Size[at] \in Nat /\ out' = out /\ sent' = sent
    BY <1>5, Layout DEF SkipContent, HeldOK, stream
  <2>2. pass = "write" => /\ current' \in Nat /\ sent' \in Nat
                          /\ current' <= win.b => out' = 0
    BY <1>2, <2>1 DEF HeldOK
  <2> QED BY <1>1, <1>3, <2>1, <2>2
<1>6. CASE AskGap
  <2>1. /\ UNCHANGED <<pass, win, at, current, out, sent>> /\ step = "content" /\ Streams
        /\ step' = "gap" /\ Clipped(Size[at]).b > 0 /\ at \in Entries
    BY <1>6 DEF AskGap, request, stream, HeldOK
  <2>2. pass = "write" /\ Streams'
    BY <2>1 DEF Streams, Clipped
  <2>3. current <= win.b
    BY <1>2, <2>1, <2>2 DEF Clipped, Clip, CutsLeft
  <2>4. out = 0
    BY <2>1, <2>2, <2>3 DEF HeldOK
  <2> QED BY <1>1, <1>2, <2>1, <2>2, <2>4 DEF HeldOK, LittleHeldBack
<1>7. CASE AskUpstream
  <2>1. /\ UNCHANGED <<pass, win, at, current, out>> /\ step \in {"content", "gap"}
        /\ Streams /\ step' = "fetching" /\ passed' = out /\ Leaves /\ at \in Entries
    BY <1>7 DEF AskUpstream, Flush, request, HeldOK
  <2>2. pass = "write" /\ Streams'
    BY <2>1 DEF Streams, Clipped
  <2>3. sent' \in Nat /\ out' - sent' <= NetBuf
    BY <1>2, <2>1, <2>2 DEF Leaves
  <2>4. current <= win.b => out = 0
    BY <2>1, <2>2 DEF HeldOK
  <2> QED BY <1>1, <1>2, <2>1, <2>2, <2>3, <2>4 DEF HeldOK, LittleHeldBack
\* Behind a body, whatever it was, the cursor is in the window or beyond it.
<1>8. CASE CopyContent
  <2>1. /\ UNCHANGED <<pass, win, at>> /\ step = "fetching" /\ Streams /\ at \in Entries
        /\ step' = "descriptor" /\ current' = current + Size[at] /\ Size[at] \in Nat
    BY <1>8, Layout DEF CopyContent, span, HeldOK
  <2>2. pass = "write" /\ ~Clipped(Size[at]).skip
    BY <2>1 DEF Streams
  <2>3. current' \in Nat /\ current' > win.b
    BY <1>2, <2>1, <2>2 DEF Clipped, Clip, Outside
  <2>4. sent' \in Nat
    BY <1>2, <1>8, <2>2 DEF CopyContent, Hand, Leaves
  <2> QED BY <1>1, <1>2, <1>3, <2>1, <2>3, <2>4
<1>9. CASE Descriptor
  <2>1. /\ UNCHANGED <<pass, win>> /\ step = "descriptor" /\ at \in Entries
        /\ Emit(ContentPlace + Size[at], DescriptorLen[at]) /\ DescriptorLen[at] \in Nat
        /\ current' = current + DescriptorLen[at] /\ at' = at + 1 /\ step' = "header"
    BY <1>9, Layout DEF Descriptor, NextEntry, request, HeldOK
  <2>2. pass = "write" => out = 0 \/ current > win.b
    BY <1>2, <2>1 DEF HeldOK
  <2>3. at' \in 1 .. NEntries + 1
    BY <1>1, <2>1 DEF Entries
  <2> QED BY <1>3, <2>1, <2>2, <2>3, InFront
\* A step that ends a response or begins to.
<1>10. ASSUME UNCHANGED <<pass, win, at, current>>, step' \in {"aborting", "done", "failed"}
       PROVE  HeldOK'
  BY <1>1, <1>2, <1>10 DEF HeldOK, LittleHeldBack
<1>11. CASE \/ UpstreamFails \/ Close \/ AbortingClose \/ CloseUnheard \/ WriteFails
            \/ Refused \/ Record
  <2>1. UNCHANGED <<pass, win, at, current>> /\ step' \in {"aborting", "done", "failed"}
    BY <1>11 DEF UpstreamFails, Close, AbortingClose, CloseUnheard, WriteFails, Refused,
       Record, request, span
  <2> QED BY <1>10, <2>1
<1>12. CASE Sized \/ Resume
  <2>1. /\ pass' = "write" \/ pass' = pass
        /\ at' = 1 /\ step' = "header" /\ current' = 0 /\ out' = 0 /\ sent' = 0
    BY <1>12 DEF Sized, StartWrite, Resume
  <2>2. pass' = "write" => win'.b \in Nat /\ win'.e \in Nat /\ win' \in [b : Nat, e : Nat]
    <3>1. CASE Sized
      BY <3>1 DEF Sized, StartWrite
    <3>2. CASE Resume
      <4>1. PICK held \in 0 .. sent : win' = [win EXCEPT !.b = @ + held]
        BY <3>2 DEF Resume
      <4>2. pass' = pass
        BY <3>2 DEF Resume
      <4> QED BY <1>2, <4>1, <4>2
    <3> QED BY <1>12, <3>1, <3>2
  <2> QED BY <1>1, <2>1, <2>2 DEF HeldOK, LittleHeldBack
<1>13. CASE ClientGone \/ UNCHANGED vars
  <2>1. UNCHANGED <<pass, win, at, step, current, out, sent>>
    BY <1>13 DEF ClientGone, vars, request, writer, stream
  <2> QED BY <2>1 DEF HeldOK, LittleHeldBack, Streams, Clipped
<1> QED
  BY <1>4, <1>5, <1>6, <1>7, <1>8, <1>9, <1>11, <1>12, <1>13 DEF Next

\* ziphttp/writer.go:486: while the writer waits for upstream, what the client has not
\* been sent fits into net/http's buffers, however long the header in front and
\* whatever bodies came before; also while the gap of a CRC resume is read in front of
\* the flush.
THEOREM HeldBackBounded == Spec => []LittleHeldBack
<1>1. Init => HeldOK
  BY LayoutAssumption DEF Init, HeldOK, LittleHeldBack
<1>2. HeldOK => LittleHeldBack
  BY DEF HeldOK
<1> QED BY <1>1, <1>2, HeldPreserves, PTL DEF Spec
-----------------------------------------------------------------------------
\* What the steps between the first byte and the ending do to the client's side.
LEMMA StreamEffect ==
    ASSUME IInv, exact',
           \/ Header \/ SkipContent \/ AskGap \/ AskUpstream \/ UpstreamFails
           \/ CopyContent \/ Descriptor \/ Close \/ CloseUnheard \/ WriteFails
    PROVE  /\ pass = "write" => sent' >= sent
           /\ wrong' = wrong /\ UNCHANGED <<pass, asked, win>>
           /\ outcome' = outcome /\ step \notin {"done", "failed"}
<1>1. CASE Header
  <2>1. /\ at \in Entries /\ step = "header" /\ outcome' = outcome
        /\ Emit(current, HeaderLen[at]) /\ UNCHANGED <<pass, asked, win>>
    BY <1>1, Shape DEF Header, request, verdict, Entries, IInv, CursorOK
  <2> QED BY <2>1, Layout, EmitAdds, Runs DEF Onward
<1>2. CASE SkipContent \/ AskGap \/ WriteFails
  <2>1. /\ sent' = sent /\ wrong' = wrong /\ UNCHANGED <<pass, asked, win>>
        /\ outcome' = outcome /\ step \notin {"done", "failed"}
    BY <1>2 DEF SkipContent, AskGap, WriteFails, Chunks, stream, request, verdict
  <2> QED BY <2>1, Shape
<1>3. CASE AskUpstream
  <2>1. /\ out' = out /\ passed' = out /\ Leaves /\ wrong' = wrong
        /\ UNCHANGED <<pass, asked, win>> /\ outcome' = outcome /\ step \in {"content", "gap"}
    BY <1>3 DEF AskUpstream, Flush, request, verdict
  <2>2. out' \in Nat /\ passed' \in 0 .. out'
    BY <2>1, Shape
  <2> QED BY <2>1, <2>2, LeavesOnward, Runs DEF Onward
<1>4. CASE UpstreamFails \/ CopyContent
  <2>1. step = "fetching" /\ UNCHANGED <<pass, asked, win>> /\ outcome' = outcome
    BY <1>4 DEF UpstreamFails, CopyContent, request, span, verdict
  <2>2. /\ pass = "write" /\ at \in Entries /\ current = ContentPlace
        /\ ~Clipped(Size[at]).skip
    BY <2>1 DEF IInv, CursorOK, OutOK, Streams
  <2>3. Size[at] \in Nat
    BY <2>2, Layout
  <2>4. CASE UNCHANGED stream
    <3>1. sent' = sent /\ wrong' = wrong
      BY <2>4 DEF stream
    <3> QED BY <2>1, <3>1, Shape
  <2>5. CASE \E n \in 0 .. Requested - 1 : Hand(ContentPlace + Clipped(Size[at]).b, n)
    <3>1. PICK n \in 0 .. Kept(Size[at]) - 1 : Hand(current + Clipped(Size[at]).b, n)
      BY <2>2, <2>5 DEF Requested
    <3> QED BY <2>1, <2>2, <2>3, <3>1, PartAdds, Runs DEF Onward
  <2>6. CASE Hand(ContentPlace + Clipped(Size[at]).b, Kept(Size[at]))
    <3>1. Emit(current, Size[at])
      BY <2>2, <2>6 DEF Emit
    <3> QED BY <2>1, <2>3, <3>1, EmitAdds, Runs DEF Onward
  <2> QED BY <1>4, <2>4, <2>5, <2>6, Copied DEF UpstreamFails
<1>5. CASE Descriptor
  <2>1. /\ at \in Entries /\ step = "descriptor" /\ outcome' = outcome
        /\ Emit(current, DescriptorLen[at]) /\ UNCHANGED <<pass, asked, win>>
    BY <1>5 DEF Descriptor, request, verdict, IInv, CursorOK
  <2> QED BY <2>1, Layout, EmitAdds, Runs DEF Onward
<1>6. CASE Close
  <2>1. /\ step = "header" /\ EmitAndFlush(current, EndingLen[NEntries])
        /\ UNCHANGED <<pass, asked, win>> /\ outcome' = outcome
    BY <1>6, LastPlace, Shape DEF Close, request, verdict, IInv, CursorOK, Ending
  <2> QED BY <2>1, LastPlace, EndAdds, Runs DEF Onward
<1>7. CASE CloseUnheard
  <2>1. /\ step = "header" /\ UNCHANGED <<pass, asked, win>> /\ outcome' = outcome
        /\ sent' = sent /\ wrong' = wrong
    BY <1>7, EndingFits DEF CloseUnheard, request, stream, verdict
  <2> QED BY <2>1, Shape
<1> QED BY <1>1, <1>2, <1>3, <1>4, <1>5, <1>6, <1>7

\* archive.go:10-12 with an upstream that may fail: only the deferred Close ever hands
\* over a byte that has no place where it goes, until upstream sends another body than
\* was asked for.
THEOREM AbortMisplaces == Spec => OnlyTheAbortMisplaces
<1>1. Inv /\ [Next]_vars => [wrong' /\ ~wrong => step = "aborting" \/ ~exact']_vars
  <2> SUFFICES ASSUME Inv, [Next]_vars, step # "aborting", exact' PROVE wrong' = wrong
    OBVIOUS
  <2>0. IInv
    BY ExactBefore DEF Inv
  <2>1. CASE \/ Header \/ SkipContent \/ AskGap \/ AskUpstream \/ UpstreamFails
             \/ CopyContent \/ Descriptor \/ Close \/ CloseUnheard \/ WriteFails
    BY <2>0, <2>1, StreamEffect
  <2>2. ~Refused
    BY <2>0, NeverRefused
  <2>3. CASE Sized \/ Resume \/ Record \/ ClientGone \/ UNCHANGED vars
    BY <2>3 DEF Sized, StartWrite, Resume, Record, ClientGone, vars, stream
  <2>4. ~AbortingClose
    BY DEF AbortingClose
  <2> QED BY <2>1, <2>2, <2>3, <2>4 DEF Next
<1> QED BY <1>1, InvariantHolds, PTL DEF Spec, OnlyTheAbortMisplaces
-----------------------------------------------------------------------------
\* What the client of ArchiveStream asked for, holds, and was told.
Want == IF pass = "size" THEN 0 ELSE asked.e - asked.b + 1
Got == IF pass = "size" THEN 0 ELSE win.b - asked.b + sent
Complete == outcome # "none" /\ step = "done" /\ exact

\* What the abstract stream makes of a step of the writer.
LEMMA CountedStep ==
    ASSUME \/ Want' = Want /\ Got' = Got /\ Complete' = Complete
           \/ Want = 0 /\ Want' \in Nat \ {0} /\ Got' = Got /\ ~Complete /\ ~Complete'
           \/ /\ Want' = Want /\ ~Complete /\ ~Complete'
              /\ \/ Got' > Got /\ Got' <= Want
                 \/ Got' >= 0 /\ Got' <= Got
           \/ Want' = Want /\ Want # 0 /\ Got' = Want /\ Complete'
    PROVE  [Counted!Next]_(Counted!vars)
BY DEF Counted!Next, Counted!Ask, Counted!Receive, Counted!Resume, Counted!Complete,
       Counted!vars, Want, Got, Complete

\* In the write pass the client never holds more than it asked for.
LEMMA GotInWant ==
    IInv /\ pass = "write" =>
        /\ Want = asked.e - asked.b + 1 /\ Got = win.b - asked.b + sent
        /\ win.b \in Nat /\ win.e \in Nat /\ asked.b \in Nat /\ sent \in Nat
        /\ asked.e = win.e /\ asked.b <= win.b /\ win.b <= win.e
        /\ Want \in Nat \ {0} /\ Got \in Nat /\ Got <= Want
<1> SUFFICES ASSUME IInv, pass = "write"
             PROVE  /\ Want = asked.e - asked.b + 1 /\ Got = win.b - asked.b + sent
                    /\ win.b \in Nat /\ win.e \in Nat /\ asked.b \in Nat /\ sent \in Nat
                    /\ asked.e = win.e /\ asked.b <= win.b /\ win.b <= win.e
                    /\ Want \in Nat \ {0} /\ Got \in Nat /\ Got <= Want
  OBVIOUS
<1>1. /\ win.b \in Nat /\ win.e \in Nat /\ asked.b \in Nat /\ asked.b <= win.b
      /\ asked.e = win.e /\ win.b <= win.e
  BY Shape DEF IInv, WindowOK, TypeOK
<1>2. sent \in Nat /\ passed \in Nat /\ sent <= passed /\ passed <= win.e + 1 - win.b
  BY Shape DEF IInv, OutOK
<1> QED BY <1>1, <1>2 DEF Want, Got

\* Every step either leaves what the client holds alone, or is the one the abstract
\* stream takes there.
LEMMA StepRefines ==
    ASSUME IInv, IInv', exact, exact', [Next]_vars
    PROVE  [Counted!Next]_(Counted!vars)
<1>1. (IInv /\ pass = "write" =>
          Got = win.b - asked.b + sent /\ Got \in Nat /\ Got <= Want)'
  BY GotInWant, PTL
<1>2. pass \in {"size", "write"} /\ sent \in Nat
  BY Shape
\* The size pass hands the client nothing.
<1>3. CASE pass = "size" /\ pass' = "size"
  <2>1. ~Complete /\ ~Complete'
    BY <1>3 DEF Complete, IInv, VerdictOK
  <2> QED BY <1>3, <2>1, CountedStep DEF Want, Got
<1>4. ASSUME pass = "write", UNCHANGED <<pass, asked, win>>, sent' >= sent,
             ~Complete, ~Complete'
      PROVE  [Counted!Next]_(Counted!vars)
  <2>1. /\ Got = win.b - asked.b + sent /\ win.b \in Nat /\ asked.b \in Nat /\ Got \in Nat
    BY <1>4, GotInWant
  <2>2. Want' = Want /\ Got' = win.b - asked.b + sent' /\ Got' \in Nat /\ Got' <= Want
    BY <1>1, <1>4 DEF Want
  <2>3. sent' \in Nat
    BY DEF IInv, TypeOK
  <2>4. Got' >= Got
    BY <1>2, <1>4, <2>1, <2>2, <2>3
  <2> QED BY <1>4, <2>1, <2>2, <2>4, CountedStep
<1>5. ASSUME pass = "write" => sent' >= sent, UNCHANGED <<pass, asked, win>>,
             step \notin {"done", "failed"}, outcome' = outcome
      PROVE  [Counted!Next]_(Counted!vars)
  <2>1. ~Complete /\ ~Complete'
    BY <1>5 DEF Complete, IInv, VerdictOK
  <2> QED BY <1>2, <1>3, <1>4, <1>5, <2>1
<1>6. CASE \/ Header \/ SkipContent \/ AskGap \/ AskUpstream \/ UpstreamFails
           \/ CopyContent \/ Descriptor \/ Close \/ CloseUnheard \/ WriteFails
  BY <1>5, <1>6, StreamEffect
\* What the deferred Close adds arrives as long as it was announced.
<1>7. CASE AbortingClose
  <2>1. /\ UNCHANGED <<pass, asked, win>> /\ step = "aborting" /\ outcome' = outcome
    BY <1>7 DEF AbortingClose, request, verdict
  <2>2. pass = "write" /\ at \in Entries
    BY <1>2, <2>1 DEF IInv, WindowOK, CursorOK
  <2> QED BY <1>5, <1>7, <2>1, <2>2, AbortBounds
\* The client asks.
<1>8. CASE Sized
  <2>1. /\ pass = "size" /\ pass' = "write" /\ win' = asked' /\ sent' = 0
        /\ ~Complete /\ ~Complete'
    BY <1>8 DEF Sized, StartWrite, Fresh, Complete, IInv, VerdictOK
  <2>2. win'.b \in Nat /\ win'.e \in Nat /\ win'.b <= win'.e
    BY <2>1 DEF IInv, TypeOK, WindowOK
  <2>3. Want = 0 /\ Got = 0 /\ Want' = win'.e - win'.b + 1 /\ Got' = win'.b - win'.b + 0
    BY <2>1 DEF Want, Got
  <2>4. Want' \in Nat \ {0} /\ Got' = Got
    BY <2>2, <2>3
  <2> QED BY <2>1, <2>3, <2>4, CountedStep
\* The client asks for the rest, and may have lost what was on its way.
<1>9. CASE Resume
  <2>1. /\ outcome # "none" /\ pass' = pass /\ asked' = asked /\ sent' = 0
        /\ step = "failed" \/ sent < Announced
        /\ ~Complete'
    BY <1>9 DEF Resume, Fresh, Complete
  <2>2. pass = "write"
    BY <2>1 DEF IInv, VerdictOK
  <2>3. ~Complete
    <3>1. CASE step = "done"
      <4>1. sent = Announced
        BY <2>1, <2>2, <3>1, AllPassed DEF IInv, VerdictOK
      <4> QED BY <1>2, <2>1, <3>1, <4>1
    <3> QED BY <3>1 DEF Complete
  <2>4. PICK held \in 0 .. sent : win' = [win EXCEPT !.b = @ + held]
    BY <1>9 DEF Resume
  <2>5. /\ Got = win.b - asked.b + sent /\ win.b \in Nat /\ asked.b \in Nat
        /\ asked.b <= win.b /\ win \in [b : Nat, e : Nat]
    BY <2>2, GotInWant, Shape
  <2>6. held \in Nat /\ held <= sent /\ win'.b = win.b + held
    BY <1>2, <2>4, <2>5
  <2>7. Want' = Want /\ Got' = win'.b - asked.b + 0
    BY <2>1, <2>2 DEF Want, Got
  <2>8. Got' >= 0 /\ Got' <= Got
    BY <1>2, <2>5, <2>6, <2>7
  <2> QED BY <2>1, <2>3, <2>7, <2>8, CountedStep
\* The handler returns: what was announced has arrived, or the connection is gone.
<1>10. CASE Record
  <2>1. /\ pass = "write" /\ outcome = "none" /\ step \in {"done", "failed"}
        /\ UNCHANGED <<pass, asked, win, out, passed>>
    BY <1>10 DEF Record, request
  <2>2. passed \in Nat /\ ~Complete
    BY <2>1, Shape DEF Complete
  <2>3. CASE step' = "failed"
    <3>1. sent' >= sent
      BY <1>2, <1>10, <2>2, Shape DEF Record
    <3> QED BY <1>4, <2>1, <2>2, <2>3, <3>1 DEF Complete
  <2>4. CASE step' # "failed"
    <3>1. step' = "done" /\ step = "done" /\ sent' = passed
      BY <1>10, <2>1, <2>4 DEF Record
    <3>2. passed = win.e - win.b + 1
      BY <2>1, <3>1, AllPassed DEF Announced
    <3>3. /\ Want = asked.e - asked.b + 1 /\ Want # 0 /\ asked.e = win.e
          /\ win.b \in Nat /\ win.e \in Nat /\ asked.b \in Nat
      BY <2>1, GotInWant
    <3>4. Want' = Want /\ Got' = win.b - asked.b + sent'
      BY <2>1 DEF Want, Got
    <3>5. Got' = Want
      BY <3>1, <3>2, <3>3, <3>4
    <3>6. Complete'
      <4>1. outcome' \in Outcomes
        BY <1>10, OutcomeKnown DEF Record, IInv, TypeOK
      <4> QED BY <3>1, <4>1 DEF Complete, Outcomes
    <3> QED BY <3>3, <3>4, <3>5, <3>6, CountedStep
  <2> QED BY <2>3, <2>4
<1>11. CASE ClientGone \/ UNCHANGED vars
  <2>1. UNCHANGED <<pass, asked, win, step, sent, outcome, exact>>
    BY <1>11 DEF ClientGone, vars, request, writer, stream, verdict
  <2> QED BY <2>1, CountedStep DEF Want, Got, Complete
<1>12. ~Refused
  BY NeverRefused
<1> QED BY <1>6, <1>7, <1>8, <1>9, <1>10, <1>11, <1>12 DEF Next

\* Where upstream ends no body elsewhere than asked, none ends there.
LEMMA StaysExact == ASSUME ExactBodies, exact, [Next]_vars PROVE exact'
<1>1. CASE CopyContent
  <2>1. PICK body \in Bodies : exact' = (exact /\ body = Asked)
    BY <1>1 DEF CopyContent
  <2> QED BY <2>1, BodyExact, Zenon
<1>2. CASE Refused
  <2>1. PICK chunk \in Chunks : exact' = (exact /\ (step = "fetching" => chunk = Asked))
    BY <1>2 DEF Refused
  <2>2. step = "fetching" => Chunks = Bodies
    BY DEF Chunks
  <2> QED BY <2>1, <2>2, BodyExact, Zenon
<1>3. CASE ~CopyContent /\ ~Refused
  BY <1>3 DEF Next, vars, request, Header, SkipContent, AskGap, AskUpstream, UpstreamFails,
     Descriptor, Close, AbortingClose, CloseUnheard, Sized, StartWrite, WriteFails, Record,
     Resume, ClientGone
<1> QED BY <1>1, <1>2, <1>3

\* archive.go:10-12: responses, however they break off, add up to the window the
\* client asked for, and only a client that holds all of it is told it is complete.
\* The bodies upstream ends without an error have to be what was asked for; it may
\* refuse and break off as often as it likes.
THEOREM DeliversStream == ASSUME ExactBodies PROVE Spec => Delivers
<1>1. Init => exact /\ Counted!Init
  BY DEF Init, Counted!Init
<1>2. exact /\ [Next]_vars => exact'
  BY StaysExact
<1>3. Inv /\ exact => IInv
  BY DEF Inv
<1>4. IInv /\ IInv' /\ exact /\ exact' /\ [Next]_vars => [Counted!Next]_(Counted!vars)
  BY StepRefines
<1> QED BY <1>1, <1>2, <1>3, <1>4, InvariantHolds, PTL DEF Spec, Delivers, Counted!Spec
=============================================================================
