------------------------ MODULE ArchiveWriterProofs ------------------------
(***************************************************************************)
(* What both writers rest on: which bytes of a chunk rangeclip.Clip keeps  *)
(* and when fetch.Whole takes them for a whole file, how the part of the   *)
(* archive that lies in the window grows with the cursor, and how a        *)
(* response is classified.                                                 *)
(***************************************************************************)
EXTENDS ArchiveWriter, TLAPS

\* A chunk as the writers cut it, and a window parseRange or Size may ask for.
LegalChunk(cur, l) == cur \in Nat /\ l \in Nat

\* Clip (rangeclip.go:11-27) keeps of every chunk exactly the bytes inside the
\* window: none is lost at a boundary and none beyond it is emitted.
THEOREM ClipExact ==
    ASSUME NEW cur, NEW l, NEW begin \in Int, NEW end \in Int,
           LegalChunk(cur, l), LegalWindow(begin, end)
    PROVE  Emitted(cur, begin, end, l)
              = {k \in cur .. cur + l - 1 : InWindow(begin, end, k)}
<1> DEFINE c == Clip(cur, begin, end, l)
<1>1. cur \in Nat /\ l \in Nat /\ begin >= 0 /\ (end = -1 \/ end >= begin)
  BY DEF LegalChunk, LegalWindow, Unbounded
<1>2. CASE Outside(cur, begin, end, l)
  <2>1. c.skip
    BY <1>2 DEF Clip
  <2>2. \A k \in cur .. cur + l - 1 : ~InWindow(begin, end, k)
    BY <1>1, <1>2 DEF Outside, InWindow, Unbounded
  <2> QED
    BY <2>1, <2>2 DEF Emitted
<1>3. CASE ~Outside(cur, begin, end, l)
  <2>1. /\ ~c.skip
        /\ c.b = IF CutsLeft(cur, begin, l) THEN begin - cur ELSE 0
        /\ c.e = IF CutsRight(cur, end, l) THEN end - cur + 1 ELSE l
    BY <1>3 DEF Clip
  <2>2. ASSUME NEW k \in Int
        PROVE  (cur + c.b <= k /\ k <= cur + c.e - 1)
                  <=> (cur <= k /\ k <= cur + l - 1 /\ InWindow(begin, end, k))
    <3> HIDE DEF c
    <3> QED
      BY <1>1, <1>3, <2>1 DEF Outside, CutsLeft, CutsRight, InWindow, Unbounded
  <2>3. c.b \in Int /\ c.e \in Int
    <3> HIDE DEF c
    <3> QED
      BY <1>1, <2>1
  <2>4. Emitted(cur, begin, end, l) = (cur + c.b) .. (cur + c.e - 1)
    BY <2>1 DEF Emitted
  <2> HIDE DEF c
  <2> QED
    BY <1>1, <2>2, <2>3, <2>4
<1> QED
  BY <1>2, <1>3

\* The fetch window both writers derive from Clip's answer (writer.go:491-494 in
\* ziphttp, 125-127 in tarhttp) denotes the entire file to fetch.Whole exactly
\* when the archive window keeps all of it, also when the window ends on the
\* file's last byte: a prefetched body is then all the writer wants.
THEOREM WholeExact ==
    ASSUME NEW cur, NEW l, NEW begin \in Int, NEW end \in Int,
           LegalChunk(cur, l), LegalWindow(begin, end),
           ~Clip(cur, begin, end, l).skip
    PROVE  LET c == Clip(cur, begin, end, l)
           IN  Whole(c.b, IF c.partial THEN c.e ELSE Unbounded, l)
                  <=> \A k \in cur .. cur + l - 1 : InWindow(begin, end, k)
<1> DEFINE c == Clip(cur, begin, end, l)
<1>1. cur \in Nat /\ l \in Nat /\ begin >= 0 /\ (end = -1 \/ end >= begin)
  BY DEF LegalChunk, LegalWindow, Unbounded
<1>2. ~Outside(cur, begin, end, l)
  BY DEF Clip
<1>3. /\ c.partial = (CutsLeft(cur, begin, l) \/ CutsRight(cur, end, l))
      /\ c.b = IF CutsLeft(cur, begin, l) THEN begin - cur ELSE 0
      /\ c.e = IF CutsRight(cur, end, l) THEN end - cur + 1 ELSE l
  BY <1>2 DEF Clip
<1> HIDE DEF c
<1>4. CASE CutsLeft(cur, begin, l)
  <2>1. c.b # 0 /\ cur \in cur .. cur + l - 1 /\ ~InWindow(begin, end, cur)
    BY <1>1, <1>3, <1>4 DEF CutsLeft, InWindow
  <2> QED
    BY <2>1 DEF Whole, c
<1>5. CASE ~CutsLeft(cur, begin, l) /\ CutsRight(cur, end, l)
  <2>4. c.partial
    BY <1>3, <1>5
  <2>5. c.b = 0 /\ c.e = end - cur + 1
    BY <1>3, <1>5
  <2>6. cur <= end
    BY <1>5 DEF CutsRight
  <2>1. c.partial /\ c.b = 0 /\ c.e = end - cur + 1 /\ end # -1 /\ cur <= end
    BY <1>1, <2>4, <2>5, <2>6
  <2>2. cur >= begin
    BY <1>1, <1>2, <1>5 DEF CutsLeft, Outside
  <2>3. c.e = l <=> \A k \in cur .. cur + l - 1 : InWindow(begin, end, k)
    <3>1. CASE c.e = l
      BY <1>1, <2>1, <2>2, <3>1 DEF InWindow, Unbounded
    <3>2. CASE c.e # l
      <4>1. /\ cur + l - 1 \in cur .. cur + l - 1
            /\ ~InWindow(begin, end, cur + l - 1)
        BY <1>1, <1>5, <2>1, <3>2 DEF CutsRight, InWindow, Unbounded
      <4> QED
        BY <3>2, <4>1
    <3> QED
      BY <3>1, <3>2
  <2>7. Whole(c.b, c.e, l) <=> c.e = l
    BY <1>1, <2>1 DEF Whole, Unbounded
  <2> QED
    BY <2>1, <2>3, <2>7 DEF c
<1>6. CASE ~CutsLeft(cur, begin, l) /\ ~CutsRight(cur, end, l)
  <2>1. ~c.partial /\ c.b = 0
    BY <1>3, <1>6
  <2>2. \A k \in cur .. cur + l - 1 : InWindow(begin, end, k)
    BY <1>1, <1>2, <1>6 DEF CutsLeft, CutsRight, Outside, InWindow, Unbounded
  <2> QED
    BY <2>1, <2>2 DEF Whole, c
<1> QED
  BY <1>4, <1>5, <1>6
-----------------------------------------------------------------------------

\* How many of the first c bytes of the archive lie in a window.
Held(c, w) == IF c <= w.b THEN 0
              ELSE IF c <= w.e + 1 THEN c - w.b ELSE w.e + 1 - w.b

\* The writer is running: what was handed over is what lies between the start of
\* the window and the cursor.
Running ==
    /\ pass \in {"size", "write"} /\ current \in Nat
    /\ out \in Nat /\ passed \in 0 .. out /\ sent \in 0 .. passed /\ wrong \in BOOLEAN
    /\ pass = "size" => win.b = 0 /\ win.e = Unbounded
    /\ pass = "write" => /\ win \in [b : Nat, e : Nat] /\ win.b <= win.e
                         /\ out = Held(current, win)

\* Nothing is passed on that was not handed over, nothing sent that was not passed
\* on, and nothing sent is taken back.
Onward ==
    /\ out' \in Nat /\ passed' \in 0 .. out' /\ sent' \in 0 .. passed'
    /\ pass = "write" => sent' >= sent

\* The bodies that end without an error are what was asked for, whatever else upstream
\* does.
ExactBodies == Upstream \cap {"short", "long", "whole"} = {}
-----------------------------------------------------------------------------
\* What the window keeps of a chunk is what the chunk adds to the part of the
\* archive inside the window, and it begins where the output stands.
LEMMA ClipAdds ==
    ASSUME NEW c \in Nat, NEW l \in Nat, NEW w \in [b : Nat, e : Nat], w.b <= w.e
    PROVE  LET p == Clip(c, w.b, w.e, l)
           IN  /\ p.skip => Held(c + l, w) = Held(c, w)
               /\ ~p.skip =>
                     /\ p.b \in Nat /\ p.e - p.b \in Nat
                     /\ Held(c + l, w) = Held(c, w) + (p.e - p.b)
                     /\ p.e - p.b > 0 => c + p.b = w.b + Held(c, w)
<1> DEFINE p == Clip(c, w.b, w.e, l)
<1>1. w.b \in Nat /\ w.e \in Nat
  OBVIOUS
<1>2. CASE Outside(c, w.b, w.e, l)
  <2>1. p.skip
    BY <1>2 DEF Clip
  <2>2. Held(c + l, w) = Held(c, w)
    BY <1>1, <1>2 DEF Outside, Held, Unbounded
  <2> HIDE DEF p
  <2> QED BY <2>1, <2>2 DEF p
<1>3. CASE ~Outside(c, w.b, w.e, l)
  <2>1. /\ ~p.skip
        /\ p.b = IF CutsLeft(c, w.b, l) THEN w.b - c ELSE 0
        /\ p.e = IF CutsRight(c, w.e, l) THEN w.e - c + 1 ELSE l
    BY <1>3 DEF Clip
  <2>2. c + l > w.b /\ c <= w.e
    BY <1>1, <1>3 DEF Outside, Unbounded
  <2> HIDE DEF p
  <2>3. /\ p.b \in Nat /\ p.e - p.b \in Nat
        /\ Held(c + l, w) = Held(c, w) + (p.e - p.b)
        /\ c + p.b = w.b + Held(c, w)
    BY <1>1, <2>1, <2>2 DEF CutsLeft, CutsRight, Held
  <2> QED BY <2>1, <2>3 DEF p
<1> QED BY <1>2, <1>3

\* The part of the archive in the window grows to the window and no further.
LEMMA HeldBounds ==
    ASSUME NEW c \in Nat, NEW w \in [b : Nat, e : Nat], w.b <= w.e
    PROVE  /\ Held(c, w) \in Nat /\ Held(c, w) <= w.e + 1 - w.b
           /\ c > w.e => Held(c, w) = w.e + 1 - w.b
           /\ c = 0 => Held(c, w) = 0
<1>1. w.b \in Nat /\ w.e \in Nat
  OBVIOUS
<1> QED BY <1>1 DEF Held

\* With the window open everything of a chunk is kept.
LEMMA ClipAll ==
    ASSUME NEW c \in Nat, NEW l \in Nat
    PROVE  LET p == Clip(c, 0, Unbounded, l)
           IN  /\ p.skip => l = 0
               /\ ~p.skip => p.b = 0 /\ p.e = l
BY DEF Clip, Outside, CutsLeft, CutsRight, Unbounded

\* The bytes the window keeps of the chunk at the cursor: where they belong and
\* what they add.
LEMMA ChunkAdds ==
    ASSUME Running, NEW l \in Nat
    PROVE  /\ Clipped(l).skip =>
                 /\ pass = "size" => l = 0
                 /\ pass = "write" => out = Held(current + l, win)
           /\ ~Clipped(l).skip =>
                 /\ Clipped(l).b \in Nat /\ Clipped(l).e - Clipped(l).b \in Nat
                 /\ pass = "size" => Clipped(l).b = 0 /\ Clipped(l).e = l
                 /\ pass = "write" =>
                       /\ out + (Clipped(l).e - Clipped(l).b) = Held(current + l, win)
                       /\ Clipped(l).e - Clipped(l).b > 0 =>
                             current + Clipped(l).b = win.b + out
<1>1. current \in Nat /\ pass \in {"size", "write"}
  BY DEF Running
<1>2. CASE pass = "size"
  <2>1. Clipped(l) = Clip(current, 0, Unbounded, l)
    BY <1>2 DEF Clipped, Running
  <2>2. /\ Clipped(l).skip => l = 0
        /\ ~Clipped(l).skip => Clipped(l).b = 0 /\ Clipped(l).e = l
    BY <1>1, <2>1, ClipAll
  <2> QED BY <1>2, <2>2
<1>3. CASE pass = "write"
  <2>1. win \in [b : Nat, e : Nat] /\ win.b <= win.e /\ out = Held(current, win)
    BY <1>3 DEF Running
  <2>2. Clipped(l) = Clip(current, win.b, win.e, l)
    BY DEF Clipped
  <2>3. /\ Clipped(l).skip => Held(current + l, win) = Held(current, win)
        /\ ~Clipped(l).skip =>
              /\ Clipped(l).b \in Nat /\ Clipped(l).e - Clipped(l).b \in Nat
              /\ Held(current + l, win) = Held(current, win) + (Clipped(l).e - Clipped(l).b)
              /\ Clipped(l).e - Clipped(l).b > 0 =>
                    current + Clipped(l).b = win.b + Held(current, win)
    BY <1>1, <2>1, <2>2, ClipAdds
  <2> QED BY <1>3, <2>1, <2>3
<1> QED BY <1>1, <1>2, <1>3

LEMMA BodyExact ==
    ASSUME ExactBodies PROVE Bodies = {Asked}
BY DEF ExactBodies, Bodies

LEMMA LeavesOnward ==
    ASSUME Running, out' \in Nat, passed' \in 0 .. out', Leaves
    PROVE  Onward /\ (pass = "write" => passed' - sent' <= NetBuf)
<1>1. passed \in Nat /\ sent \in Nat /\ passed' \in Nat /\ pass \in {"size", "write"}
  BY DEF Running
<1>2. CASE pass = "size"
  <2>1. sent' = 0
    BY <1>2 DEF Leaves
  <2> QED BY <1>1, <1>2, <2>1 DEF Onward
<1>3. CASE pass = "write"
  <2>1. sent' \in sent .. passed' /\ passed' - sent' <= NetBuf
    BY <1>3 DEF Leaves
  <2> QED BY <1>1, <1>3, <2>1 DEF Onward
<1> QED BY <1>1, <1>2, <1>3

\* Bytes handed to the buffered writer go the way of all.
LEMMA HandOnward ==
    ASSUME Running, NEW place, NEW n \in Nat, Hand(place, n)
    PROVE  out' = out + n /\ Onward
<1>1. out \in Nat /\ passed \in 0 .. out
  BY DEF Running
<1>2. out' = out + n /\ passed' \in passed .. out' /\ Leaves
  BY DEF Hand, Takes
<1>3. out' \in Nat /\ passed' \in 0 .. out'
  BY <1>1, <1>2
<1> QED BY <1>2, <1>3, LeavesOnward

\* A chunk at the cursor goes out as far as the window wants it.
LEMMA EmitAdds ==
    ASSUME Running, NEW l \in Nat, Emit(current, l)
    PROVE  /\ Onward /\ wrong' = wrong
           /\ pass = "size" => out' = out + l
           /\ pass = "write" => out' = Held(current + l, win)
<1>1. /\ out \in Nat /\ passed \in 0 .. out /\ sent \in 0 .. passed
      /\ pass \in {"size", "write"} /\ wrong \in BOOLEAN
  BY DEF Running
<1>3. CASE Clipped(l).skip
  <2>1. out' = out /\ passed' = passed /\ sent' = sent /\ wrong' = wrong
    BY <1>3 DEF Emit, stream
  <2>2. Onward
    BY <1>1, <2>1 DEF Onward
  <2> QED BY <1>1, <1>3, <2>1, <2>2, ChunkAdds
<1>4. CASE ~Clipped(l).skip
  <2> DEFINE n == Clipped(l).e - Clipped(l).b
             there == current + Clipped(l).b
  <2>1. Hand(there, n)
    BY <1>4 DEF Emit, Kept
  <2>2. /\ n \in Nat
        /\ pass = "size" => n = l
        /\ pass = "write" => out + n = Held(current + l, win)
        /\ pass = "write" /\ n > 0 => there = win.b + out
    <3>1. pass = "size" => n = l - 0
      BY <1>4, ChunkAdds
    <3> QED BY <1>4, <3>1, ChunkAdds
  <2>3. /\ out' = out + n
        /\ wrong' = (wrong \/ (pass = "write" /\ n > 0 /\ there # win.b + out))
    BY <2>1 DEF Hand, Takes
  <2> HIDE DEF n, there
  <2>4. Onward
    BY <2>1, <2>2, HandOnward
  <2>5. wrong' = wrong
    BY <1>1, <2>2, <2>3
  <2> QED BY <1>1, <2>2, <2>3, <2>4, <2>5
<1> QED BY <1>3, <1>4

\* The ending goes out and the buffered writer is flushed.
LEMMA EndAdds ==
    ASSUME Running, NEW l \in Nat, EmitAndFlush(current, l)
    PROVE  /\ Onward /\ passed' = out' /\ wrong' = wrong
           /\ pass = "size" => out' = out + l
           /\ pass = "write" => out' = Held(current + l, win)
<1> DEFINE n == Kept(l)
           there == current + Clipped(l).b
<1>1. /\ out' = out + n /\ passed' = out' /\ Leaves
      /\ wrong' = (wrong \/ (pass = "write" /\ n > 0 /\ there # win.b + out))
  BY DEF EmitAndFlush, Takes
<1>2. /\ n \in Nat
      /\ pass = "size" => n = l
      /\ pass = "write" => out + n = Held(current + l, win)
      /\ pass = "write" /\ n > 0 => there = win.b + out
  <2>1. CASE Clipped(l).skip
    <3>1. n = 0
      BY <2>1 DEF Kept
    <3>2. out \in Nat
      BY DEF Running
    <3> HIDE DEF n, there
    <3>3. pass = "write" => out = Held(current + l, win)
      BY <2>1, ChunkAdds
    <3>4. pass = "size" => l = 0
      BY <2>1, ChunkAdds
    <3> QED BY <3>1, <3>2, <3>3, <3>4
  <2>2. CASE ~Clipped(l).skip
    <3>1. n = Clipped(l).e - Clipped(l).b
      BY <2>2 DEF Kept
    <3>2. pass = "size" => Clipped(l).e - Clipped(l).b = l - 0
      BY <2>2, ChunkAdds
    <3> HIDE DEF n
    <3> QED BY <2>2, <3>1, <3>2, ChunkAdds
  <2> QED BY <2>1, <2>2
<1> HIDE DEF n, there
<1>3. out \in Nat /\ wrong \in BOOLEAN
  BY DEF Running
<1>4. out' \in Nat /\ passed' \in 0 .. out' /\ wrong' = wrong
  BY <1>1, <1>2, <1>3
<1> QED BY <1>1, <1>2, <1>4, LeavesOnward

\* A body that breaks off leaves a part of its chunk behind, in its place.
LEMMA PartAdds ==
    ASSUME Running, pass = "write", NEW l \in Nat, ~Clipped(l).skip,
           NEW n \in 0 .. Kept(l) - 1, Hand(current + Clipped(l).b, n)
    PROVE  Onward /\ wrong' = wrong /\ out' <= win.e + 1 - win.b
<1> DEFINE r == Clipped(l).e - Clipped(l).b
           there == current + Clipped(l).b
<1>1. /\ r \in Nat /\ out + r = Held(current + l, win)
      /\ r > 0 => there = win.b + out
  BY ChunkAdds
<1>2. /\ win \in [b : Nat, e : Nat] /\ win.b <= win.e /\ current + l \in Nat
      /\ out \in Nat /\ wrong \in BOOLEAN
  BY DEF Running
<1>3. out + r <= win.e + 1 - win.b
  <2>1. Held(current + l, win) <= win.e + 1 - win.b
    BY <1>2, HeldBounds
  <2> HIDE DEF r
  <2> QED BY <1>1, <2>1
<1>4. /\ out' = out + n
      /\ wrong' = (wrong \/ (pass = "write" /\ n > 0 /\ there # win.b + out))
  BY DEF Hand, Takes
<1>5. n \in 0 .. r - 1
  BY DEF Kept
<1> HIDE DEF r, there
<1>6. n \in Nat /\ n <= r /\ r > 0
  BY <1>1, <1>5
<1>7. wrong' = wrong
  BY <1>1, <1>2, <1>4, <1>6
<1>8. win.b \in Nat /\ win.e \in Nat
  BY <1>2
<1>9. Onward
  BY <1>6, HandOnward
<1> QED BY <1>1, <1>2, <1>3, <1>4, <1>6, <1>7, <1>8, <1>9

\* No chunk at the cursor overruns what was announced.
LEMMA ChunkFits ==
    ASSUME Running, pass = "write", NEW l \in Nat
    PROVE  out + Kept(l) <= Announced
<1>1. /\ win \in [b : Nat, e : Nat] /\ win.b <= win.e /\ win.b \in Nat /\ win.e \in Nat
      /\ current \in Nat /\ current + l \in Nat /\ out \in Nat
  BY DEF Running
<1>2. out + Kept(l) = Held(current + l, win)
  <2>1. CASE Clipped(l).skip
    <3>1. Kept(l) = 0 /\ out = Held(current + l, win)
      BY <2>1, ChunkAdds DEF Kept
    <3> QED BY <1>1, <3>1
  <2>2. CASE ~Clipped(l).skip
    BY <2>2, ChunkAdds DEF Kept
  <2> QED BY <2>1, <2>2
<1>3. Held(current + l, win) <= win.e + 1 - win.b
  BY <1>1, HeldBounds
<1> QED BY <1>1, <1>2, <1>3 DEF Announced

\* archiveOutcome says ok only where there was no error, error only of what neither
\* the client nor upstream has done, and blames upstream only while the client is
\* there.
LEMMA OutcomeKnown ==
    ASSUME NEW g \in BOOLEAN, NEW e \in {"nil", "write", "length", "fetch", "reset"}
    PROVE  /\ ArchiveOutcome(g, e) \in Outcomes
           /\ ArchiveOutcome(g, e) = "error" => e = "length"
           /\ ArchiveOutcome(g, e) = "ok" <=> e = "nil"
           /\ ArchiveOutcome(g, e) = "upstream_error" => e = "fetch" /\ ~g
           /\ ArchiveOutcome(g, e) = "client_gone" => g \/ e \in {"write", "reset"}
<1>1. CASE e = "nil"
  BY <1>1 DEF ArchiveOutcome, Outcomes
<1>2. CASE e # "nil" /\ (g \/ e \in {"write", "reset"})
  <2>1. ArchiveOutcome(g, e) = "client_gone"
    BY <1>2 DEF ArchiveOutcome
  <2> QED BY <1>2, <2>1 DEF Outcomes
<1>3. CASE ~g /\ e = "fetch"
  <2>1. ArchiveOutcome(g, e) = "upstream_error"
    BY <1>3 DEF ArchiveOutcome
  <2> QED BY <1>3, <2>1 DEF Outcomes
<1>4. CASE ~g /\ e = "length"
  <2>1. ArchiveOutcome(g, e) = "error"
    BY <1>4 DEF ArchiveOutcome
  <2> QED BY <1>4, <2>1 DEF Outcomes
<1> QED BY <1>1, <1>2, <1>3, <1>4
=============================================================================
