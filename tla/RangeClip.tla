----------------------------- MODULE RangeClip -----------------------------
(***************************************************************************)
(* The byte-window arithmetic both archive writers share                   *)
(* (internal/rangeclip/rangeclip.go) and the test a fetch window is put to *)
(* before a prefetched buffer may answer it (internal/fetch/fetch.go).     *)
(*                                                                         *)
(* A writer regenerates the whole archive as consecutive chunks and emits  *)
(* of each chunk the part inside the requested inclusive window            *)
(* [begin, end]; end = Unbounded leaves the window open on the right.      *)
(***************************************************************************)
EXTENDS Integers

Unbounded == -1

\* The chunk of length l at offset current lies outside the window.
Outside(current, begin, end, l) ==
    \/ current + l <= begin
    \/ current > end /\ end # Unbounded

CutsLeft(current, begin, l) == current + l > begin /\ current < begin

CutsRight(current, end, l) == current + l > end /\ current <= end

\* rangeclip.Clip: the caller emits chunk[b:e) unless skip.
Clip(current, begin, end, l) ==
    IF Outside(current, begin, end, l)
    THEN [partial |-> TRUE, skip |-> TRUE, b |-> 0, e |-> l]
    ELSE [partial |-> CutsLeft(current, begin, l) \/ CutsRight(current, end, l),
          skip    |-> FALSE,
          b       |-> IF CutsLeft(current, begin, l) THEN begin - current ELSE 0,
          e       |-> IF CutsRight(current, end, l) THEN end - current + 1 ELSE l]

\* fetch.Whole: the window [begin, end) of a file denotes the entire file.
Whole(begin, end, size) == begin = 0 /\ (end = Unbounded \/ end = size)
-----------------------------------------------------------------------------
\* What a caller emits of a chunk, as archive offsets: the reference reading of
\* Clip's answer, and the intersection it ought to be.
Emitted(current, begin, end, l) ==
    LET c == Clip(current, begin, end, l)
    IN  IF c.skip THEN {} ELSE (current + c.b) .. (current + c.e - 1)

InWindow(begin, end, k) == begin <= k /\ (end = Unbounded \/ k <= end)

\* The windows a caller may ask for: parseRange's, and the open one of Size.
LegalWindow(begin, end) == begin >= 0 /\ (end = Unbounded \/ end >= begin)
=============================================================================
