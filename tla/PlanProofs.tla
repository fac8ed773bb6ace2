----------------------------- MODULE PlanProofs -----------------------------
(***************************************************************************)
(* What ServeHTTP makes of one request, for every request and torrent: the *)
(* window of its Range header (no archive is empty: both formats end in a  *)
(* trailer), the files it selects, the folders in front of them, the size, *)
(* and the ETag.                                                           *)
(***************************************************************************)
EXTENDS Pod, FiniteSetTheorems, WellFoundedInduction, TLAPS

(* The Range header: web.go:124-174. *)

LEMMA SmallerIs ==
    ASSUME NEW a \in Int, NEW b \in Int
    PROVE  /\ Smaller(a, b) \in {a, b}
           /\ Smaller(a, b) <= a /\ Smaller(a, b) <= b
BY DEF Smaller

\* Numbers that an int64 holds.
LEMMA NumbersFit ==
    ASSUME NEW h \in Headers, Fits(h)
    PROVE  /\ h.first \in Int => h.first <= MaxInt
           /\ h.last \in Int => -MaxInt - 1 <= h.last
<1>1. ParseInt(h.first) = h.first /\ ParseInt(h.last) = h.last
  BY DEF Fits, Parsed, Headers
<1> QED BY <1>1, SideAssumption, MaxIntAssumption DEF ParseInt

\* A header that names no single range, and is not refused in haste, is ignored.
LEMMA IgnoredExact ==
    ASSUME NEW size, NEW h, ~WellFormed(h), ~Hasty(h, size)
    PROVE  Exact(h, size, Ignored(size))
<1> DEFINE p == Ignored(size)
<1>1. p.begin = 0 /\ p.end = size - 1 /\ p.status = 200 /\ p.status # 206
  BY DEF Ignored
<1> QED BY <1>1, Zenon DEF Exact

\* A suffix of n bytes is the whole archive where n is larger.
LEMMA SuffixExact ==
    ASSUME NEW size \in Nat \ {0}, NEW h \in Headers,
           h.unit = "bytes", ~h.comma, h.dash, h.first = Empty, Fits(h)
    PROVE  Exact(h, size, ParseSuffix(h.last, size))
<1>1. h.last \in Int \cup {Empty, Malformed} BY DEF Headers
<1>2. CASE h.last \in {Empty, Malformed}
  <2>1. ParseSuffix(h.last, size) = Ignored(size)
    <3>1. h.last \notin Int BY <1>2, SideAssumption
    <3> QED BY <1>2, <3>1 DEF ParseSuffix
  <2>2. ~WellFormed(h) /\ ~Hasty(h, size)
    BY <1>2, SideAssumption DEF WellFormed, Hasty
  <2> QED BY <2>1, <2>2, IgnoredExact
<1>3. CASE h.last \in Int /\ h.last <= 0
  <2>1. ParseSuffix(h.last, size) = Unsatisfiable(size)
    BY <1>3, SideAssumption DEF ParseSuffix
  <2>2. Wanted(h, size) = {}
    BY <1>3 DEF Wanted
  <2>3. ~WellFormed(h) => Hasty(h, size)
    BY <1>3, NumbersFit, MaxIntAssumption DEF WellFormed, Hasty
  <2> QED BY <2>1, <2>2, <2>3 DEF Exact, Unsatisfiable
<1>4. CASE h.last \in Int /\ h.last > 0
  <2> DEFINE begin == size - Smaller(h.last, size)
  <2>1. ParseSuffix(h.last, size) = Part(begin, size - 1)
    BY <1>4, SideAssumption DEF ParseSuffix
  <2>2. begin \in Int /\ begin >= 0 /\ begin < size /\ begin >= size - h.last
        /\ (begin = 0 \/ begin = size - h.last)
    BY <1>4, SmallerIs
  <2>3. Wanted(h, size) = begin .. size - 1
    BY <1>4, <2>2 DEF Wanted
  <2>4. begin \in begin .. size - 1
    BY <2>2
  <2>5. WellFormed(h)
    BY <1>4 DEF WellFormed
  <2> HIDE DEF begin
  <2> QED BY <2>1, <2>3, <2>4, <2>5 DEF Exact, Part
<1> QED BY <1>1, <1>2, <1>3, <1>4

\* An end beyond the archive is its last byte; one in front of the beginning
\* makes the header one to be ignored.
LEMMA FromExact ==
    ASSUME NEW size \in Nat \ {0}, NEW h \in Headers,
           h.unit = "bytes", ~h.comma, h.dash, h.first # Empty, Fits(h)
    PROVE  Exact(h, size, ParseFrom(h.first, h.last, size))
<1>1. h.first \in Nat \/ h.first = Malformed BY DEF Headers
<1>2. h.last \in Int \cup {Empty, Malformed} BY DEF Headers
<1>3. CASE h.first = Malformed
  <2>1. ParseFrom(h.first, h.last, size) = Ignored(size)
    <3>1. h.first \notin Int BY <1>3, SideAssumption
    <3> QED BY <1>3, <3>1 DEF ParseFrom
  <2>2. ~WellFormed(h) /\ ~Hasty(h, size)
    BY <1>3, SideAssumption DEF WellFormed, Hasty
  <2> QED BY <2>1, <2>2, IgnoredExact
<1>4. CASE h.first \in Nat /\ h.first >= size
  <2>1. ParseFrom(h.first, h.last, size) = Unsatisfiable(size)
    BY <1>4, SideAssumption DEF ParseFrom
  <2>2. Wanted(h, size) = {}
    BY <1>4, SideAssumption DEF Wanted
  <2>3. Hasty(h, size)
    BY <1>4, NumbersFit, MaxIntAssumption DEF Hasty
  <2> QED BY <2>1, <2>2, <2>3 DEF Exact, Unsatisfiable
<1>5. CASE h.first \in Nat /\ h.first < size /\ h.last = Empty
  <2>1. ParseFrom(h.first, h.last, size) = Part(h.first, size - 1)
    BY <1>5, SideAssumption DEF ParseFrom
  <2>2. Wanted(h, size) = h.first .. size - 1
    BY <1>5, SideAssumption DEF Wanted
  <2>3. h.first \in h.first .. size - 1
    BY <1>5
  <2>4. WellFormed(h)
    BY <1>5 DEF WellFormed
  <2> QED BY <2>1, <2>2, <2>3, <2>4 DEF Exact, Part
<1>6. CASE h.first \in Nat /\ h.first < size /\ h.last \in Int /\ h.last >= h.first
  <2> DEFINE end == Smaller(h.last, size - 1)
  <2>1. ParseFrom(h.first, h.last, size) = Part(h.first, end)
    BY <1>6, SideAssumption DEF ParseFrom
  <2>2. end \in Int /\ end >= h.first /\ end < size /\ end <= h.last
        /\ (end = h.last \/ end = size - 1)
    BY <1>6, SmallerIs
  <2>3. Wanted(h, size) = h.first .. end
    BY <1>6, <2>2, SideAssumption DEF Wanted
  <2>4. h.first \in h.first .. end
    BY <1>6, <2>2
  <2>5. WellFormed(h)
    BY <1>6 DEF WellFormed
  <2> HIDE DEF end
  <2> QED BY <2>1, <2>3, <2>4, <2>5 DEF Exact, Part
<1>7. CASE /\ h.first \in Nat /\ h.first < size
           /\ (h.last = Malformed \/ (h.last \in Int /\ h.last < h.first))
  <2>1. ParseFrom(h.first, h.last, size) = Ignored(size)
    BY <1>7, SideAssumption DEF ParseFrom
  <2>2. ~WellFormed(h) /\ ~Hasty(h, size)
    BY <1>7, SideAssumption DEF WellFormed, Hasty
  <2> QED BY <2>1, <2>2, IgnoredExact
<1>8. \/ h.first = Malformed
      \/ h.first \in Nat /\ h.first >= size
      \/ /\ h.first \in Nat /\ h.first < size
         /\ \/ h.last \in {Empty, Malformed}
            \/ h.last \in Int /\ h.last < h.first
            \/ h.last \in Int /\ h.last >= h.first
  BY <1>1, <1>2
<1> QED BY <1>3, <1>4, <1>5, <1>6, <1>7, <1>8, Zenon

\* The parts of a header whose numbers an int64 holds.
LEMMA PartsExact ==
    ASSUME NEW size \in Nat \ {0}, NEW h \in Headers, Fits(h)
    PROVE  Exact(h, size, ParseParts(h, size))
<1>1. CASE h.unit # "bytes" \/ h.comma \/ ~h.dash
  <2>1. ParseParts(h, size) = Ignored(size)
    BY <1>1 DEF ParseParts
  <2>2. ~WellFormed(h) /\ ~Hasty(h, size)
    BY <1>1 DEF WellFormed, Hasty
  <2> QED BY <2>1, <2>2, IgnoredExact
<1>2. CASE h.unit = "bytes" /\ ~h.comma /\ h.dash /\ h.first = Empty
  <2>1. ParseParts(h, size) = ParseSuffix(h.last, size)
    BY <1>2 DEF ParseParts
  <2> QED BY <1>2, <2>1, SuffixExact
<1>3. CASE h.unit = "bytes" /\ ~h.comma /\ h.dash /\ h.first # Empty
  <2>1. ParseParts(h, size) = ParseFrom(h.first, h.last, size)
    BY <1>3 DEF ParseParts
  <2> QED BY <1>3, <2>1, FromExact
<1> QED BY <1>1, <1>2, <1>3

\* What ParseInt leaves of a header is one whose numbers an int64 holds, refused in
\* haste like the header; if it is not the header itself, it is malformed.
LEMMA ParsedFits ==
    ASSUME NEW h \in Headers
    PROVE  /\ Parsed(h) \in Headers /\ Fits(Parsed(h))
           /\ ~Fits(h) => ~WellFormed(Parsed(h))
           /\ \A size \in Nat : Hasty(Parsed(h), size) <=> Hasty(h, size)
<1> DEFINE q == Parsed(h)
<1>1. /\ h.first \in Nat \cup {Empty, Malformed} /\ h.last \in Int \cup {Empty, Malformed}
      /\ h = [unit |-> h.unit, comma |-> h.comma, dash |-> h.dash,
              first |-> h.first, last |-> h.last]
  BY DEF Headers
<1>2. \A s : ParseInt(s) \in {s, Malformed} /\ ParseInt(ParseInt(s)) = ParseInt(s)
  <2>1. \A s : ParseInt(s) = s \/ ParseInt(s) = Malformed
    BY Zenon DEF ParseInt
  <2>2. ParseInt(Malformed) = Malformed
    BY Zenon DEF ParseInt
  <2> HIDE DEF ParseInt
  <2> QED BY <2>1, <2>2
<1>3. q = [unit |-> h.unit, comma |-> h.comma, dash |-> h.dash,
           first |-> ParseInt(h.first), last |-> ParseInt(h.last)]
  BY DEF Parsed
<1>4. q \in Headers
  BY <1>1, <1>2, <1>3 DEF Headers
<1>5. Parsed(q) = q
  BY <1>2, <1>3 DEF Parsed
<1>6. ASSUME ~Fits(h) PROVE ~WellFormed(q)
  <2>1. ParseInt(h.first) # h.first \/ ParseInt(h.last) # h.last
    BY <1>1, <1>3, <1>6 DEF Fits
  <2>2. q.first = Malformed \/ q.last = Malformed
    BY <2>1, <1>2, <1>3
  <2> HIDE DEF q
  <2> QED BY <2>2, SideAssumption DEF WellFormed
<1>7. ASSUME NEW size \in Nat PROVE Hasty(q, size) <=> Hasty(h, size)
  <2>1. /\ q.unit = h.unit /\ q.comma = h.comma /\ q.dash = h.dash
        /\ q.first = ParseInt(h.first) /\ q.last = ParseInt(h.last)
    BY <1>3
  <2>2. \A s : s \in size .. MaxInt => ParseInt(s) = s
    BY MaxIntAssumption DEF ParseInt
  <2>3. \A s : s \in -MaxInt - 1 .. -1 => ParseInt(s) = s
    BY MaxIntAssumption DEF ParseInt
  <2>4. ParseInt(Empty) = Empty
    BY Zenon DEF ParseInt
  <2>5. /\ q.first \in size .. MaxInt <=> h.first \in size .. MaxInt
        /\ q.last \in -MaxInt - 1 .. -1 <=> h.last \in -MaxInt - 1 .. -1
        /\ q.first = Empty <=> h.first = Empty
    <3> HIDE DEF q
    <3>1. Malformed \notin size .. MaxInt /\ Malformed \notin -MaxInt - 1 .. -1
          /\ Empty # Malformed
      BY SideAssumption
    <3> QED BY <1>2, <2>1, <2>2, <2>3, <2>4, <3>1
  <2> HIDE DEF q
  <2> QED BY <2>1, <2>5 DEF Hasty
<1> QED BY <1>4, <1>5, <1>6, <1>7 DEF Fits

\* web.go:124-174: a single range whose numbers an int64 holds is answered with exactly
\* the bytes it asks for, or with 416 if there are none; every other header with 200
\* and all of the archive, except that one whose first number is beyond the archive, or
\* that asks for the last -n bytes, is answered with 416.
THEOREM ParseRangeExact ==
    \A size \in Nat \ {0} : \A h \in Headers : Exact(h, size, ParseRange(h, size))
<1> SUFFICES ASSUME NEW size \in Nat \ {0}, NEW h \in Headers
             PROVE  Exact(h, size, ParseRange(h, size))
  OBVIOUS
<1>1. ParseRange(h, size) = ParseParts(Parsed(h), size)
  BY DEF ParseRange
<1>2. Exact(Parsed(h), size, ParseRange(h, size))
  BY <1>1, ParsedFits, PartsExact
<1>3. CASE Fits(h)
  BY <1>2, <1>3 DEF Fits
<1>4. CASE ~Fits(h)
  <2>1. ~WellFormed(Parsed(h))
    BY <1>4, ParsedFits
  <2>2. Hasty(Parsed(h), size) <=> Hasty(h, size)
    BY ParsedFits
  <2> QED BY <1>2, <1>4, <2>1, <2>2 DEF Exact
<1> QED BY <1>3, <1>4

\* The window of a header's parts lies in the archive.
LEMMA PartsInside ==
    ASSUME NEW size \in Nat \ {0}, NEW h \in Headers
    PROVE  /\ ParseParts(h, size).begin \in 0 .. size - 1
           /\ ParseParts(h, size).end \in ParseParts(h, size).begin .. size - 1
<1>1. /\ Ignored(size).begin = 0 /\ Ignored(size).end = size - 1
      /\ Unsatisfiable(size).begin = 0 /\ Unsatisfiable(size).end = size - 1
  BY DEF Ignored, Unsatisfiable
<1>2. \A b, e : Part(b, e).begin = b /\ Part(b, e).end = e
  BY DEF Part
<1>3. h.first \in Nat \cup {Empty, Malformed} /\ h.last \in Int \cup {Empty, Malformed}
  BY DEF Headers
<1>4. ASSUME h.first = Empty
      PROVE  \/ ParseSuffix(h.last, size) \in {Ignored(size), Unsatisfiable(size)}
             \/ \E b \in 0 .. size - 1 : ParseSuffix(h.last, size) = Part(b, size - 1)
  <2>1. CASE h.last \in Int /\ h.last > 0
    <3>1. size - Smaller(h.last, size) \in 0 .. size - 1
      BY <2>1, SmallerIs
    <3>2. ParseSuffix(h.last, size) = Part(size - Smaller(h.last, size), size - 1)
      BY <2>1, SideAssumption DEF ParseSuffix
    <3> QED BY <3>1, <3>2
  <2>2. CASE h.last \in {Empty, Malformed}
    <3>1. h.last \notin Int BY <2>2, SideAssumption
    <3> QED BY <2>2, <3>1 DEF ParseSuffix
  <2>3. CASE h.last \in Int /\ h.last <= 0
    <3>1. h.last \notin {Empty, Malformed} BY <2>3, SideAssumption
    <3>2. ParseSuffix(h.last, size) = Unsatisfiable(size)
      BY <2>3, <3>1 DEF ParseSuffix
    <3> QED BY <3>2
  <2>4. \/ h.last \in {Empty, Malformed}
        \/ h.last \in Int /\ h.last <= 0
        \/ h.last \in Int /\ h.last > 0
    BY <1>3
  <2> QED BY <2>1, <2>2, <2>3, <2>4
<1>5. ASSUME h.first # Empty
      PROVE  \/ ParseFrom(h.first, h.last, size) \in {Ignored(size), Unsatisfiable(size)}
             \/ \E b \in 0 .. size - 1 : \E e \in b .. size - 1 :
                   ParseFrom(h.first, h.last, size) = Part(b, e)
  <2>1. CASE h.first \in Nat /\ h.first < size /\ h.last = Empty
    <3>1. ParseFrom(h.first, h.last, size) = Part(h.first, size - 1)
      BY <2>1, SideAssumption DEF ParseFrom
    <3>2. h.first \in 0 .. size - 1 /\ size - 1 \in h.first .. size - 1
      BY <2>1
    <3> QED BY <3>1, <3>2
  <2>2. CASE h.first \in Nat /\ h.first < size /\ h.last \in Int /\ h.last >= h.first
    <3>1. ParseFrom(h.first, h.last, size) = Part(h.first, Smaller(h.last, size - 1))
      BY <2>2, SideAssumption DEF ParseFrom
    <3>2. h.first \in 0 .. size - 1 /\ Smaller(h.last, size - 1) \in h.first .. size - 1
      BY <2>2, SmallerIs
    <3> QED BY <3>1, <3>2
  <2>3. CASE h.first = Malformed
    <3>1. h.first \notin Int BY <2>3, SideAssumption
    <3> QED BY <2>3, <3>1 DEF ParseFrom
  <2>4. CASE h.first \in Nat /\ h.first >= size
    BY <2>4, SideAssumption DEF ParseFrom
  <2>5. CASE /\ h.first \in Nat /\ h.first < size
             /\ (h.last = Malformed \/ (h.last \in Int /\ h.last < h.first))
    BY <2>5, SideAssumption DEF ParseFrom
  <2>6. \/ h.first = Malformed
        \/ h.first \in Nat /\ h.first >= size
        \/ /\ h.first \in Nat /\ h.first < size
           /\ \/ h.last \in {Empty, Malformed}
              \/ h.last \in Int /\ h.last < h.first
              \/ h.last \in Int /\ h.last >= h.first
    BY <1>3, <1>5
  <2> QED BY <2>1, <2>2, <2>3, <2>4, <2>5, <2>6, Zenon
<1>6. \/ ParseParts(h, size) \in {Ignored(size), Unsatisfiable(size)}
      \/ \E b \in 0 .. size - 1 : \E e \in b .. size - 1 :
            ParseParts(h, size) = Part(b, e)
  <2>1. size - 1 \in Int /\ \A b \in 0 .. size - 1 : size - 1 \in b .. size - 1
    OBVIOUS
  <2>2. CASE h.unit # "bytes" \/ h.comma \/ ~h.dash
    BY <2>2 DEF ParseParts
  <2>3. CASE ~(h.unit # "bytes" \/ h.comma \/ ~h.dash) /\ h.first = Empty
    BY <2>1, <2>3, <1>4 DEF ParseParts
  <2>4. CASE ~(h.unit # "bytes" \/ h.comma \/ ~h.dash) /\ h.first # Empty
    BY <2>4, <1>5 DEF ParseParts
  <2> QED BY <2>2, <2>3, <2>4
<1>7. 0 \in 0 .. size - 1 /\ size - 1 \in 0 .. size - 1
  OBVIOUS
<1>8. CASE ParseParts(h, size) \in {Ignored(size), Unsatisfiable(size)}
  BY <1>1, <1>7, <1>8
<1>9. CASE \E b \in 0 .. size - 1 : \E e \in b .. size - 1 :
               ParseParts(h, size) = Part(b, e)
  BY <1>2, <1>9
<1> QED BY <1>6, <1>8, <1>9

\* web.go:330-341: the window that is announced (Content-Length, Content-Range) and
\* given to Write is never empty and never reaches beyond the archive.
THEOREM WindowInside ==
    \A size \in Nat \ {0} : \A h \in Headers :
        LET p == ParseRange(h, size)
        IN  p.begin \in 0 .. size - 1 /\ p.end \in p.begin .. size - 1
BY ParsedFits, PartsInside DEF ParseRange

\* parseRange answers with one of three statuses.
LEMMA RangeStatus ==
    ASSUME NEW h, NEW size
    PROVE  ParseRange(h, size).status \in {200, 206, 416}
<1> DEFINE q == Parsed(h)
<1>1. /\ Ignored(size).status = 200 /\ Unsatisfiable(size).status = 416
      /\ \A b, e : Part(b, e).status = 206
  BY DEF Ignored, Unsatisfiable, Part
<1>2. ParseSuffix(q.last, size) \in {Ignored(size), Unsatisfiable(size)}
         \cup {Part(size - Smaller(q.last, size), size - 1)}
  BY Zenon DEF ParseSuffix
<1>3. ParseFrom(q.first, q.last, size) \in {Ignored(size), Unsatisfiable(size)}
         \cup {Part(q.first, size - 1), Part(q.first, Smaller(q.last, size - 1))}
  BY Zenon DEF ParseFrom
<1>4. ParseRange(h, size) \in {Ignored(size), ParseSuffix(q.last, size),
                               ParseFrom(q.first, q.last, size)}
  BY DEF ParseRange, ParseParts
<1> QED BY <1>1, <1>2, <1>3, <1>4
-----------------------------------------------------------------------------
(* The recursive functions, step by step. *)

\* Induction over the natural numbers, for a set in the place of a predicate.
LEMMA SetInduction ==
    ASSUME NEW S, 0 \in S, \A n \in Nat : n \in S => n + 1 \in S
    PROVE  \A n \in Nat : n \in S
<1> DEFINE T == Nat \ S
           R == OpToRel(<, Nat)
<1>1. SUFFICES ASSUME T # {} PROVE FALSE
  OBVIOUS
<1>2. IsWellFoundedOn(R, Nat)
  BY NatLessThanWellFounded
<1>3. T \subseteq Nat
  OBVIOUS
<1> HIDE DEF R, T
<1>4. PICK x \in T : \A y \in T : ~ (<<y, x>> \in R)
  BY <1>1, <1>2, <1>3, WFMin
<1> USE DEF R, T
<1>5. x \in Nat /\ x # 0 /\ x - 1 \in Nat /\ x - 1 \in S
  <2>1. x \in Nat /\ x # 0 /\ x - 1 \in Nat
    OBVIOUS
  <2>2. <<x - 1, x>> \in R
    BY <2>1 DEF OpToRel
  <2> QED
    BY <1>4, <2>1, <2>2
<1>6. (x - 1) + 1 = x
  BY <1>5
<1> QED
  BY <1>5, <1>6

\* As far as n only.
LEMMA Upwards ==
    ASSUME NEW n \in Nat, NEW S, 0 \in S, \A k \in 1 .. n : k - 1 \in S => k \in S
    PROVE  \A k \in 0 .. n : k \in S
<1> DEFINE T == { k \in Nat : k <= n => k \in S }
<1>1. 0 \in T
  OBVIOUS
<1>2. ASSUME NEW k \in Nat, k \in T PROVE k + 1 \in T
  <2>1. CASE k + 1 <= n
    <3>1. k + 1 \in 1 .. n /\ (k + 1) - 1 = k /\ k \in S
      BY <1>2, <2>1
    <3> QED BY <3>1
  <2>2. CASE ~(k + 1 <= n)
    BY <2>2
  <2> QED BY <2>1, <2>2
<1> HIDE DEF T
<1>3. \A k \in Nat : k \in T
  BY <1>1, <1>2, SetInduction
<1> QED BY <1>3 DEF T

\* v begins with base and goes on by the steps F.
Iterates(v, n, base, F) == v[0] = base /\ \A k \in 1 .. n : v[k] = F[k][v[k - 1]]

\* Such a v is there.
LEMMA Iteration ==
    ASSUME NEW n \in Nat, NEW V, NEW base \in V, NEW F,
           \A k \in 1 .. n : \A x \in V : F[k][x] \in V
    PROVE  \E v \in [0 .. n -> V] : Iterates(v, n, base, F)
<1> DEFINE S == { m \in 0 .. n : \E v \in [0 .. n -> V] : Iterates(v, m, base, F) }
<1>1. 0 \in S
  <2> DEFINE v == [k \in 0 .. n |-> base]
  <2>1. v \in [0 .. n -> V] /\ Iterates(v, 0, base, F)
    BY DEF Iterates
  <2> HIDE DEF v
  <2> QED BY <2>1
<1>2. ASSUME NEW m \in 1 .. n, m - 1 \in S PROVE m \in S
  <2>1. PICK v \in [0 .. n -> V] : Iterates(v, m - 1, base, F)
    BY <1>2
  <2> DEFINE w == [v EXCEPT ![m] = F[m][v[m - 1]]]
  <2>2. w \in [0 .. n -> V]
    BY <2>1
  <2>3. \A k \in 0 .. n : k # m => w[k] = v[k]
    BY <2>1
  <2>4. w[m] = F[m][v[m - 1]]
    BY <2>1
  <2> HIDE DEF w
  <2>5. Iterates(w, m, base, F)
    BY <2>1, <2>3, <2>4 DEF Iterates
  <2> QED BY <2>2, <2>5
<1> HIDE DEF S
<1>3. n \in S
  BY <1>1, <1>2, Upwards
<1> QED BY <1>3 DEF S

\* What holds of the first and is kept by each step holds of all.
LEMMA Typed ==
    ASSUME NEW n \in Nat, NEW V, NEW v, v[0] \in V,
           \A k \in 1 .. n : v[k - 1] \in V => v[k] \in V
    PROVE  \A k \in 0 .. n : v[k] \in V
<1> DEFINE S == { k \in 0 .. n : v[k] \in V }
<1>1. 0 \in S /\ \A k \in 1 .. n : k - 1 \in S => k \in S
  OBVIOUS
<1> HIDE DEF S
<1>2. \A k \in 0 .. n : k \in S
  BY <1>1, Upwards
<1> QED BY <1>2 DEF S

\* Two that begin alike and step alike end alike.
LEMMA Agree ==
    ASSUME NEW n \in Nat, NEW v, NEW w, v[0] = w[0],
           \A k \in 1 .. n : v[k - 1] = w[k - 1] => v[k] = w[k]
    PROVE  v[n] = w[n]
<1> DEFINE S == { k \in 0 .. n : v[k] = w[k] }
<1>1. 0 \in S /\ \A k \in 1 .. n : k - 1 \in S => k \in S
  OBVIOUS
<1> HIDE DEF S
<1>2. \A k \in 0 .. n : k \in S
  BY <1>1, Upwards
<1> QED BY <1>2 DEF S

\* Induction over sequences, last element last.
LEMMA SeqInduction ==
    ASSUME NEW V, NEW S, <<>> \in S,
           \A s \in Seq(V) : s \in S => \A e \in V : Append(s, e) \in S
    PROVE  \A s \in Seq(V) : s \in S
<1> DEFINE T == { n \in Nat : \A s \in Seq(V) : Len(s) = n => s \in S }
<1>1. 0 \in T
  OBVIOUS
<1>2. ASSUME NEW n \in Nat, n \in T PROVE n + 1 \in T
  <2>1. ASSUME NEW s \in Seq(V), Len(s) = n + 1 PROVE s \in S
    <3> DEFINE f == SubSeq(s, 1, n)
    <3>1. f \in Seq(V) /\ Len(f) = n /\ s[n + 1] \in V
      BY <2>1
    <3>2. s = Append(f, s[n + 1])
      BY <2>1
    <3>3. f \in S
      BY <1>2, <3>1
    <3> HIDE DEF f
    <3> QED BY <3>1, <3>2, <3>3
  <2> QED BY <2>1
<1> HIDE DEF T
<1>3. \A n \in Nat : n \in T
  BY <1>1, <1>2, SetInduction
<1> QED BY <1>3 DEF T

\* Kept element by element.
KeptStep(v, s, K) ==
    /\ v[0] = <<>> /\ Kept(s, K) = v[Len(s)]
    /\ \A k \in 1 .. Len(s) :
          v[k] = IF s[k] \in K THEN Append(v[k - 1], s[k]) ELSE v[k - 1]

\* Kept is what these steps end with.
LEMMA KeptSteps ==
    ASSUME NEW V, NEW s \in Seq(V), NEW K
    PROVE  \E v \in [0 .. Len(s) -> Seq(V)] : KeptStep(v, s, K)
<1> DEFINE Eqn(f) == f = [n \in 0 .. Len(s) |->
                IF n = 0 THEN <<>>
                ELSE IF s[n] \in K THEN Append(f[n - 1], s[n]) ELSE f[n - 1]]
           F == [k \in 1 .. Len(s) |-> [x \in Seq(V) |->
                    IF s[k] \in K THEN Append(x, s[k]) ELSE x]]
           g == CHOOSE f : Eqn(f)
<1>1. Len(s) \in Nat /\ <<>> \in Seq(V)
  OBVIOUS
<1>2. \A k \in 1 .. Len(s) : \A x \in Seq(V) : F[k][x] \in Seq(V)
  OBVIOUS
<1> HIDE DEF F
<1>3. PICK v \in [0 .. Len(s) -> Seq(V)] : Iterates(v, Len(s), <<>>, F)
  BY <1>1, <1>2, Iteration
<1> DEFINE More(f, k) == IF s[k] \in K THEN Append(f[k - 1], s[k]) ELSE f[k - 1]
<1>4. ASSUME NEW k \in 1 .. Len(s) PROVE v[k] = More(v, k)
  <2>1. v[k - 1] \in Seq(V) /\ v[k] = F[k][v[k - 1]]
    BY <1>1, <1>3 DEF Iterates
  <2>2. \A x \in Seq(V) : F[k][x] = IF s[k] \in K THEN Append(x, s[k]) ELSE x
    BY DEF F
  <2> QED BY <2>1, <2>2
<1>5. Eqn(v)
  <2> HIDE DEF More
  <2>1. \A k \in 0 .. Len(s) : v[k] = IF k = 0 THEN <<>> ELSE More(v, k)
    BY <1>1, <1>3, <1>4 DEF Iterates
  <2>2. v = [k \in 0 .. Len(s) |-> IF k = 0 THEN <<>> ELSE More(v, k)]
    BY <1>3, <2>1
  <2> QED BY <2>2 DEF More
<1>6. Eqn(g)
  BY <1>5, Zenon
<1>7. Kept(s, K) = g[Len(s)]
  BY Zenon DEF Kept
<1> HIDE DEF g
<1>8. g[0] = <<>>
  BY <1>1, <1>6
<1>9. \A k \in 1 .. Len(s) : g[k] = More(g, k)
  <2> HIDE DEF More
  <2>1. g = [k \in 0 .. Len(s) |-> IF k = 0 THEN <<>> ELSE More(g, k)]
    BY <1>6 DEF More
  <2>2. \A k \in 0 .. Len(s) : g[k] = IF k = 0 THEN <<>> ELSE More(g, k)
    BY <2>1, Zenon
  <2> QED BY <1>1, <2>2
<1>10. \A k \in 0 .. Len(s) : g[k] \in Seq(V)
  <2>1. ASSUME NEW k \in 1 .. Len(s), g[k - 1] \in Seq(V) PROVE g[k] \in Seq(V)
    <3>1. Append(g[k - 1], s[k]) \in Seq(V)
      BY <2>1
    <3> QED BY <1>9, <2>1, <3>1
  <2> QED BY <1>1, <1>8, <2>1, Typed
<1>11. g \in [0 .. Len(s) -> Seq(V)]
  BY <1>6, <1>10
<1> QED BY <1>7, <1>8, <1>9, <1>11 DEF KeptStep

\* Kept of a sequence with one more element.
LEMMA KeptIs ==
    ASSUME NEW V, NEW s \in Seq(V), NEW e \in V, NEW K
    PROVE  /\ Kept(s, K) \in Seq(V)
           /\ Kept(<<>>, K) = <<>>
           /\ Kept(Append(s, e), K) = IF e \in K THEN Append(Kept(s, K), e) ELSE Kept(s, K)
<1> DEFINE t == Append(s, e)
<1>1. /\ Len(s) \in Nat /\ <<>> \in Seq(V) /\ Len(<<>>) = 0
      /\ t \in Seq(V) /\ Len(t) = Len(s) + 1 /\ t[Len(s) + 1] = e
      /\ \A k \in 1 .. Len(s) : t[k] = s[k]
  OBVIOUS
<1> HIDE DEF t
<1>2. PICK v \in [0 .. Len(s) -> Seq(V)] : KeptStep(v, s, K)
  BY KeptSteps
<1>3. PICK w \in [0 .. Len(t) -> Seq(V)] : KeptStep(w, t, K)
  BY <1>1, KeptSteps
<1>4. PICK u \in [0 .. Len(<<>>) -> Seq(V)] : KeptStep(u, <<>>, K)
  BY <1>1, KeptSteps
<1>5. v[Len(s)] = w[Len(s)]
  <2>1. ASSUME NEW k \in 1 .. Len(s), v[k - 1] = w[k - 1] PROVE v[k] = w[k]
    <3>1. k \in 1 .. Len(t) /\ t[k] = s[k]
      BY <1>1
    <3> QED BY <1>2, <1>3, <2>1, <3>1 DEF KeptStep
  <2>2. v[0] = w[0]
    BY <1>2, <1>3 DEF KeptStep
  <2> QED BY <1>1, <2>1, <2>2, Agree
<1>6. w[Len(t)] = IF e \in K THEN Append(w[Len(s)], e) ELSE w[Len(s)]
  <2>1. Len(t) \in 1 .. Len(t) /\ Len(t) - 1 = Len(s) /\ t[Len(t)] = e
    BY <1>1
  <2> QED BY <1>3, <2>1 DEF KeptStep
<1>7. Kept(s, K) = v[Len(s)] /\ Kept(t, K) = w[Len(t)] /\ Kept(<<>>, K) = <<>>
  BY <1>1, <1>2, <1>3, <1>4 DEF KeptStep
<1>8. v[Len(s)] \in Seq(V)
  BY <1>1, SMTT(30)
<1> QED BY <1>5, <1>6, <1>7, <1>8 DEF t

\* Joined part by part.
JoinedStep(v, ps, sep) ==
    /\ v[0] = <<>> /\ Joined(ps, sep) = v[Len(ps)]
    /\ \A k \in 1 .. Len(ps) : v[k] = IF k = 1 THEN ps[1] ELSE v[k - 1] \o <<sep>> \o ps[k]

\* Joined is what these steps end with.
LEMMA JoinedSteps ==
    ASSUME NEW X, NEW sep \in X, NEW ps \in Seq(Seq(X))
    PROVE  \E v \in [0 .. Len(ps) -> Seq(X)] : JoinedStep(v, ps, sep)
<1> DEFINE More(f, n) == IF n = 1 THEN ps[1] ELSE f[n - 1] \o <<sep>> \o ps[n]
           Eqn(f) == f = [n \in 0 .. Len(ps) |-> IF n = 0 THEN <<>> ELSE More(f, n)]
           F == [k \in 1 .. Len(ps) |->
                  [x \in Seq(X) |-> IF k = 1 THEN ps[1] ELSE x \o <<sep>> \o ps[k]]]
           g == CHOOSE f : Eqn(f)
<1>1. Len(ps) \in Nat /\ <<>> \in Seq(X)
  OBVIOUS
<1>2. ASSUME NEW k \in 1 .. Len(ps), NEW x \in Seq(X)
      PROVE  (IF k = 1 THEN ps[1] ELSE x \o <<sep>> \o ps[k]) \in Seq(X)
  <2>1. ps[k] \in Seq(X) /\ <<sep>> \in Seq(X)
    OBVIOUS
  <2>2. x \o <<sep>> \o ps[k] \in Seq(X)
    BY <2>1
  <2> QED BY <2>1, <2>2
<1>3. \A k \in 1 .. Len(ps) : \A x \in Seq(X) : F[k][x] \in Seq(X)
  BY <1>2
<1> HIDE DEF F
<1>4. PICK v \in [0 .. Len(ps) -> Seq(X)] : Iterates(v, Len(ps), <<>>, F)
  BY <1>1, <1>3, Iteration
<1>5. ASSUME NEW k \in 1 .. Len(ps) PROVE v[k] = More(v, k)
  <2>1. v[k - 1] \in Seq(X) /\ v[k] = F[k][v[k - 1]]
    <3>1. k - 1 \in 0 .. Len(ps)
      BY <1>1
    <3>2. v[k] = F[k][v[k - 1]]
      BY <1>4, Zenon DEF Iterates
    <3> QED BY <3>1, <3>2
  <2>2. \A x \in Seq(X) : F[k][x] = IF k = 1 THEN ps[1] ELSE x \o <<sep>> \o ps[k]
    BY DEF F
  <2> QED BY <2>1, <2>2
<1>6. Eqn(v)
  <2> HIDE DEF More
  <2>1. \A k \in 0 .. Len(ps) : v[k] = IF k = 0 THEN <<>> ELSE More(v, k)
    BY <1>1, <1>4, <1>5 DEF Iterates
  <2> QED BY <1>4, <2>1
<1>7. Eqn(g)
  <2> HIDE DEF Eqn
  <2> QED BY <1>6, Zenon
<1>8. Joined(ps, sep) = g[Len(ps)]
  BY Zenon DEF Joined
<1> HIDE DEF g
<1>9. g[0] = <<>> /\ \A k \in 1 .. Len(ps) : g[k] = More(g, k)
  <2> HIDE DEF More
  <2>1. \A k \in 0 .. Len(ps) : g[k] = IF k = 0 THEN <<>> ELSE More(g, k)
    BY <1>7, Zenon
  <2> QED BY <1>1, <2>1
<1>10. \A k \in 0 .. Len(ps) : g[k] \in Seq(X)
  <2>1. ASSUME NEW k \in 1 .. Len(ps), g[k - 1] \in Seq(X) PROVE g[k] \in Seq(X)
    <3>1. More(g, k) \in Seq(X)
      BY <1>2, <2>1
    <3> HIDE DEF More
    <3> QED BY <1>9, <3>1
  <2> QED BY <1>1, <1>9, <2>1, Typed
<1>11. g \in [0 .. Len(ps) -> Seq(X)]
  BY <1>7, <1>10
<1> QED BY <1>8, <1>9, <1>11 DEF JoinedStep

\* What Split makes of a string: at least one part.
PartLists(X) == Seq(Seq(X)) \ {<<>>}

\* Parts code by code.
PartsStep(v, s, sep) ==
    /\ v[0] = <<(<<>>)>> /\ Parts(s, sep) = v[Len(s)]
    /\ \A k \in 1 .. Len(s) :
          v[k] = IF s[k] = sep THEN Append(v[k - 1], <<>>)
                 ELSE [v[k - 1] EXCEPT ![Len(v[k - 1])] = Append(@, s[k])]

\* Parts is what these steps end with.
LEMMA PartsSteps ==
    ASSUME NEW X, NEW sep, NEW s \in Seq(X)
    PROVE  \E v \in [0 .. Len(s) -> PartLists(X)] : PartsStep(v, s, sep)
<1> DEFINE More(f, n) == IF s[n] = sep THEN Append(f[n - 1], <<>>)
                         ELSE [f[n - 1] EXCEPT ![Len(f[n - 1])] = Append(@, s[n])]
           Eqn(f) == f = [n \in 0 .. Len(s) |-> IF n = 0 THEN <<(<<>>)>> ELSE More(f, n)]
           F == [k \in 1 .. Len(s) |-> [x \in PartLists(X) |->
                  IF s[k] = sep THEN Append(x, <<>>)
                  ELSE [x EXCEPT ![Len(x)] = Append(@, s[k])]]]
           g == CHOOSE f : Eqn(f)
<1>1. Len(s) \in Nat /\ <<(<<>>)>> \in PartLists(X)
  BY DEF PartLists
<1>2. ASSUME NEW k \in 1 .. Len(s), NEW x \in PartLists(X)
      PROVE  (IF s[k] = sep THEN Append(x, <<>>)
              ELSE [x EXCEPT ![Len(x)] = Append(@, s[k])]) \in PartLists(X)
  <2>1. x \in Seq(Seq(X)) /\ Len(x) \in 1 .. Len(x) /\ s[k] \in X
    BY DEF PartLists
  <2>2. CASE s[k] = sep
    <3>1. <<>> \in Seq(X)
      OBVIOUS
    <3>2. Append(x, <<>>) \in Seq(Seq(X)) /\ Len(Append(x, <<>>)) # 0
      BY <2>1, <3>1
    <3>3. Append(x, <<>>) \in PartLists(X)
      BY <3>2, SMTT(30) DEF PartLists
    <3> QED BY <2>2, <3>3
  <2>3. CASE s[k] # sep
    <3>1. Append(x[Len(x)], s[k]) \in Seq(X)
      BY <2>1
    <3>2. [x EXCEPT ![Len(x)] = Append(x[Len(x)], s[k])] \in PartLists(X)
      BY <2>1, <3>1 DEF PartLists
    <3> QED BY <2>3, <3>2
  <2> QED BY <2>2, <2>3
<1>3. \A k \in 1 .. Len(s) : \A x \in PartLists(X) : F[k][x] \in PartLists(X)
  BY <1>2
<1> HIDE DEF F
<1>4. PICK v \in [0 .. Len(s) -> PartLists(X)] : Iterates(v, Len(s), <<(<<>>)>>, F)
  BY <1>1, <1>3, Iteration
<1>5. ASSUME NEW k \in 1 .. Len(s) PROVE v[k] = More(v, k)
  <2>1. v[k - 1] \in PartLists(X) /\ v[k] = F[k][v[k - 1]]
    <3>1. k - 1 \in 0 .. Len(s)
      BY <1>1
    <3>2. v[k] = F[k][v[k - 1]]
      BY <1>4, Zenon DEF Iterates
    <3> QED BY <3>1, <3>2
  <2>2. \A x \in PartLists(X) :
          F[k][x] = IF s[k] = sep THEN Append(x, <<>>)
                    ELSE [x EXCEPT ![Len(x)] = Append(@, s[k])]
    BY DEF F
  <2> QED BY <2>1, <2>2
<1>6. Eqn(v)
  <2> HIDE DEF More
  <2>1. \A k \in 0 .. Len(s) : v[k] = IF k = 0 THEN <<(<<>>)>> ELSE More(v, k)
    BY <1>1, <1>4, <1>5 DEF Iterates
  <2> QED BY <1>4, <2>1
<1>7. Eqn(g)
  <2> HIDE DEF Eqn
  <2> QED BY <1>6, Zenon
<1>8. Parts(s, sep) = g[Len(s)]
  BY Zenon DEF Parts
<1> HIDE DEF g
<1>9. g[0] = <<(<<>>)>> /\ \A k \in 1 .. Len(s) : g[k] = More(g, k)
  <2> HIDE DEF More
  <2>1. \A k \in 0 .. Len(s) : g[k] = IF k = 0 THEN <<(<<>>)>> ELSE More(g, k)
    BY <1>7, Zenon
  <2> QED BY <1>1, <2>1
<1>10. \A k \in 0 .. Len(s) : g[k] \in PartLists(X)
  <2>1. ASSUME NEW k \in 1 .. Len(s), g[k - 1] \in PartLists(X) PROVE g[k] \in PartLists(X)
    <3>1. More(g, k) \in PartLists(X)
      BY <1>2, <2>1
    <3> HIDE DEF More
    <3> QED BY <1>9, <3>1
  <2> QED BY <1>1, <1>9, <2>1, Typed, ZenonT(30)
<1>11. g \in [0 .. Len(s) -> PartLists(X)]
  BY <1>7, <1>10
<1> QED BY <1>8, <1>9, <1>11 DEF PartsStep

\* ArchiveSize file by file.
SizeStep(v, files, entries) ==
    /\ v[0] = Len(entries) + 1 /\ ArchiveSize(files, entries) = v[Len(files)]
    /\ \A k \in 1 .. Len(files) : v[k] = v[k - 1] + files[k].size

\* ArchiveSize is what these steps end with, and each of them is a size.
LEMMA SizeSteps ==
    ASSUME NEW entries, Len(entries) \in Nat, NEW V, NEW files \in Seq(V), \A f \in V : f.size \in Nat
    PROVE  \E v \in [0 .. Len(files) -> (Nat \ {0})] : SizeStep(v, files, entries)
<1> DEFINE More(f, n) == f[n - 1] + files[n].size
           Eqn(f) == f = [n \in 0 .. Len(files) |-> IF n = 0 THEN Len(entries) + 1 ELSE More(f, n)]
           F == [k \in 1 .. Len(files) |-> [x \in (Nat \ {0}) |-> x + files[k].size]]
           g == CHOOSE f : Eqn(f)
<1>1. Len(files) \in Nat /\ Len(entries) + 1 \in (Nat \ {0})
  OBVIOUS
<1>2. ASSUME NEW k \in 1 .. Len(files), NEW x \in (Nat \ {0})
      PROVE  (x + files[k].size) \in (Nat \ {0})
  <2>1. files[k].size \in Nat
    OBVIOUS
  <2> QED BY <2>1
<1>3. \A k \in 1 .. Len(files) : \A x \in (Nat \ {0}) : F[k][x] \in (Nat \ {0})
  BY <1>2
<1> HIDE DEF F
<1>4. PICK v \in [0 .. Len(files) -> (Nat \ {0})] : Iterates(v, Len(files), Len(entries) + 1, F)
  BY <1>1, <1>3, Iteration
<1>5. ASSUME NEW k \in 1 .. Len(files) PROVE v[k] = More(v, k)
  <2>1. v[k - 1] \in (Nat \ {0}) /\ v[k] = F[k][v[k - 1]]
    <3>1. k - 1 \in 0 .. Len(files)
      BY <1>1
    <3>2. v[k] = F[k][v[k - 1]]
      BY <1>4, Zenon DEF Iterates
    <3> QED BY <3>1, <3>2
  <2>2. \A x \in (Nat \ {0}) : F[k][x] = x + files[k].size
    BY DEF F
  <2> QED BY <2>1, <2>2
<1>6. Eqn(v)
  <2> HIDE DEF More
  <2>1. \A k \in 0 .. Len(files) : v[k] = IF k = 0 THEN Len(entries) + 1 ELSE More(v, k)
    BY <1>1, <1>4, <1>5 DEF Iterates
  <2> QED BY <1>4, <2>1
<1>7. Eqn(g)
  <2> HIDE DEF Eqn
  <2> QED BY <1>6, Zenon
<1>8. ArchiveSize(files, entries) = g[Len(files)]
  BY Zenon DEF ArchiveSize
<1> HIDE DEF g
<1>9. g[0] = Len(entries) + 1 /\ \A k \in 1 .. Len(files) : g[k] = More(g, k)
  <2> HIDE DEF More
  <2>1. \A k \in 0 .. Len(files) : g[k] = IF k = 0 THEN Len(entries) + 1 ELSE More(g, k)
    BY <1>7, Zenon
  <2> QED BY <1>1, <2>1
<1>10. \A k \in 0 .. Len(files) : g[k] \in (Nat \ {0})
  <2>1. ASSUME NEW k \in 1 .. Len(files), g[k - 1] \in (Nat \ {0}) PROVE g[k] \in (Nat \ {0})
    <3>1. More(g, k) \in (Nat \ {0})
      BY <1>2, <2>1
    <3> HIDE DEF More
    <3> QED BY <1>9, <3>1
  <2>2. PICK P : P = Nat \ {0}
    OBVIOUS
  <2>3. g[0] \in P /\ \A k \in 1 .. Len(files) : g[k - 1] \in P => g[k] \in P
    BY <1>1, <1>9, <2>1, <2>2
  <2>4. \A k \in 0 .. Len(files) : g[k] \in P
    BY <1>1, <2>3, Typed
  <2> QED BY <2>2, <2>4
<1>11. g \in [0 .. Len(files) -> (Nat \ {0})]
  BY <1>7, <1>10
<1> QED BY <1>8, <1>9, <1>11 DEF SizeStep

\* Joined of a list with one more part.
JoinedEqs(ps, p, sep) ==
    /\ Joined(<<>>, sep) = <<>>
    /\ Joined(Append(ps, p), sep) = IF ps = <<>> THEN p ELSE Joined(ps, sep) \o <<sep>> \o p

\* Joined is a string, and grows part by part.
LEMMA JoinedIs ==
    ASSUME NEW X, NEW sep \in X, NEW ps \in Seq(Seq(X)), NEW p \in Seq(X)
    PROVE  Joined(ps, sep) \in Seq(X) /\ JoinedEqs(ps, p, sep)
<1> DEFINE t == Append(ps, p)
           n == Len(ps)
<1>1. /\ n \in Nat /\ <<>> \in Seq(X) /\ <<>> \in Seq(Seq(X)) /\ Len(<<>>) = 0
      /\ t \in Seq(Seq(X)) /\ Len(t) = n + 1 /\ t[n + 1] = p
      /\ \A k \in 1 .. n : t[k] = ps[k]
  OBVIOUS
<1> HIDE DEF t
<1>2. PICK v \in [0 .. Len(ps) -> Seq(X)] : JoinedStep(v, ps, sep)
  BY JoinedSteps
<1>3. PICK w \in [0 .. Len(t) -> Seq(X)] : JoinedStep(w, t, sep)
  BY <1>1, JoinedSteps
<1>4. PICK u \in [0 .. Len(<<>>) -> Seq(X)] : JoinedStep(u, <<>>, sep)
  BY <1>1, JoinedSteps
<1>5. v[n] = w[n]
  <2>1. ASSUME NEW k \in 1 .. n, v[k - 1] = w[k - 1] PROVE v[k] = w[k]
    <3>1. k \in 1 .. Len(t) /\ t[k] = ps[k] /\ t[1] = ps[1]
      BY <1>1
    <3>2. v[k] = IF k = 1 THEN ps[1] ELSE v[k - 1] \o <<sep>> \o ps[k]
      BY <1>2, Zenon DEF JoinedStep
    <3>3. w[k] = IF k = 1 THEN t[1] ELSE w[k - 1] \o <<sep>> \o t[k]
      BY <1>3, <3>1, Zenon DEF JoinedStep
    <3> QED BY <2>1, <3>1, <3>2, <3>3
  <2>2. v[0] = w[0]
    BY <1>2, <1>3 DEF JoinedStep
  <2> HIDE DEF n
  <2> QED BY <1>1, <2>1, <2>2, Agree, ZenonT(30)
<1>6. w[Len(t)] = IF ps = <<>> THEN p ELSE w[n] \o <<sep>> \o p
  <2>1. Len(t) \in 1 .. Len(t) /\ Len(t) - 1 = n /\ t[Len(t)] = p 
    BY <1>1
  <2>3. Len(t) = 1 <=> ps = <<>>
    <3>1. ps = <<>> <=> n = 0
      OBVIOUS
    <3> HIDE DEF n
    <3> QED BY <1>1, <3>1
  <2>2. t[1] = t[Len(t)] \/ Len(t) # 1
    OBVIOUS
  <2> QED BY <1>3, <2>1, <2>2, <2>3 DEF JoinedStep
<1>7. Joined(ps, sep) = v[n] /\ Joined(t, sep) = w[Len(t)] /\ Joined(<<>>, sep) = <<>>
  BY <1>1, <1>2, <1>3, <1>4 DEF JoinedStep
<1>8. v[n] \in Seq(X)
  <2>1. n \in 0 .. Len(ps)
    BY <1>1
  <2> HIDE DEF n
  <2> QED BY <2>1
<1> QED BY <1>5, <1>6, <1>7, <1>8 DEF t, JoinedEqs

\* Parts of a string with one more code.
PartsEqs(s, c, sep) ==
    /\ Parts(<<>>, sep) = <<(<<>>)>>
    /\ Parts(Append(s, c), sep) = IF c = sep THEN Append(Parts(s, sep), <<>>)
                 ELSE [Parts(s, sep) EXCEPT ![Len(Parts(s, sep))] = Append(@, c)]

\* Parts is a list of parts, and grows code by code.
LEMMA PartsIs ==
    ASSUME NEW X, NEW sep, NEW s \in Seq(X), NEW c \in X
    PROVE  Parts(s, sep) \in PartLists(X) /\ PartsEqs(s, c, sep)
<1> DEFINE t == Append(s, c)
           n == Len(s)
<1>1. /\ n \in Nat /\ <<>> \in Seq(X) /\ <<>> \in Seq(Seq(X)) /\ Len(<<>>) = 0
      /\ t \in Seq(X) /\ Len(t) = n + 1 /\ t[n + 1] = c
      /\ \A k \in 1 .. n : t[k] = s[k]
  OBVIOUS
<1> HIDE DEF t
<1>2. PICK v \in [0 .. Len(s) -> PartLists(X)] : PartsStep(v, s, sep)
  BY PartsSteps
<1>3. PICK w \in [0 .. Len(t) -> PartLists(X)] : PartsStep(w, t, sep)
  BY <1>1, PartsSteps
<1>4. PICK u \in [0 .. Len(<<>>) -> PartLists(X)] : PartsStep(u, <<>>, sep)
  BY <1>1, PartsSteps
<1>5. v[n] = w[n]
  <2>1. ASSUME NEW k \in 1 .. n, v[k - 1] = w[k - 1] PROVE v[k] = w[k]
    <3>1. k \in 1 .. Len(t) /\ t[k] = s[k] /\ t[1] = s[1]
      BY <1>1
    <3>2. v[k] = IF s[k] = sep THEN Append(v[k - 1], <<>>)
              ELSE [v[k - 1] EXCEPT ![Len(v[k - 1])] = Append(@, s[k])]
      BY <1>2, Zenon DEF PartsStep
    <3>3. w[k] = IF t[k] = sep THEN Append(w[k - 1], <<>>)
              ELSE [w[k - 1] EXCEPT ![Len(w[k - 1])] = Append(@, t[k])]
      BY <1>3, <3>1, Zenon DEF PartsStep
    <3> QED BY <2>1, <3>1, <3>2, <3>3
  <2>2. v[0] = w[0]
    BY <1>2, <1>3 DEF PartsStep
  <2> HIDE DEF n
  <2> QED BY <1>1, <2>1, <2>2, Agree, ZenonT(30)
<1>6. w[Len(t)] = IF c = sep THEN Append(w[n], <<>>)
                 ELSE [w[n] EXCEPT ![Len(w[n])] = Append(@, c)]
  <2>1. Len(t) \in 1 .. Len(t) /\ Len(t) - 1 = n /\ t[Len(t)] = c 
    BY <1>1
  <2>3. Len(t) = 1 <=> s = <<>>
    <3>1. s = <<>> <=> n = 0
      OBVIOUS
    <3> HIDE DEF n
    <3> QED BY <1>1, <3>1
  <2>2. t[1] = t[Len(t)] \/ Len(t) # 1
    OBVIOUS
  <2> QED BY <1>3, <2>1, <2>2, <2>3 DEF PartsStep
<1>7. Parts(s, sep) = v[n] /\ Parts(t, sep) = w[Len(t)] /\ Parts(<<>>, sep) = <<(<<>>)>>
  BY <1>1, <1>2, <1>3, <1>4 DEF PartsStep
<1>8. v[n] \in PartLists(X)
  <2>1. n \in 0 .. Len(s)
    BY <1>1
  <2> HIDE DEF n
  <2> QED BY <2>1
<1> QED BY <1>5, <1>6, <1>7, <1>8 DEF t, PartsEqs

\* Walk code by code.
WalkStep(v, es, name) ==
    /\ v[0] = es /\ Walk(es, name) = Append(v[Len(name)], name)
    /\ \A k \in 1 .. Len(name) : v[k] = IF name[k] = Slash /\ ~Contains(v[k - 1], SubSeq(name, 1, k))
                 THEN Append(v[k - 1], SubSeq(name, 1, k)) ELSE v[k - 1]

\* Walk is what these steps end with.
LEMMA WalkSteps ==
    ASSUME NEW X, NEW es \in Seq(Seq(X)), NEW name \in Seq(X)
    PROVE  \E v \in [0 .. Len(name) -> Seq(Seq(X))] : WalkStep(v, es, name)
<1> DEFINE More(f, n) == IF name[n] = Slash /\ ~Contains(f[n - 1], SubSeq(name, 1, n))
                 THEN Append(f[n - 1], SubSeq(name, 1, n)) ELSE f[n - 1]
           Eqn(f) == f = [n \in 0 .. Len(name) |-> IF n = 0 THEN es ELSE More(f, n)]
           F == [k \in 1 .. Len(name) |-> [x \in Seq(Seq(X)) |->
                  IF name[k] = Slash /\ ~Contains(x, SubSeq(name, 1, k))
                  THEN Append(x, SubSeq(name, 1, k)) ELSE x]]
           g == CHOOSE f : Eqn(f)
<1>1. Len(name) \in Nat /\ es \in Seq(Seq(X))
  OBVIOUS
<1>2. ASSUME NEW k \in 1 .. Len(name), NEW x \in Seq(Seq(X))
      PROVE  (IF name[k] = Slash /\ ~Contains(x, SubSeq(name, 1, k))
                 THEN Append(x, SubSeq(name, 1, k)) ELSE x) \in Seq(Seq(X))
  <2>1. SubSeq(name, 1, k) \in Seq(X)
    OBVIOUS
  <2>2. Append(x, SubSeq(name, 1, k)) \in Seq(Seq(X))
    BY <2>1
  <2> QED BY <2>2
<1>3. \A k \in 1 .. Len(name) : \A x \in Seq(Seq(X)) : F[k][x] \in Seq(Seq(X))
  BY <1>2
<1> HIDE DEF F
<1>4. PICK v \in [0 .. Len(name) -> Seq(Seq(X))] : Iterates(v, Len(name), es, F)
  BY <1>1, <1>3, Iteration
<1>5. ASSUME NEW k \in 1 .. Len(name) PROVE v[k] = More(v, k)
  <2>1. v[k - 1] \in Seq(Seq(X)) /\ v[k] = F[k][v[k - 1]]
    <3>1. k - 1 \in 0 .. Len(name)
      BY <1>1
    <3>2. v[k] = F[k][v[k - 1]]
      BY <1>4, Zenon DEF Iterates
    <3> QED BY <3>1, <3>2
  <2>2. \A x \in Seq(Seq(X)) : F[k][x] = IF name[k] = Slash /\ ~Contains(x, SubSeq(name, 1, k))
                 THEN Append(x, SubSeq(name, 1, k)) ELSE x
    BY DEF F
  <2> QED BY <2>1, <2>2
<1>6. Eqn(v)
  <2> HIDE DEF More
  <2>1. \A k \in 0 .. Len(name) : v[k] = IF k = 0 THEN es ELSE More(v, k)
    BY <1>1, <1>4, <1>5 DEF Iterates
  <2> QED BY <1>4, <2>1
<1>7. Eqn(g)
  <2> HIDE DEF Eqn
  <2> QED BY <1>6, Zenon
<1>8. Walk(es, name) = Append(g[Len(name)], name)
  BY Zenon DEF Walk
<1> HIDE DEF g
<1>9. g[0] = es /\ \A k \in 1 .. Len(name) : g[k] = More(g, k)
  <2> HIDE DEF More
  <2>1. \A k \in 0 .. Len(name) : g[k] = IF k = 0 THEN es ELSE More(g, k)
    BY <1>7, Zenon
  <2> QED BY <1>1, <2>1
<1>10. \A k \in 0 .. Len(name) : g[k] \in Seq(Seq(X))
  <2>1. ASSUME NEW k \in 1 .. Len(name), g[k - 1] \in Seq(Seq(X)) PROVE g[k] \in Seq(Seq(X))
    <3>1. More(g, k) \in Seq(Seq(X))
      BY <1>2, <2>1
    <3> HIDE DEF More
    <3> QED BY <1>9, <3>1
  <2> QED BY <1>1, <1>9, <2>1, Typed
<1>11. g \in [0 .. Len(name) -> Seq(Seq(X))]
  BY <1>7, <1>10
<1> QED BY <1>8, <1>9, <1>11 DEF WalkStep

\* Entries file by file.
EntriesStep(v, files, path) ==
    /\ v[0] = <<>> /\ Entries(files, path) = v[Len(files)]
    /\ \A k \in 1 .. Len(files) : v[k] = Walk(v[k - 1], NameIn(files[k], path))

\* Entries is what these steps end with.
LEMMA EntriesSteps ==
    ASSUME NEW X, NEW path, NEW V, NEW files \in Seq(V), \A f \in V : NameIn(f, path) \in Seq(X)
    PROVE  \E v \in [0 .. Len(files) -> Seq(Seq(X))] : EntriesStep(v, files, path)
<1> DEFINE More(f, n) == Walk(f[n - 1], NameIn(files[n], path))
           Eqn(f) == f = [n \in 0 .. Len(files) |-> IF n = 0 THEN <<>> ELSE More(f, n)]
           F == [k \in 1 .. Len(files) |-> [x \in Seq(Seq(X)) |-> Walk(x, NameIn(files[k], path))]]
           g == CHOOSE f : Eqn(f)
<1>1. Len(files) \in Nat /\ <<>> \in Seq(Seq(X))
  OBVIOUS
<1>2. ASSUME NEW k \in 1 .. Len(files), NEW x \in Seq(Seq(X))
      PROVE  (Walk(x, NameIn(files[k], path))) \in Seq(Seq(X))
  <2>0. files[k] \in V
    OBVIOUS
  <2>1. PICK name \in Seq(X) : name = NameIn(files[k], path)
    BY <2>0
  <2>2. PICK v \in [0 .. Len(name) -> Seq(Seq(X))] : WalkStep(v, x, name)
    BY WalkSteps
  <2>a. Len(name) \in 0 .. Len(name)
    OBVIOUS
  <2>3. v[Len(name)] \in Seq(Seq(X))
    BY <2>a
  <2>4. Append(v[Len(name)], name) \in Seq(Seq(X))
    BY <2>3
  <2>5. Walk(x, name) = Append(v[Len(name)], name)
    BY <2>2 DEF WalkStep
  <2> QED BY <2>1, <2>4, <2>5
<1>3. \A k \in 1 .. Len(files) : \A x \in Seq(Seq(X)) : F[k][x] \in Seq(Seq(X))
  BY <1>2
<1> HIDE DEF F
<1>4. PICK v \in [0 .. Len(files) -> Seq(Seq(X))] : Iterates(v, Len(files), <<>>, F)
  BY <1>1, <1>3, Iteration
<1>5. ASSUME NEW k \in 1 .. Len(files) PROVE v[k] = More(v, k)
  <2>1. v[k - 1] \in Seq(Seq(X)) /\ v[k] = F[k][v[k - 1]]
    <3>1. k - 1 \in 0 .. Len(files)
      BY <1>1
    <3>2. v[k] = F[k][v[k - 1]]
      BY <1>4, Zenon DEF Iterates
    <3> QED BY <3>1, <3>2
  <2>2. \A x \in Seq(Seq(X)) : F[k][x] = Walk(x, NameIn(files[k], path))
    BY DEF F
  <2> QED BY <2>1, <2>2
<1>6. Eqn(v)
  <2> HIDE DEF More
  <2>1. \A k \in 0 .. Len(files) : v[k] = IF k = 0 THEN <<>> ELSE More(v, k)
    BY <1>1, <1>4, <1>5 DEF Iterates
  <2> QED BY <1>4, <2>1
<1>7. Eqn(g)
  <2> HIDE DEF Eqn
  <2> QED BY <1>6, Zenon
<1>8. Entries(files, path) = g[Len(files)]
  BY Zenon DEF Entries
<1> HIDE DEF g
<1>9. g[0] = <<>> /\ \A k \in 1 .. Len(files) : g[k] = More(g, k)
  <2> HIDE DEF More
  <2>1. \A k \in 0 .. Len(files) : g[k] = IF k = 0 THEN <<>> ELSE More(g, k)
    BY <1>7, Zenon
  <2> QED BY <1>1, <2>1
<1>10. \A k \in 0 .. Len(files) : g[k] \in Seq(Seq(X))
  <2>1. ASSUME NEW k \in 1 .. Len(files), g[k - 1] \in Seq(Seq(X)) PROVE g[k] \in Seq(Seq(X))
    <3>1. More(g, k) \in Seq(Seq(X))
      BY <1>2, <2>1
    <3> HIDE DEF More
    <3> QED BY <1>9, <3>1
  <2> QED BY <1>1, <1>9, <2>1, Typed
<1>11. g \in [0 .. Len(files) -> Seq(Seq(X))]
  BY <1>7, <1>10
<1> QED BY <1>8, <1>9, <1>11 DEF EntriesStep
-----------------------------------------------------------------------------
(* The walk over the folders: archive.go:70-103. *)

\* The entry of a folder ends with a slash.
IsFolder(e) == Last(e) = Slash

\* A name a file of the archive can have.
FileName(name) == name \in Strings /\ name # <<>> /\ ~IsFolder(name)

\* Each entry has its folders in front of it, and each folder is there once.
Framed(es) ==
    /\ \A k \in DOMAIN es : \A d \in FoldersOf(es[k]) : \E j \in 1 .. k : es[j] = d
    /\ \A i, j \in DOMAIN es : es[i] = es[j] /\ IsFolder(es[i]) => i = j

\* Behind the folder at k is a file of it.
Used(es, k) ==
    \E j \in k + 1 .. Len(es) : ~IsFolder(es[j]) /\ IsPrefix(es[k], es[j])

\* No folder is there for nothing.
AllUsed(es) == \A k \in DOMAIN es : IsFolder(es[k]) => Used(es, k)

\* While the folders of name are put in front of it, up to its n-th code.
Walking(es, name, n) ==
    /\ Framed(es)
    /\ \A k \in DOMAIN es : IsFolder(es[k]) => Used(es, k) \/ IsPrefix(es[k], name)
    /\ \A m \in 1 .. n : name[m] = Slash => Contains(es, SubSeq(name, 1, m))

\* Append, as functions go.
LEMMA Appended ==
    ASSUME NEW V, NEW s \in Seq(V), NEW e \in V
    PROVE  /\ Append(s, e) \in Seq(V) /\ Len(s) \in Nat /\ Len(Append(s, e)) = Len(s) + 1
           /\ DOMAIN s = 1 .. Len(s) /\ DOMAIN Append(s, e) = 1 .. Len(s) + 1
           /\ Append(s, e)[Len(s) + 1] = e /\ \A k \in 1 .. Len(s) : Append(s, e)[k] = s[k]
OBVIOUS

\* What a name up to its n-th code is, and which folders that is in.
LEMMA FoldersIn ==
    ASSUME NEW name \in Strings, NEW n \in 1 .. Len(name)
    PROVE  /\ SubSeq(name, 1, n) \in Strings
           /\ \A d \in FoldersOf(SubSeq(name, 1, n)) :
                 \E m \in 1 .. n : name[m] = Slash /\ d = SubSeq(name, 1, m)
           /\ IsFolder(SubSeq(name, 1, n)) <=> name[n] = Slash
           /\ IsPrefix(SubSeq(name, 1, n), name)
<1> DEFINE t == SubSeq(name, 1, n)
<1>1. /\ Len(name) \in Nat /\ t \in Strings /\ Len(t) = n /\ n \in Nat /\ n <= Len(name)
      /\ \A j \in 1 .. n : t[j] = name[j] 
  BY DEF Strings
<1>2. \A k \in 1 .. n : SubSeq(t, 1, k) = SubSeq(name, 1, k)
  BY DEF Strings
<1>3. DOMAIN t = 1 .. n
  BY <1>1 DEF Strings
<1> HIDE DEF t
<1>4. \A d \in FoldersOf(t) : \E m \in 1 .. n : name[m] = Slash /\ d = SubSeq(name, 1, m)
  BY <1>1, <1>2, <1>3 DEF FoldersOf
<1>5. IsFolder(t) <=> name[n] = Slash
  BY <1>1 DEF IsFolder, Last
<1>6. IsPrefix(t, name)
  <2>1. SubSeq(t, 1, n) = SubSeq(name, 1, n)
    BY <1>2
  <2> QED BY <1>1, <2>1 DEF IsPrefix
<1> QED BY <1>1, <1>4, <1>5, <1>6 DEF t

\* An entry whose folders are there already may come behind.
LEMMA FramedAppend ==
    ASSUME NEW es \in Seq(Strings), Framed(es), NEW e \in Strings,
           \A d \in FoldersOf(e) : d = e \/ Contains(es, d),
           IsFolder(e) => ~Contains(es, e)
    PROVE  Framed(Append(es, e))
<1> DEFINE fs == Append(es, e)
           n == Len(es)
<1>1. /\ n \in Nat /\ Len(fs) = n + 1 /\ DOMAIN es = 1 .. n /\ DOMAIN fs = 1 .. n + 1
      /\ fs[n + 1] = e /\ \A k \in 1 .. n : fs[k] = es[k]
  BY Appended
<1> HIDE DEF fs, n
<1>2. ASSUME NEW d, Contains(es, d) PROVE \E j \in 1 .. n : fs[j] = d
  BY <1>1, <1>2 DEF Contains, n
<1>3. ASSUME NEW k \in DOMAIN fs, NEW d \in FoldersOf(fs[k]) PROVE \E j \in 1 .. k : fs[j] = d
  <2>1. CASE k = n + 1
    <3>1. d = e \/ Contains(es, d)
      BY <1>1, <1>3, <2>1
    <3>2. CASE d = e
      BY <1>1, <2>1, <3>2
    <3>3. CASE Contains(es, d)
      BY <1>1, <1>2, <2>1, <3>3
    <3> QED BY <3>1, <3>2, <3>3
  <2>2. CASE k # n + 1
    <3>1. k \in 1 .. n /\ fs[k] = es[k]
      BY <1>1, <2>2
    <3>2. PICK j \in 1 .. k : es[j] = d
      BY <1>1, <1>3, <3>1 DEF Framed
    <3> QED BY <1>1, <3>1, <3>2
  <2> QED BY <2>1, <2>2
<1>4. ASSUME NEW i \in DOMAIN fs, NEW j \in DOMAIN fs, fs[i] = fs[j], IsFolder(fs[i]) PROVE i = j
  <2>1. CASE i \in 1 .. n /\ j \in 1 .. n
    <3>1. es[i] = es[j] /\ IsFolder(es[i])
      BY <1>1, <1>4, <2>1
    <3> QED BY <1>1, <2>1, <3>1 DEF Framed
  <2>2. ASSUME NEW k \in 1 .. n, fs[k] = fs[n + 1], IsFolder(fs[n + 1]) PROVE FALSE
    <3>1. Contains(es, e) /\ IsFolder(e)
      BY <1>1, <2>2 DEF Contains, n
    <3> QED BY <3>1
  <2>3. CASE i = n + 1 \/ j = n + 1
    BY <1>1, <1>4, <2>2, <2>3
  <2> QED BY <1>1, <2>1, <2>3
<1>5. Framed(fs)
  BY <1>3, <1>4 DEF Framed
<1> QED BY <1>5 DEF fs

\* A folder stays used, or is by the file that comes behind.
LEMMA UsedAppend ==
    ASSUME NEW es \in Seq(Strings), NEW e \in Strings, NEW k \in 1 .. Len(es),
           Used(es, k) \/ (~IsFolder(e) /\ IsPrefix(es[k], e))
    PROVE  Used(Append(es, e), k)
<1> DEFINE fs == Append(es, e)
           n == Len(es)
<1>1. /\ n \in Nat /\ Len(fs) = n + 1 /\ k \in 1 .. n
      /\ fs[n + 1] = e /\ \A j \in 1 .. n : fs[j] = es[j]
  BY Appended
<1> HIDE DEF fs
<1>2. ASSUME Used(es, k) PROVE Used(fs, k)
  BY <1>1, <1>2 DEF Used
<1>3. ASSUME ~IsFolder(e), IsPrefix(es[k], e) PROVE Used(fs, k)
  BY <1>1, <1>3 DEF Used
<1>4. Used(fs, k)
  BY <1>2, <1>3
<1> QED BY <1>4 DEF fs

\* folderWalker.walk (archive.go:78-103) puts a file behind its folders.
LEMMA WalkKeeps ==
    ASSUME NEW es \in Seq(Strings), Framed(es), AllUsed(es), NEW name, FileName(name)
    PROVE  Walk(es, name) \in Seq(Strings) /\ Framed(Walk(es, name)) /\ AllUsed(Walk(es, name))
<1>1. name \in Seq(Nat) /\ es \in Seq(Seq(Nat)) /\ Seq(Nat) = Strings
  BY DEF FileName, Strings
<1>2. PICK v \in [0 .. Len(name) -> Seq(Strings)] : WalkStep(v, es, name)
  BY <1>1, WalkSteps
<1>3. Len(name) \in Nat /\ Len(name) # 0
  BY <1>1 DEF FileName
<1> DEFINE S == { n \in 0 .. Len(name) : Walking(v[n], name, n) }
<1>4. 0 \in S
  <2>1. v[0] = es
    BY <1>2 DEF WalkStep
  <2>2. Walking(es, name, 0)
    BY DEF Walking, AllUsed
  <2> QED BY <1>3, <2>1, <2>2
<1>5. ASSUME NEW n \in 1 .. Len(name), n - 1 \in S PROVE n \in S
  <2> DEFINE w == v[n - 1]
             d == SubSeq(name, 1, n)
  <2>1. /\ w \in Seq(Strings) /\ Walking(w, name, n - 1)
        /\ v[n] = IF name[n] = Slash /\ ~Contains(w, d) THEN Append(w, d) ELSE w
    <3>1. n - 1 \in 0 .. Len(name)
      BY <1>3
    <3>2. v[n] = IF name[n] = Slash /\ ~Contains(w, d) THEN Append(w, d) ELSE w
      BY <1>2, Zenon DEF WalkStep
    <3> QED BY <1>5, <3>1, <3>2
  <2>2. /\ d \in Strings /\ (IsFolder(d) <=> name[n] = Slash) /\ IsPrefix(d, name)
        /\ \A f \in FoldersOf(d) : \E m \in 1 .. n : name[m] = Slash /\ f = SubSeq(name, 1, m)
    BY <1>1, FoldersIn
  <2> HIDE DEF w
  <2>3. CASE name[n] = Slash /\ ~Contains(w, d)
    <3>1. \A f \in FoldersOf(d) : f = d \/ Contains(w, f)
      <4> SUFFICES ASSUME NEW f \in FoldersOf(d) PROVE f = d \/ Contains(w, f)
        OBVIOUS
      <4>1. PICK m \in 1 .. n : name[m] = Slash /\ f = SubSeq(name, 1, m)
        BY <2>2
      <4>2. m = n \/ m \in 1 .. n - 1
        OBVIOUS
      <4> QED BY <2>1, <4>1, <4>2 DEF Walking
    <3> HIDE DEF d
    <3>2. Framed(Append(w, d))
      BY <2>1, <2>2, <2>3, <3>1, FramedAppend DEF Walking
    <3> DEFINE fs == Append(w, d)
    <3>3. /\ Len(w) \in Nat /\ Len(fs) = Len(w) + 1 /\ fs[Len(w) + 1] = d
          /\ DOMAIN w = 1 .. Len(w) /\ DOMAIN fs = 1 .. Len(w) + 1
          /\ \A k \in 1 .. Len(w) : fs[k] = w[k]
      BY <2>1, <2>2, Appended
    <3>4. \A k \in 1 .. Len(w) : Used(w, k) => Used(fs, k)
      BY <2>1, <2>2, UsedAppend
    <3> HIDE DEF fs
    <3>5. ASSUME NEW k \in DOMAIN fs, IsFolder(fs[k]) PROVE Used(fs, k) \/ IsPrefix(fs[k], name)
      <4>1. CASE k = Len(w) + 1
        BY <2>2, <3>3, <4>1
      <4>2. CASE k \in 1 .. Len(w)
        BY <2>1, <3>3, <3>4, <3>5, <4>2 DEF Walking
      <4> QED BY <3>3, <4>1, <4>2
    <3>6. ASSUME NEW m \in 1 .. n, name[m] = Slash PROVE Contains(fs, SubSeq(name, 1, m))
      <4>1. CASE m = n
        BY <3>3, <4>1, SMTT(30) DEF Contains, d
      <4>2. CASE m # n
        <5>1. Contains(w, SubSeq(name, 1, m))
          BY <2>1, <3>6, <4>2 DEF Walking
        <5> QED BY <3>3, <5>1 DEF Contains
      <4> QED BY <4>1, <4>2
    <3>7. Walking(fs, name, n)
      BY <3>2, <3>5, <3>6 DEF Walking, fs
    <3>8. v[n] = fs
      BY <2>1, <2>3 DEF fs
    <3>9. n \in 0 .. Len(name)
      BY <1>3
    <3> QED BY <3>7, <3>8, <3>9
  <2>4. CASE ~(name[n] = Slash /\ ~Contains(w, d))
    <3>1. v[n] = w
      BY <2>1, <2>4
    <3>2. ASSUME NEW m \in 1 .. n, name[m] = Slash PROVE Contains(w, SubSeq(name, 1, m))
      <4>1. m = n \/ m \in 1 .. n - 1
        OBVIOUS
      <4> QED BY <2>1, <2>4, <3>2, <4>1 DEF Walking
    <3>3. Walking(w, name, n)
      BY <2>1, <3>2 DEF Walking
    <3> QED BY <3>1, <3>3
  <2> QED BY <2>3, <2>4
<1> HIDE DEF S
<1>a. \A n \in 1 .. Len(name) : n - 1 \in S => n \in S
  BY <1>5
<1>b. \A n \in 0 .. Len(name) : n \in S
  BY <1>3, <1>4, <1>a, Upwards
<1>6. Len(name) \in S
  BY <1>3, <1>b
<1> DEFINE w == v[Len(name)]
<1>7. w \in Seq(Strings) /\ Walking(w, name, Len(name)) /\ Walk(es, name) = Append(w, name)
  BY <1>2, <1>3, <1>6 DEF S, WalkStep
<1> HIDE DEF w
<1>8. name \in Strings /\ ~IsFolder(name)
  BY DEF FileName
<1>9. \A f \in FoldersOf(name) : Contains(w, f)
  <2>1. SubSeq(name, 1, Len(name)) = name
    BY <1>1
  <2>2. Len(name) \in 1 .. Len(name)
    BY <1>3
  <2>3. \A f \in FoldersOf(SubSeq(name, 1, Len(name))) :
           \E m \in 1 .. Len(name) : name[m] = Slash /\ f = SubSeq(name, 1, m)
    BY <1>8, <2>2, FoldersIn
  <2> QED BY <1>7, <2>1, <2>3 DEF Walking
<1>10. Framed(Append(w, name))
  BY <1>7, <1>8, <1>9, FramedAppend DEF Walking
<1> DEFINE fs == Append(w, name)
<1>11. /\ fs \in Seq(Strings) /\ Len(w) \in Nat /\ fs[Len(w) + 1] = name
       /\ DOMAIN w = 1 .. Len(w) /\ DOMAIN fs = 1 .. Len(w) + 1
       /\ \A k \in 1 .. Len(w) : fs[k] = w[k]
  BY <1>7, <1>8, Appended
<1>12. ASSUME NEW k \in 1 .. Len(w), Used(w, k) \/ IsPrefix(w[k], name) PROVE Used(fs, k)
  BY <1>7, <1>8, <1>12, UsedAppend
<1> HIDE DEF fs
<1>13. ASSUME NEW k \in DOMAIN fs, IsFolder(fs[k]) PROVE Used(fs, k)
  <2>1. k \in 1 .. Len(w)
    BY <1>8, <1>11, <1>13
  <2> QED BY <1>7, <1>11, <1>12, <1>13, <2>1 DEF Walking
<1> QED BY <1>7, <1>10, <1>11, <1>13 DEF AllUsed, fs

\* archive.go:70-103, zip.go:75-98, tar.go:70-95: whatever the order of the files, each
\* folder is in front of them, once, and none is there without a file behind it.
THEOREM WalkRight ==
    ASSUME NEW path, NEW V, NEW files \in Seq(V), \A f \in V : FileName(NameIn(f, path))
    PROVE  Walked(Entries(files, path))
<1> DEFINE n == Len(files)
           Good(es) == es \in Seq(Strings) /\ Framed(es) /\ AllUsed(es)
<1>1. n \in Nat /\ Strings = Seq(Nat) /\ \A f \in V : NameIn(f, path) \in Seq(Nat)
  BY DEF FileName, Strings
<1>2. PICK v \in [0 .. Len(files) -> Seq(Seq(Nat))] : EntriesStep(v, files, path)
  BY <1>1, EntriesSteps
<1> DEFINE S == { k \in 0 .. n : Good(v[k]) }
<1>3. 0 \in S
  <2>1. v[0] = <<>>
    BY <1>2 DEF EntriesStep
  <2>2. Good(<<>>)
    BY DEF Framed, AllUsed
  <2> HIDE DEF Good
  <2> QED BY <1>1, <2>1, <2>2
<1>4. ASSUME NEW k \in 1 .. n, k - 1 \in S PROVE k \in S
  <2>1. /\ Good(v[k - 1]) /\ k \in 0 .. n /\ files[k] \in V
    BY <1>1, <1>4
  <2>2. v[k] = Walk(v[k - 1], NameIn(files[k], path))
    BY <1>2, Zenon DEF EntriesStep
  <2>3. FileName(NameIn(files[k], path))
    BY <2>1
  <2>4. Good(v[k])
    BY <2>1, <2>2, <2>3, WalkKeeps
  <2> QED BY <2>1, <2>4
<1> HIDE DEF S
<1>5. \A k \in 0 .. n : k \in S
  BY <1>1, <1>3, <1>4, Upwards
<1> DEFINE es == Entries(files, path)
<1>6. Good(es)
  <2>1. n \in S
    BY <1>1, <1>5
  <2>2. es = v[n]
    BY <1>2 DEF EntriesStep
  <2> HIDE DEF Good
  <2> QED BY <2>1, <2>2 DEF S
<1> HIDE DEF es
<1>7. DOMAIN es = 1 .. Len(es) /\ Len(es) \in Nat
  BY <1>6
<1>8. ASSUME NEW k \in DOMAIN es, NEW d \in FoldersOf(es[k])
      PROVE  LET at == { j \in DOMAIN es : es[j] = d }
             IN  Cardinality(at) = 1 /\ \A j \in at : j <= k
  <2>1. PICK j \in 1 .. k : es[j] = d
    BY <1>6, <1>8 DEF Framed
  <2>2. IsFolder(d)
    <3>1. es[k] \in Strings
      BY <1>6, <1>7
    <3>2. PICK m \in DOMAIN es[k] : es[k][m] = Slash /\ d = SubSeq(es[k], 1, m)
      BY DEF FoldersOf
    <3>3. m \in 1 .. Len(es[k])
      BY <3>1 DEF Strings
    <3> QED BY <3>1, <3>2, <3>3, FoldersIn
  <2>3. j \in DOMAIN es /\ j <= k
    BY <1>7
  <2>4. { i \in DOMAIN es : es[i] = d } = {j}
    BY <1>6, <2>1, <2>2, <2>3 DEF Framed
  <2> QED BY <2>3, <2>4, FS_Singleton
<1>9. Walked(es)
  BY <1>6, <1>8, Zenon DEF Walked, AllUsed, Used, IsFolder
<1> QED BY <1>9 DEF es

\* Nothing new comes with Kept.
LEMMA KeptType ==
    ASSUME NEW V, NEW s \in Seq(V), NEW K
    PROVE  Kept(s, K) \in Seq(V)
<1>1. PICK v \in [0 .. Len(s) -> Seq(V)] : KeptStep(v, s, K)
  BY KeptSteps
<1>2. Len(s) \in 0 .. Len(s)
  OBVIOUS
<1> QED BY <1>1, <1>2 DEF KeptStep

\* Kept keeps what is in K, all of it.
LEMMA KeptElements ==
    ASSUME NEW V, NEW s \in Seq(V), NEW K
    PROVE  ToSet(Kept(s, K)) = ToSet(s) \cap K /\ Kept(s, K) \in Seq(V \cap K)
<1> DEFINE Good(q) == ToSet(Kept(q, K)) = ToSet(q) \cap K /\ Kept(q, K) \in Seq(V \cap K)
           S == { q \in Seq(V) : Good(q) }
<1>1. \A W : <<>> \in Seq(W) /\ ToSet(<<>>) = {}
  BY DEF ToSet
<1>2. <<>> \in S
  <2>1. Kept(<<>>, K) = <<>>
    <3>1. PICK v \in [0 .. Len(<<>>) -> Seq(V)] : KeptStep(v, <<>>, K)
      BY <1>1, KeptSteps
    <3> QED BY <3>1 DEF KeptStep
  <2> QED BY <1>1, <2>1
<1>3. ASSUME NEW W, NEW q \in Seq(W), NEW e \in W
      PROVE  ToSet(Append(q, e)) = ToSet(q) \cup {e}
  <2>1. PICK t : t = Append(q, e)
    OBVIOUS
  <2>2. /\ Len(q) \in Nat /\ DOMAIN q = 1 .. Len(q) /\ DOMAIN t = 1 .. Len(q) + 1
        /\ t[Len(q) + 1] = e /\ \A k \in 1 .. Len(q) : t[k] = q[k]
    BY <2>1, Appended
  <2>3. ToSet(t) = ToSet(q) \cup {e}
    BY <2>2 DEF ToSet
  <2> QED BY <2>1, <2>3
<1>4. ASSUME NEW q \in Seq(V), q \in S, NEW e \in V PROVE Append(q, e) \in S
  <2>1. Kept(Append(q, e), K) = IF e \in K THEN Append(Kept(q, K), e) ELSE Kept(q, K)
    BY KeptIs
  <2>2. Append(q, e) \in Seq(V) /\ ToSet(Append(q, e)) = ToSet(q) \cup {e}
    BY <1>3
  <2>3. CASE e \in K
    <3>1. Append(Kept(q, K), e) \in Seq(V \cap K)
      BY <1>4, <2>3
    <3>2. ToSet(Append(Kept(q, K), e)) = ToSet(Kept(q, K)) \cup {e}
      BY <1>3, <1>4, <2>3
    <3> QED BY <1>4, <2>1, <2>2, <2>3, <3>1, <3>2
  <2>4. CASE e \notin K
    BY <1>4, <2>1, <2>2, <2>4
  <2> QED BY <2>3, <2>4
<1> HIDE DEF S
<1>5. s \in S
  BY <1>2, <1>4, SeqInduction
<1> QED BY <1>5 DEF S

\* A component of a path: no separator in it, and not empty.
Component(c, sep) == c \in Strings /\ c # <<>> /\ sep \notin ToSet(c)

\* Components with slashes between them name a file, not a folder.
LEMMA JoinedName ==
    ASSUME NEW cs \in Seq({ c \in Strings : Component(c, Slash) }), cs # <<>>
    PROVE  FileName(Joined(cs, Slash))
<1> DEFINE V == { c \in Strings : Component(c, Slash) }
           S == { q \in Seq(V) : q # <<>> => FileName(Joined(q, Slash)) }
<1>1. <<>> \in S
  OBVIOUS
<1>2. ASSUME NEW q \in Seq(V), q \in S, NEW c \in V PROVE Append(q, c) \in S
  <2>1. FileName(c)
    <3>1. c \in Seq(Nat) /\ c # <<>> /\ \A k \in 1 .. Len(c) : c[k] # Slash
      BY DEF Component, ToSet, Strings
    <3>2. Len(c) \in 1 .. Len(c)
      BY <3>1
    <3> QED BY <3>1, <3>2 DEF FileName, IsFolder, Last, Strings
  <2>2. /\ q \in Seq(Seq(Nat)) /\ c \in Seq(Nat) /\ Slash \in Nat
    BY CodeAssumption DEF Strings
  <2>3. /\ Joined(q, Slash) \in Seq(Nat)
        /\ Joined(Append(q, c), Slash) = IF q = <<>> THEN c ELSE Joined(q, Slash) \o <<Slash>> \o c
    <3>1. Joined(q, Slash) \in Seq(Nat) /\ JoinedEqs(q, c, Slash)
      BY <2>2, JoinedIs
    <3> QED BY <3>1 DEF JoinedEqs
  <2>4. CASE q = <<>>
    BY <2>1, <2>3, <2>4
  <2>5. CASE q # <<>>
    <3>1. PICK t : t = Joined(q, Slash) \o <<Slash>> \o c
      OBVIOUS
    <3>2. /\ t \in Seq(Nat) /\ Len(c) # 0 /\ Len(t) = Len(Joined(q, Slash)) + 1 + Len(c)
          /\ Len(t) # 0 /\ t[Len(t)] = c[Len(c)]
      BY <2>1, <2>2, <2>3, <3>1, SMTT(30) DEF FileName
    <3>3. FileName(t)
      BY <2>1, <3>2 DEF FileName, IsFolder, Last, Strings
    <3>4. Joined(Append(q, c), Slash) = t
      BY <2>3, <2>5, <3>1
    <3> HIDE DEF V
    <3> QED BY <3>3, <3>4
  <2> QED BY <2>4, <2>5
<1> HIDE DEF S
<1>3. cs \in S
  BY <1>1, <1>2, SeqInduction
<1> QED BY <1>3 DEF S

\* SubSeq, as functions go.
LEMMA SubSeqIs ==
    ASSUME NEW X, NEW p \in Seq(X), NEW b \in Nat, NEW n \in Nat, 1 <= b, b <= n + 1, n <= Len(p)
    PROVE  /\ SubSeq(p, b, n) \in Seq(X) /\ Len(SubSeq(p, b, n)) = n - b + 1
           /\ \A i \in 1 .. (n - b + 1) : SubSeq(p, b, n)[i] = p[b + i - 1]
<1>1. SubSeq(p, b, n) \in Seq(X) 
  OBVIOUS
<1>2. Len(SubSeq(p, b, n)) = n - b + 1
  OBVIOUS
<1>3. \A i \in 1 .. (n - b + 1) : SubSeq(p, b, n)[i] = p[b + i - 1]
  OBVIOUS
<1> QED BY <1>1, <1>2, <1>3

\* What is left of the name of a file is the name of a file.
LEMMA NameInFile ==
    ASSUME NEW f, NEW path \in Strings, FileName(f.path)
    PROVE  FileName(NameIn(f, path))
<1> DEFINE p == f.path
           d == path \o <<Slash>>
<1>1. /\ p \in Seq(Nat) /\ Len(p) \in Nat /\ Len(p) # 0 /\ p[Len(p)] # Slash
      /\ d \in Seq(Nat) /\ Len(path) \in Nat /\ Len(d) = Len(path) + 1 /\ d[Len(d)] = Slash
  BY CodeAssumption DEF FileName, Strings, IsFolder, Last
<1> HIDE DEF p, d
<1>2. CASE IsPrefix(d, p)
  <2>1. Len(d) <= Len(p) /\ SubSeq(d, 1, Len(d))[Len(d)] = SubSeq(p, 1, Len(d))[Len(d)]
    BY <1>2 DEF IsPrefix
  <2>2. p[Len(d)] = Slash
    BY <1>1, <2>1
  <2>3. Len(d) < Len(p)
    BY <1>1, <2>1, <2>2
  <2>4. PICK t : t = SubSeq(p, Len(path) + 2, Len(p))
    OBVIOUS
  <2>5. t \in Seq(Nat) /\ Len(t) = Len(p) - (Len(path) + 1) /\ Len(t) # 0 /\ t[Len(t)] = p[Len(p)]
    <3>a. Len(path) \in Nat /\ Len(p) \in Nat /\ Len(path) + 2 <= Len(p)
      BY <1>1, <2>3
    <3>b. PICK b : b = Len(path) + 2
      OBVIOUS
    <3>c. PICK n : n = Len(p)
      OBVIOUS
    <3>1. b \in Nat /\ n \in Nat /\ 1 <= b /\ b <= n
      BY <3>a, <3>b, <3>c
    <3>2. t = SubSeq(p, b, n)
      BY <2>4, <3>b, <3>c
    <3> HIDE DEF p
    <3>3. /\ t \in Seq(Nat) /\ Len(t) = n - b + 1 /\ \A i \in 1 .. Len(t) : t[i] = p[b + i - 1]
      <4>1. n <= Len(p) /\ p \in Seq(Nat) /\ b <= n + 1
        BY <1>1, <3>1, <3>c
      <4> QED BY <3>1, <3>2, <4>1, SubSeqIs
    <3>4. PICK m : m = Len(t)
      OBVIOUS
    <3>5. m \in 1 .. m /\ (b + m - 1) = n /\ m = n - (Len(path) + 1)
      BY <3>a, <3>b, <3>c, <3>1, <3>3, <3>4
    <3>6. t[m] = p[n] /\ m # 0
      BY <3>3, <3>4, <3>5
    <3> QED BY <3>3, <3>4, <3>5, <3>6, <3>c
  <2>6. FileName(t)
    BY <1>1, <2>5 DEF FileName, IsFolder, Last, Strings
  <2> QED BY <1>2, <2>4, <2>6 DEF NameIn, d, p
<1>3. CASE ~IsPrefix(d, p)
  BY <1>3 DEF NameIn, d, p
<1> QED BY <1>2, <1>3

\* Min of a set of places.
LEMMA LeastIs ==
    ASSUME NEW n \in Nat, NEW S \in SUBSET (1 .. n), S # {}
    PROVE  Min(S) \in S /\ \A k \in S : Min(S) <= k
<1> DEFINE T == { m \in 0 .. n : \A k \in S : k > m }
<1>1. \E x \in S : \A k \in S : x <= k
  <2> SUFFICES ASSUME \A x \in S : \E k \in S : k < x PROVE FALSE
    OBVIOUS
  <2>1. 0 \in T
    OBVIOUS
  <2>2. \A m \in 1 .. n : m - 1 \in T => m \in T
    <3> SUFFICES ASSUME NEW m \in 1 .. n, m - 1 \in T, NEW k \in S, ~(k > m) PROVE FALSE
      OBVIOUS
    <3>1. k = m
      OBVIOUS
    <3>2. PICK j \in S : j < m
      BY <3>1
    <3> QED BY <3>2
  <2> HIDE DEF T
  <2>3. n \in T
    BY <2>1, <2>2, Upwards
  <2>4. PICK k : k \in S
    OBVIOUS
  <2>5. k \in 1 .. n /\ k <= n
    BY <2>4
  <2> QED BY <2>3, <2>4, <2>5 DEF T
<1> QED BY <1>1, Zenon DEF Min

\* strings.TrimLeft gives a string.
LEMMA TrimmedLeftType ==
    ASSUME NEW s \in Strings
    PROVE  TrimmedLeft(s) \in Strings
<1> DEFINE kept == { k \in 1 .. Len(s) : s[k] # Slash }
<1>1. s \in Seq(Nat) /\ Len(s) \in Nat
  BY DEF Strings
<1>2. CASE kept = {}
  BY <1>2 DEF TrimmedLeft, Strings
<1>3. CASE kept # {}
  <2>1. PICK m : m = Min(kept)
    OBVIOUS
  <2>2. m \in 1 .. Len(s)
    BY <1>1, <1>3, <2>1, LeastIs
  <2>3. SubSeq(s, m, Len(s)) \in Seq(Nat)
    BY <1>1, <2>2
  <2>4. TrimmedLeft(s) = SubSeq(s, m, Len(s))
    BY <1>3, <2>1 DEF TrimmedLeft
  <2> QED BY <2>3, <2>4 DEF Strings
<1> QED BY <1>2, <1>3

\* strings.TrimPrefix gives a string.
LEMMA NameInType ==
    ASSUME NEW f, f.path \in Strings, NEW path \in Strings
    PROVE  NameIn(f, path) \in Strings
<1> DEFINE p == f.path
           d == path \o <<Slash>>
<1>1. /\ p \in Seq(Nat) /\ Len(p) \in Nat
      /\ Len(path) \in Nat /\ Len(d) = Len(path) + 1
  BY CodeAssumption DEF Strings
<1> HIDE DEF p, d
<1>2. CASE IsPrefix(d, p)
  <2>1. Len(d) <= Len(p)
    BY <1>2 DEF IsPrefix
  <2>2. PICK b : b = Len(path) + 2
    OBVIOUS
  <2>3. b \in Nat /\ 1 <= b /\ b <= Len(p) + 1
    BY <1>1, <2>1, <2>2
  <2>4. SubSeq(p, b, Len(p)) \in Seq(Nat)
    BY <1>1, <2>3, SubSeqIs
  <2> QED BY <1>2, <2>2, <2>4 DEF NameIn, Strings, d, p
<1>3. CASE ~IsPrefix(d, p)
  BY <1>1, <1>3 DEF NameIn, Strings, d, p
<1> QED BY <1>2, <1>3

\* An element of the file list.
Elements == [path : Strings, size : Nat]

\* Nonempty drops what is empty, and only that.
LEMMA NonemptyIs ==
    ASSUME NEW V, NEW s \in Seq(V)
    PROVE  Nonempty(s) \in Seq(V \ {<<>>}) /\ ToSet(Nonempty(s)) = ToSet(s) \ {<<>>}
<1> DEFINE K == ToSet(s) \ {<<>>}
<1>1. ToSet(Kept(s, K)) = ToSet(s) \cap K /\ Kept(s, K) \in Seq(V \cap K)
  BY KeptElements
<1>2. V \cap K \subseteq V \ {<<>>}
  OBVIOUS
<1>3. \A W, U : W \subseteq U => Seq(W) \subseteq Seq(U)
  OBVIOUS
<1>4. Nonempty(s) = Kept(s, K)
  BY DEF Nonempty
<1> HIDE DEF K
<1>5. Kept(s, K) \in Seq(V \ {<<>>})
  <2>1. V \cap K \subseteq V \ {<<>>}
    BY <1>2
  <2>2. Seq(V \cap K) \subseteq Seq(V \ {<<>>})
    BY <1>3, <2>1
  <2> QED BY <1>1, <2>2
<1>6. ToSet(Kept(s, K)) = ToSet(s) \ {<<>>}
  <2>1. ToSet(s) \cap K = ToSet(s) \ {<<>>}
    BY DEF K
  <2> QED BY <1>1, <2>1
<1> QED BY <1>4, <1>5, <1>6

\* What a file of a torrent is called, component by component.
LEMMA GetPathType ==
    ASSUME NEW torrent, TorrentName(torrent) \in Strings, NEW f \in FileInfos
    PROVE  /\ GetPath(torrent, f) \in Seq(Strings \ {<<>>})
           /\ ToSet(GetPath(torrent, f))
                = ({TorrentName(torrent)} \cup ToSet(Components(f))) \ {<<>>}
<1> DEFINE s == <<TorrentName(torrent)>> \o Components(f)
<1>1. Components(f) \in Seq(Strings)
  BY DEF Components, FileInfos
<1>2. s \in Seq(Strings) /\ Len(s) = Len(Components(f)) + 1 /\ Len(Components(f)) \in Nat
      /\ s[1] = TorrentName(torrent) /\ \A k \in 1 .. Len(Components(f)) : s[k + 1] = Components(f)[k]
  BY <1>1
<1>3. ToSet(s) = {TorrentName(torrent)} \cup ToSet(Components(f))
  <2> DEFINE cs == Components(f)
  <2> HIDE DEF s
  <2>1. DOMAIN s = 1 .. Len(cs) + 1 /\ DOMAIN cs = 1 .. Len(cs)
    BY <1>1, <1>2
  <2> HIDE DEF cs
  <2>2. \A k \in 2 .. Len(cs) + 1 : k - 1 \in 1 .. Len(cs) /\ (k - 1) + 1 = k /\ s[k] = cs[k - 1]
    BY <1>2 DEF cs
  <2>3. ToSet(s) \subseteq {TorrentName(torrent)} \cup ToSet(cs)
    <3> SUFFICES ASSUME NEW k \in DOMAIN s PROVE s[k] \in {TorrentName(torrent)} \cup ToSet(cs)
      BY DEF ToSet
    <3>1. k = 1 \/ k \in 2 .. Len(cs) + 1
      BY <2>1
    <3> QED BY <1>2, <2>1, <2>2, <3>1 DEF ToSet
  <2>4. {TorrentName(torrent)} \cup ToSet(cs) \subseteq ToSet(s)
    <3>1. TorrentName(torrent) \in ToSet(s)
      <4>1. 1 \in DOMAIN s
        BY <1>2, <2>1 DEF cs
      <4> QED BY <1>2, <4>1 DEF ToSet
    <3>2. ASSUME NEW k \in DOMAIN cs PROVE cs[k] \in ToSet(s)
      <4>1. k + 1 \in DOMAIN s /\ s[k + 1] = cs[k]
        BY <1>2, <2>1 DEF cs
      <4> QED BY <4>1 DEF ToSet
    <3> QED BY <3>1, <3>2 DEF ToSet
  <2> QED BY <2>3, <2>4 DEF cs
<1> HIDE DEF s
<1> QED BY <1>2, <1>3, NonemptyIs DEF GetPath, s

\* strings.Join gives a string.
LEMMA JoinedType ==
    ASSUME NEW ps \in Seq(Strings), NEW sep \in Nat
    PROVE  Joined(ps, sep) \in Strings
<1>1. PICK v \in [0 .. Len(ps) -> Seq(Nat)] : JoinedStep(v, ps, sep)
  BY JoinedSteps DEF Strings
<1>2. Len(ps) \in 0 .. Len(ps)
  OBVIOUS
<1> QED BY <1>1, <1>2 DEF JoinedStep, Strings

\* The list of a torrent, and the names in it.
LEMMA ListedType ==
    ASSUME NEW h \in DOMAIN Torrents
    PROVE  /\ Listed(Torrents[h]) \in Seq(Elements)
           /\ WellNamed => Listed(Torrents[h]) \in Seq({ f \in Elements : FileName(f.path) })
<1> DEFINE torrent == Torrents[h]
           K == { f \in ToSet(torrent.files) : ~IsPadFile(f) }
           real == Kept(torrent.files, K)
           PathOf(f) == Joined(GetPath(torrent, f), Slash)
           InfoOf(f) == [path |-> PathOf(f), size |-> f.size]
<1>1. TorrentName(torrent) \in Strings /\ torrent.files \in Seq(FileInfos)
  BY PodAssumption DEF TorrentName
<1>2. real \in Seq(FileInfos \cap K)
  BY <1>1, KeptElements
<1>3. Listed(torrent) = [n \in 1 .. Len(real) |-> InfoOf(real[n])]
  BY Zenon DEF Listed
<1>4. ASSUME NEW f \in FileInfos \cap K
      PROVE  InfoOf(f) \in Elements /\ (WellNamed => FileName(InfoOf(f).path))
  <2>1. /\ GetPath(torrent, f) \in Seq(Strings \ {<<>>})
        /\ ToSet(GetPath(torrent, f)) = ({TorrentName(torrent)} \cup ToSet(Components(f))) \ {<<>>}
    BY <1>1, GetPathType
  <2> DEFINE cs == GetPath(torrent, f)
  <2> HIDE DEF torrent, cs, K
  <2>2. cs \in Seq(Strings)
    BY <2>1 DEF cs
  <2>3. Joined(cs, Slash) \in Strings /\ f.size \in Nat
    BY <2>2, JoinedType, CodeAssumption DEF FileInfos
  <2>4. ASSUME WellNamed PROVE FileName(Joined(cs, Slash))
    <3>1. cs # <<>>
      <4>1. TorrentName(torrent) # <<>>
        BY <2>4 DEF WellNamed, torrent
      <4>2. TorrentName(torrent) \in ToSet(cs)
        BY <2>1, <4>1 DEF cs
      <4> QED BY <4>2 DEF ToSet
    <3>2. \A c \in ToSet(cs) : Component(c, Slash)
      <4> SUFFICES ASSUME NEW c \in ToSet(cs) PROVE Component(c, Slash)
        OBVIOUS
      <4>1. c \in {TorrentName(torrent)} \cup ToSet(Components(f)) /\ c # <<>>
        BY <2>1 DEF cs
      <4>2. f \in ToSet(torrent.files)
        BY DEF K
      <4>3. Slash \notin ToSet(c)
        BY <2>4, <4>1, <4>2 DEF WellNamed, torrent
      <4>4. c \in Strings
        <5>1. PICK k \in DOMAIN cs : c = cs[k]
          BY DEF ToSet
        <5> QED BY <2>2, <5>1
      <4> QED BY <4>1, <4>3, <4>4 DEF Component
    <3>3. cs \in Seq({ c \in Strings : Component(c, Slash) })
      <4>1. \A k \in 1 .. Len(cs) : cs[k] \in { c \in Strings : Component(c, Slash) }
        BY <2>2, <3>2 DEF ToSet
      <4> QED BY <2>2, <4>1
    <3> QED BY <3>1, <3>3, JoinedName
  <2> QED BY <2>3, <2>4 DEF Elements, cs
<1> HIDE DEF InfoOf, real, torrent, K
<1>5. \A n \in 1 .. Len(real) : real[n] \in FileInfos \cap K
  BY <1>2
<1>6. Len(real) \in Nat
  BY <1>2
<1>7. ASSUME NEW W, \A f \in FileInfos \cap K : InfoOf(f) \in W PROVE Listed(torrent) \in Seq(W)
  BY <1>3, <1>5, <1>6, <1>7
<1>8. Listed(torrent) \in Seq(Elements)
  BY <1>4, <1>7
<1>9. WellNamed => Listed(torrent) \in Seq({ f \in Elements : FileName(f.path) })
  BY <1>4, <1>7
<1> QED BY <1>8, <1>9 DEF torrent

\* The entries are strings.
LEMMA EntriesType ==
    ASSUME NEW path \in Strings, NEW files \in Seq(Elements)
    PROVE  Entries(files, path) \in Seq(Strings)
<1>1. \A f \in Elements : NameIn(f, path) \in Seq(Nat)
  BY NameInType DEF Elements, Strings
<1>2. PICK v \in [0 .. Len(files) -> Seq(Seq(Nat))] : EntriesStep(v, files, path)
  BY <1>1, EntriesSteps
<1>3. Len(files) \in 0 .. Len(files)
  OBVIOUS
<1> QED BY <1>2, <1>3 DEF EntriesStep, Strings

\* generateFileList makes no files up.
LEMMA FilesType ==
    ASSUME NEW V, NEW files \in Seq(V), NEW path, NEW selected
    PROVE  GenerateFileList(files, path, selected) \in Seq(V)
BY KeptType DEF GenerateFileList

\* An archive has a size, and it is not nothing.
LEMMA PlanSize ==
    ASSUME NEW a \in AllAsks
    PROVE  Planned(a).size \in Nat \ {0}
<1>1. PICK path : path = TrimmedLeft(a.path)
  OBVIOUS
<1>2. PICK files : files = GenerateFileList(Listed(Torrents[a.hash]), path, SelectedPaths(a.values))
  OBVIOUS
<1>3. PICK entries : entries = Entries(files, path)
  OBVIOUS
<1>4. Planned(a).size = ArchiveSize(files, entries)
  BY <1>1, <1>2, <1>3 DEF Planned
<1>5. a.path \in Strings /\ a.hash \in DOMAIN Torrents
  BY PodAssumption DEF AllAsks
<1>6. path \in Strings /\ files \in Seq(Elements)
  BY <1>1, <1>2, <1>5, TrimmedLeftType, ListedType, FilesType
<1>7. entries \in Seq(Strings)
  BY <1>3, <1>6, EntriesType
<1>8. Len(entries) \in Nat /\ \A f \in Elements : f.size \in Nat
  BY <1>7 DEF Elements
<1>9. PICK v \in [0 .. Len(files) -> Nat \ {0}] : SizeStep(v, files, entries)
  BY <1>6, <1>8, SizeSteps
<1>10. Len(files) \in 0 .. Len(files)
  BY <1>6
<1> QED BY <1>4, <1>9, <1>10 DEF SizeStep

\* Every archive is a walk over its folders done right.
LEMMA PlanWalked ==
    ASSUME WellNamed, NEW a \in AllAsks
    PROVE  Walked(Planned(a).entries)
<1>1. PICK path : path = TrimmedLeft(a.path)
  OBVIOUS
<1>2. PICK files : files = GenerateFileList(Listed(Torrents[a.hash]), path, SelectedPaths(a.values))
  OBVIOUS
<1>3. Planned(a).entries = Entries(files, path)
  BY <1>1, <1>2 DEF Planned
<1>4. a.path \in Strings /\ a.hash \in DOMAIN Torrents
  BY PodAssumption DEF AllAsks
<1> DEFINE V == { f \in Elements : FileName(f.path) }
<1>5. path \in Strings /\ files \in Seq(V)
  BY <1>1, <1>2, <1>4, TrimmedLeftType, ListedType, FilesType
<1>6. \A f \in V : FileName(NameIn(f, path))
  BY <1>5, NameInFile
<1> QED BY <1>3, <1>5, <1>6, WalkRight
-----------------------------------------------------------------------------
(* sort.Strings: web.go:120. *)

\* Go's order of strings is one.
LEMMA NeverBeforeItself ==
    ASSUME NEW s \in Strings
    PROVE  ~Before(s, s)
<1>1. Len(s) \in Nat /\ \A k \in 1 .. Len(s) : s[k] \in Nat
  BY DEF Strings
<1> QED BY <1>1 DEF Before

\* It is transitive,
LEMMA BeforeTransitive ==
    ASSUME NEW s \in Strings, NEW t \in Strings, NEW u \in Strings, Before(s, t), Before(t, u)
    PROVE  Before(s, u)
<1>1. /\ Len(s) \in Nat /\ Len(t) \in Nat /\ Len(u) \in Nat
      /\ \A k \in 1 .. Len(s) : s[k] \in Nat
      /\ \A k \in 1 .. Len(t) : t[k] \in Nat
      /\ \A k \in 1 .. Len(u) : u[k] \in Nat
  BY DEF Strings
<1>2. PICK k \in 1 .. Len(t) : /\ \A j \in 1 .. k - 1 : j <= Len(s) /\ s[j] = t[j]
                               /\ k > Len(s) \/ s[k] < t[k]
  BY DEF Before
<1>3. PICK l \in 1 .. Len(u) : /\ \A j \in 1 .. l - 1 : j <= Len(t) /\ t[j] = u[j]
                               /\ l > Len(t) \/ t[l] < u[l]
  BY DEF Before
<1>4. CASE k < l
  <2>1. k \in 1 .. Len(u) /\ t[k] = u[k] /\ \A j \in 1 .. k - 1 : j <= Len(s) /\ s[j] = u[j]
    BY <1>1, <1>2, <1>3, <1>4
  <2> QED BY <1>2, <2>1 DEF Before
<1>5. CASE ~(k < l)
  <2>1. t[l] < u[l] /\ \A j \in 1 .. l - 1 : j <= Len(s) /\ s[j] = u[j]
    BY <1>1, <1>2, <1>3, <1>5
  <2>2. l > Len(s) \/ s[l] < u[l]
    <3>1. CASE l = k
      <4>1. l > Len(s) \/ s[l] < t[l]
        BY <1>2, <3>1
      <4>2. l <= Len(s) => s[l] \in Nat /\ t[l] \in Nat /\ u[l] \in Nat
        BY <1>1, <3>1
      <4>3. ASSUME NEW x \in Nat, NEW y \in Nat, NEW z \in Nat, x < y, y < z PROVE x < z
        BY <4>3
      <4>4. CASE l <= Len(s)
        <5>1. s[l] < t[l]
          BY <1>1, <4>1, <4>4
        <5> QED BY <2>1, <4>2, <4>3, <4>4, <5>1
      <4> QED BY <1>1, <4>4
    <3>2. CASE l # k
      <4>1. s[l] = t[l]
        BY <1>1, <1>2, <1>3, <1>5, <3>2
      <4> QED BY <2>1, <4>1
    <3> QED BY <3>1, <3>2
  <2> QED BY <2>1, <2>2 DEF Before
<1> QED BY <1>4, <1>5

\* and total.
LEMMA BeforeTotal ==
    ASSUME NEW s \in Strings, NEW t \in Strings, s # t
    PROVE  Before(s, t) \/ Before(t, s)
<1>1. /\ s \in Seq(Nat) /\ t \in Seq(Nat) /\ Len(s) \in Nat /\ Len(t) \in Nat
  BY DEF Strings
<1>2. PICK n : n = IF Len(s) >= Len(t) THEN Len(s) ELSE Len(t)
  OBVIOUS
<1>a. n \in Nat /\ n >= Len(s) /\ n >= Len(t) /\ (n = Len(s) \/ n = Len(t))
  BY <1>1, <1>2
<1> DEFINE D == { k \in 1 .. n : k > Len(s) \/ k > Len(t) \/ s[k] # t[k] }
<1>3. D # {}
  <2> SUFFICES ASSUME D = {} PROVE s = t
    OBVIOUS
  <2>1. \A k \in 1 .. n : k <= Len(s) /\ k <= Len(t) /\ s[k] = t[k]
    BY <1>1, SMTT(30)
  <2>2. Len(s) = Len(t)
    BY <1>1, <1>a, <2>1
  <2> QED BY <1>1, <1>a, <2>1, <2>2
<1>4. PICK k : k = Min(D)
  OBVIOUS
<1>5. k \in D /\ \A j \in D : k <= j
  <2> HIDE DEF D
  <2>1. D \in SUBSET (1 .. n)
    BY DEF D
  <2> QED BY <1>3, <1>4, <1>a, <2>1, LeastIs
<1>6. \A j \in 1 .. k - 1 : j <= Len(s) /\ j <= Len(t) /\ s[j] = t[j]
  BY <1>1, <1>a, <1>5, SMTT(30)
<1>7. CASE k > Len(s)
  BY <1>1, <1>a, <1>5, <1>6, <1>7, SMTT(30) DEF Before
<1>8. CASE k > Len(t)
  BY <1>1, <1>a, <1>5, <1>6, <1>8, SMTT(30) DEF Before
<1>9. CASE k <= Len(s) /\ k <= Len(t)
  <2>1. s[k] \in Nat /\ t[k] \in Nat /\ s[k] # t[k] /\ k \in 1 .. Len(s) /\ k \in 1 .. Len(t)
    BY <1>1, <1>5, <1>9
  <2> QED BY <1>6, <2>1 DEF Before
<1> QED BY <1>1, <1>5, <1>7, <1>8, <1>9

\* The last of S.
LastOf(S, m) == m \in S /\ \A s \in S \ {m} : Before(s, m)

\* Of finitely many strings one is the last,
LEMMA LastExists ==
    ASSUME NEW S \in SUBSET Strings, IsFiniteSet(S), S # {}
    PROVE  \E m \in S : LastOf(S, m)
<1> DEFINE N == { n \in Nat : \A R \in SUBSET Strings :
                    IsFiniteSet(R) /\ Cardinality(R) = n /\ R # {} => \E m \in R : LastOf(R, m) }
<1>1. 0 \in N
  <2>1. \A R : IsFiniteSet(R) /\ Cardinality(R) = 0 => R = {}
    BY FS_EmptySet
  <2> QED BY <2>1
<1>2. ASSUME NEW n \in Nat, n \in N PROVE n + 1 \in N
  <2> SUFFICES ASSUME NEW R \in SUBSET Strings, IsFiniteSet(R), Cardinality(R) = n + 1, R # {}
               PROVE  \E m \in R : LastOf(R, m)
    BY <1>2
  <2>1. PICK x \in R : TRUE
    OBVIOUS
  <2> DEFINE Q == R \ {x}
  <2>2. IsFiniteSet(Q) /\ Cardinality(Q) = n /\ Q \in SUBSET Strings
    <3>1. IsFiniteSet(Q) /\ Cardinality(Q) = Cardinality(R) - 1
      BY <2>1, FS_RemoveElement
    <3>2. (n + 1) - 1 = n
      OBVIOUS
    <3> QED BY <3>1, <3>2
  <2>3. CASE Q = {}
    BY <2>1, <2>3 DEF LastOf
  <2>4. CASE Q # {}
    <3>1. PICK m \in Q : LastOf(Q, m)
      BY <1>2, <2>2, <2>4
    <3>2. CASE Before(m, x)
      <4>1. \A s \in R \ {x} : Before(s, x)
        BY <3>1, <3>2, BeforeTransitive DEF LastOf
      <4> QED BY <2>1, <4>1 DEF LastOf
    <3>3. CASE Before(x, m)
      <4>1. \A s \in R \ {m} : Before(s, m)
        BY <3>1, <3>3 DEF LastOf
      <4> QED BY <3>1, <4>1 DEF LastOf
    <3> QED BY <2>1, <3>1, <3>2, <3>3, BeforeTotal
  <2> QED BY <2>3, <2>4
<1> HIDE DEF N
<1>3. \A n \in Nat : n \in N
  BY <1>1, <1>2, SetInduction
<1>4. Cardinality(S) \in N
  BY <1>3, FS_CardinalityType
<1> QED BY <1>4 DEF N

\* Each in front of those behind it.
Rising(q) == \A i, j \in DOMAIN q : i < j => Before(q[i], q[j])

\* so that they can be sorted.
LEMMA RisingExists ==
    ASSUME NEW S \in SUBSET Strings, IsFiniteSet(S)
    PROVE  \E q \in [1 .. Cardinality(S) -> S] : Rising(q)
<1> DEFINE N == { n \in Nat : \A R \in SUBSET Strings :
                    IsFiniteSet(R) /\ Cardinality(R) = n => \E q \in [1 .. n -> R] : Rising(q) }
<1>1. 0 \in N
  <2> SUFFICES ASSUME NEW R \in SUBSET Strings PROVE \E q \in [1 .. 0 -> R] : Rising(q)
    OBVIOUS
  <2> DEFINE q == [k \in 1 .. 0 |-> <<>>]
  <2>1. q \in [1 .. 0 -> R] /\ Rising(q)
    BY DEF Rising
  <2> QED BY <2>1
<1>2. ASSUME NEW n \in Nat, n \in N PROVE n + 1 \in N
  <2> SUFFICES ASSUME NEW R \in SUBSET Strings, IsFiniteSet(R), Cardinality(R) = n + 1
               PROVE  \E q \in [1 .. n + 1 -> R] : Rising(q)
    BY <1>2
  <2>1. R # {}
    BY FS_EmptySet
  <2>2. PICK m \in R : LastOf(R, m)
    BY <2>1, LastExists
  <2> DEFINE Q == R \ {m}
  <2>3. IsFiniteSet(Q) /\ Cardinality(Q) = n /\ Q \in SUBSET Strings
    <3>1. IsFiniteSet(Q) /\ Cardinality(Q) = Cardinality(R) - 1
      BY <2>2, FS_RemoveElement
    <3>2. (n + 1) - 1 = n
      OBVIOUS
    <3> QED BY <3>1, <3>2
  <2>4. PICK q \in [1 .. n -> Q] : Rising(q)
    BY <1>2, <2>3
  <2> DEFINE w == [k \in 1 .. n + 1 |-> IF k = n + 1 THEN m ELSE q[k]]
  <2>5. w \in [1 .. n + 1 -> R] /\ w[n + 1] = m /\ \A k \in 1 .. n : w[k] = q[k]
    BY <2>4
  <2> HIDE DEF w
  <2>6. ASSUME NEW i \in 1 .. n + 1, NEW j \in 1 .. n + 1, i < j PROVE Before(w[i], w[j])
    <3>1. i \in 1 .. n /\ w[i] = q[i] /\ q[i] \in Q
      BY <2>4, <2>5, <2>6
    <3>2. CASE j = n + 1
      BY <2>2, <2>5, <3>1, <3>2 DEF LastOf
    <3>3. CASE j # n + 1
      <4>1. j \in 1 .. n /\ w[j] = q[j]
        BY <2>5, <3>3
      <4> QED BY <2>4, <2>6, <3>1, <4>1 DEF Rising
    <3> QED BY <3>2, <3>3
  <2>7. Rising(w)
    BY <2>5, <2>6 DEF Rising
  <2> QED BY <2>5, <2>7
<1> HIDE DEF N
<1>3. \A n \in Nat : n \in N
  BY <1>1, <1>2, SetInduction
<1>4. Cardinality(S) \in N
  BY <1>3, FS_CardinalityType
<1> QED BY <1>4 DEF N

\* sort.Strings and slices.Compact lose nothing.
LEMMA SortedIs ==
    ASSUME NEW S \in SUBSET Strings, IsFiniteSet(S)
    PROVE  Sorted(S) \in Seq(S) /\ ToSet(Sorted(S)) = S
<1> DEFINE n == Cardinality(S)
           q == Sorted(S)
<1>1. n \in Nat
  BY FS_CardinalityType
<1>2. q \in [1 .. n -> S] /\ Rising(q)
  <2>1. \E p \in [1 .. n -> S] : Rising(p)
    BY RisingExists
  <2>2. q = CHOOSE p \in [1 .. n -> S] : Rising(p)
    BY DEF Sorted, Rising
  <2> HIDE DEF q, n
  <2> QED BY <2>1, <2>2, Zenon
<1> HIDE DEF q, n
<1>3. q \in Seq(S) /\ DOMAIN q = 1 .. n
  BY <1>1, <1>2
<1>4. \A i, j \in 1 .. n : q[i] = q[j] => i = j
  <2> SUFFICES ASSUME NEW i \in 1 .. n, NEW j \in 1 .. n, q[i] = q[j], i # j PROVE FALSE
    OBVIOUS
  <2>1. q[i] \in Strings /\ ~Before(q[i], q[i])
    <3>1. q[i] \in Strings
      BY <1>2
    <3> QED BY <3>1, NeverBeforeItself
  <2>2. i < j \/ j < i
    BY <1>1
  <2> QED BY <1>3, <1>2, <2>1, <2>2 DEF Rising
<1>5. ToSet(q) \subseteq S
  BY <1>2 DEF ToSet
<1>6. q \in Bijection(1 .. n, ToSet(q))
  <2>1. q \in [1 .. n -> ToSet(q)] /\ \A t \in ToSet(q) : \E k \in 1 .. n : q[k] = t
    BY <1>2, <1>3 DEF ToSet
  <2> QED BY <1>4, <2>1 DEF Bijection, Injection, Surjection, IsInjective
<1>7. Cardinality(ToSet(q)) = n
  BY <1>1, <1>6, FS_CountingElements DEF ExistsBijection
<1>8. ToSet(q) = S
  BY <1>1, <1>5, <1>7, FS_Subset DEF n
<1> QED BY <1>3, <1>8 DEF q
-----------------------------------------------------------------------------
(* strings.Split and strings.Join. *)

\* IsPrefix, place by place.
LEMMA PrefixIs ==
    ASSUME NEW X, NEW s \in Seq(X), NEW t \in Seq(X)
    PROVE  IsPrefix(s, t) <=> Len(s) <= Len(t) /\ \A k \in 1 .. Len(s) : s[k] = t[k]
<1>1. SubSeq(s, 1, Len(s)) = s
  OBVIOUS
<1>2. ASSUME Len(s) <= Len(t)
      PROVE  /\ SubSeq(t, 1, Len(s)) \in Seq(X) /\ Len(SubSeq(t, 1, Len(s))) = Len(s)
             /\ \A k \in 1 .. Len(s) : SubSeq(t, 1, Len(s))[k] = t[k]
  <2>1. PICK n : n = Len(s)
    OBVIOUS
  <2>2. n \in Nat /\ 1 <= n + 1 /\ n <= Len(t)
    BY <1>2, <2>1
  <2>3. /\ SubSeq(t, 1, n) \in Seq(X) /\ Len(SubSeq(t, 1, n)) = n - 1 + 1
        /\ \A k \in 1 .. (n - 1 + 1) : SubSeq(t, 1, n)[k] = t[1 + k - 1]
    BY <2>2, SubSeqIs
  <2>4. n - 1 + 1 = n /\ \A k \in 1 .. n : 1 + k - 1 = k
    BY <2>2
  <2> QED BY <2>1, <2>3, <2>4
<1>3. ASSUME IsPrefix(s, t) PROVE Len(s) <= Len(t) /\ \A k \in 1 .. Len(s) : s[k] = t[k]
  <2>1. Len(s) <= Len(t) /\ s = SubSeq(t, 1, Len(s))
    BY <1>1, <1>3 DEF IsPrefix
  <2>2. \A k \in 1 .. Len(s) : SubSeq(t, 1, Len(s))[k] = t[k]
    BY <1>2, <2>1
  <2> QED BY <2>1, <2>2
<1>4. ASSUME Len(s) <= Len(t), \A k \in 1 .. Len(s) : s[k] = t[k] PROVE IsPrefix(s, t)
  <2>1. PICK p : p = SubSeq(t, 1, Len(s))
    OBVIOUS
  <2>2. p \in Seq(X) /\ Len(p) = Len(s) /\ \A k \in 1 .. Len(s) : p[k] = s[k]
    BY <1>2, <1>4, <2>1
  <2>3. p = s
    BY <2>2
  <2> QED BY <1>1, <1>4, <2>1, <2>3 DEF IsPrefix
<1> QED BY <1>3, <1>4

\* What is behind a prefix.
LEMMA PrefixRest ==
    ASSUME NEW X, NEW s \in Seq(X), NEW t \in Seq(X), IsPrefix(s, t)
    PROVE  \E u \in Seq(X) : t = s \o u
<1>1. Len(s) <= Len(t) /\ \A k \in 1 .. Len(s) : s[k] = t[k]
  BY PrefixIs
<1>2. PICK b : b = Len(s) + 1
  OBVIOUS
<1>3. PICK n : n = Len(t)
  OBVIOUS
<1>4. b \in Nat /\ n \in Nat /\ 1 <= b /\ b <= n + 1 /\ n <= Len(t)
  BY <1>1, <1>2, <1>3
<1>5. PICK u : u = SubSeq(t, b, n)
  OBVIOUS
<1>6. /\ u \in Seq(X) /\ Len(u) = n - b + 1
      /\ \A i \in 1 .. (n - b + 1) : u[i] = t[b + i - 1]
  BY <1>4, <1>5, SubSeqIs
<1>7. Len(u) = Len(t) - Len(s) /\ \A i \in 1 .. Len(u) : u[i] = t[Len(s) + i]
  <2>1. n - b + 1 = Len(t) - Len(s) /\ \A i \in 1 .. Len(u) : b + i - 1 = Len(s) + i
    BY <1>2, <1>3, <1>6
  <2> QED BY <1>6, <2>1
<1>8. PICK w : w = s \o u
  OBVIOUS
<1>9. w \in Seq(X) /\ Len(w) = Len(t)
  BY <1>6, <1>7, <1>8
<1>10. ASSUME NEW k \in 1 .. Len(t) PROVE w[k] = t[k]
  <2>1. CASE k <= Len(s)
    BY <1>1, <1>6, <1>8, <2>1
  <2>2. CASE k > Len(s)
    <3>1. k - Len(s) \in 1 .. Len(u) /\ Len(s) + (k - Len(s)) = k
      BY <1>7, <2>2
    <3>2. w[k] = u[k - Len(s)]
      BY <1>6, <1>7, <1>8, <2>2
    <3> QED BY <1>7, <3>1, <3>2
  <2> QED BY <2>1, <2>2
<1>11. w = t
  BY <1>9, <1>10
<1> QED BY <1>6, <1>8, <1>11

\* A string without sep.
Clean(c, sep) == c \in Strings /\ sep \notin ToSet(c)

\* What is in a sequence with one more element.
LEMMA ToSetAppend ==
    ASSUME NEW W, NEW q \in Seq(W), NEW e \in W
    PROVE  ToSet(Append(q, e)) = ToSet(q) \cup {e}
<1>1. PICK t : t = Append(q, e)
  OBVIOUS
<1>2. /\ Len(q) \in Nat /\ DOMAIN q = 1 .. Len(q) /\ DOMAIN t = 1 .. Len(q) + 1
      /\ t[Len(q) + 1] = e /\ \A k \in 1 .. Len(q) : t[k] = q[k]
  BY <1>1, Appended
<1>3. ToSet(t) = ToSet(q) \cup {e}
  BY <1>2 DEF ToSet
<1> QED BY <1>1, <1>3

\* Parts of strings, for all that follows.
LEMMA PartsAre ==
    ASSUME NEW s \in Strings, NEW c \in Nat, NEW sep \in Nat
    PROVE  /\ Parts(s, sep) \in Seq(Strings) /\ Len(Parts(s, sep)) \in Nat \ {0}
           /\ Parts(<<>>, sep) = <<(<<>>)>>
           /\ Parts(Append(s, c), sep) =
                IF c = sep THEN Append(Parts(s, sep), <<>>)
                ELSE [Parts(s, sep) EXCEPT ![Len(Parts(s, sep))] = Append(@, c)]
<1>1. Parts(s, sep) \in PartLists(Nat) /\ PartsEqs(s, c, sep)
  BY PartsIs DEF Strings
<1>2. PICK ps : ps = Parts(s, sep)
  OBVIOUS
<1>3. ps \in Seq(Strings) /\ ps # <<>>
  BY <1>1, <1>2 DEF PartLists, Strings
<1>4. Len(ps) \in Nat \ {0}
  BY <1>3
<1> QED BY <1>1, <1>2, <1>3, <1>4 DEF PartsEqs

\* None of the parts has the separator in it.
LEMMA PartsClean ==
    ASSUME NEW s \in Strings, NEW sep \in Nat
    PROVE  Parts(s, sep) \in Seq({ c \in Strings : Clean(c, sep) })
<1> DEFINE V == { c \in Strings : Clean(c, sep) }
           S == { q \in Seq(Nat) : Parts(q, sep) \in Seq(V) }
<1>1. <<>> \in V
  BY DEF Clean, Strings, ToSet
<1>2. <<>> \in S
  <2>1. Parts(<<>>, sep) = <<(<<>>)>>
    BY PartsAre
  <2> HIDE DEF V
  <2>2. <<(<<>>)>> \in Seq(V) /\ <<>> \in Seq(Nat)
    BY <1>1
  <2> QED BY <2>1, <2>2
<1>3. ASSUME NEW q \in Seq(Nat), q \in S, NEW e \in Nat PROVE Append(q, e) \in S
  <2>0. Append(q, e) \in Seq(Nat)
    OBVIOUS
  <2>1. PICK ps : ps = Parts(q, sep)
    OBVIOUS
  <2>2. /\ Len(ps) \in Nat \ {0} /\ ps \in Seq(V)
        /\ Parts(Append(q, e), sep) = IF e = sep THEN Append(ps, <<>>)
                                      ELSE [ps EXCEPT ![Len(ps)] = Append(@, e)]
    BY <1>3, <2>1, PartsAre DEF Strings
  <2>3. CASE e = sep
    <3> HIDE DEF V
    <3>1. Append(ps, <<>>) \in Seq(V)
      BY <1>1, <2>2
    <3>2. Parts(Append(q, e), sep) = Append(ps, <<>>)
      BY <2>2, <2>3
    <3> QED BY <2>0, <3>1, <3>2
  <2>4. CASE e # sep
    <3>1. ps[Len(ps)] \in V
      BY <2>2
    <3>2. Append(ps[Len(ps)], e) \in V
      <4>1. /\ ps[Len(ps)] \in Seq(Nat)
            /\ ToSet(Append(ps[Len(ps)], e)) = ToSet(ps[Len(ps)]) \cup {e}
        BY <3>1, ToSetAppend, SMTT(30) DEF Strings
      <4> QED BY <2>4, <3>1, <4>1 DEF Clean, Strings
    <3> HIDE DEF V
    <3>3. [ps EXCEPT ![Len(ps)] = Append(@, e)] \in Seq(V)
      BY <2>2, <3>2
    <3>4. Parts(Append(q, e), sep) = [ps EXCEPT ![Len(ps)] = Append(@, e)]
      BY <2>2, <2>4
    <3> QED BY <2>0, <3>3, <3>4
  <2> QED BY <2>3, <2>4
<1> HIDE DEF S
<1>4. s \in S
  BY <1>2, <1>3, SeqInduction DEF Strings
<1> QED BY <1>4 DEF S

\* Two strings with a separator between them.
LEMMA Glue ==
    ASSUME NEW t \in Strings, NEW sep \in Nat, NEW u \in Strings, NEW e \in Nat
    PROVE  /\ t \o <<sep>> \o u \in Strings
           /\ t \o <<sep>> \o <<>> = Append(t, sep)
           /\ t \o <<sep>> \o Append(u, e) = Append(t \o <<sep>> \o u, e)
BY DEF Strings

\* What is cut of a string is not cut otherwise for what is behind a separator.
PartsKept(t, u, sep) ==
    /\ Len(Parts(t, sep)) < Len(Parts(t \o <<sep>> \o u, sep))
    /\ \A k \in 1 .. Len(Parts(t, sep)) : Parts(t \o <<sep>> \o u, sep)[k] = Parts(t, sep)[k]

\* Whatever is behind the separator.
LEMMA PartsBehind ==
    ASSUME NEW t \in Strings, NEW sep \in Nat, NEW u \in Strings
    PROVE  PartsKept(t, u, sep)
<1> DEFINE S == { q \in Seq(Nat) : PartsKept(t, q, sep) }
<1>1. PICK ps : ps = Parts(t, sep)
  OBVIOUS
<1>2. ps \in Seq(Strings) /\ Len(ps) \in Nat \ {0} /\ Parts(Append(t, sep), sep) = Append(ps, <<>>)
  BY <1>1, PartsAre
<1>3. <<>> \in S
  <2>1. <<>> \in Strings /\ <<>> \in Seq(Nat)
    BY DEF Strings
  <2>2. t \o <<sep>> \o <<>> = Append(t, sep)
    BY <2>1, Glue
  <2>3. Len(Append(ps, <<>>)) = Len(ps) + 1 /\ \A k \in 1 .. Len(ps) : Append(ps, <<>>)[k] = ps[k]
    BY <1>2, <2>1
  <2>4. PICK rs : rs = Append(ps, <<>>)
    OBVIOUS
  <2>5. Parts(t \o <<sep>> \o <<>>, sep) = rs
    BY <1>2, <2>2, <2>4, Zenon
  <2>6. Len(ps) < Len(rs) /\ \A k \in 1 .. Len(ps) : rs[k] = ps[k]
    BY <1>2, <2>3, <2>4
  <2>7. PartsKept(t, <<>>, sep)
    BY <1>1, <2>5, <2>6, Zenon DEF PartsKept
  <2> QED BY <2>1, <2>7
<1>4. ASSUME NEW q \in Seq(Nat), q \in S, NEW e \in Nat PROVE Append(q, e) \in S
  <2>1. PICK w : w = t \o <<sep>> \o q
    OBVIOUS
  <2>s. q \in Strings
    BY DEF Strings
  <2>2. w \in Strings /\ t \o <<sep>> \o Append(q, e) = Append(w, e)
    <3>1. t \o <<sep>> \o q \in Strings /\ t \o <<sep>> \o Append(q, e) = Append(t \o <<sep>> \o q, e)
      BY <2>s, Glue, SMTT(30)
    <3> QED BY <2>1, <3>1, Zenon
  <2>3. PICK qs : qs = Parts(w, sep)
    OBVIOUS
  <2>4. /\ qs \in Seq(Strings) /\ Len(qs) \in Nat \ {0}
        /\ Parts(Append(w, e), sep) = IF e = sep THEN Append(qs, <<>>)
                                      ELSE [qs EXCEPT ![Len(qs)] = Append(@, e)]
    BY <2>2, <2>3, PartsAre
  <2>5. Len(ps) < Len(qs) /\ \A k \in 1 .. Len(ps) : qs[k] = ps[k]
    BY <1>1, <1>4, <2>1, <2>3 DEF PartsKept
  <2>6. PICK rs : rs = Parts(Append(w, e), sep)
    OBVIOUS
  <2>7. Len(ps) < Len(rs) /\ \A k \in 1 .. Len(ps) : rs[k] = ps[k]
    <3>1. CASE e = sep
      <4>1. rs = Append(qs, <<>>) /\ <<>> \in Strings
        BY <2>4, <2>6, <3>1 DEF Strings
      <4>2. Len(rs) = Len(qs) + 1 /\ \A k \in 1 .. Len(qs) : rs[k] = qs[k]
        BY <2>4, <4>1
      <4> QED BY <1>2, <2>4, <2>5, <4>2
    <3>2. CASE e # sep
      <4>1. rs = [qs EXCEPT ![Len(qs)] = Append(@, e)]
        BY <2>4, <2>6, <3>2
      <4>2. Len(rs) = Len(qs) /\ \A k \in 1 .. Len(qs) : k # Len(qs) => rs[k] = qs[k]
        BY <2>4, <4>1
      <4> QED BY <1>2, <2>4, <2>5, <4>2
    <3> QED BY <3>1, <3>2
  <2>8. PartsKept(t, Append(q, e), sep)
    BY <1>1, <2>2, <2>6, <2>7 DEF PartsKept
  <2> QED BY <2>8
<1> HIDE DEF S
<1>5. u \in S
  BY <1>3, <1>4, SeqInduction DEF Strings
<1> QED BY <1>5 DEF S

\* What is behind the separator and has none is the last part,
LEMMA PartsAdded ==
    ASSUME NEW t \in Strings, NEW sep \in Nat, NEW u, Clean(u, sep)
    PROVE  Parts(t \o <<sep>> \o u, sep) = Append(Parts(t, sep), u)
<1>1. PICK ps : ps = Parts(t, sep)
  OBVIOUS
<1>2. ps \in Seq(Strings) /\ Parts(Append(t, sep), sep) = Append(ps, <<>>)
  BY <1>1, PartsAre
<1> DEFINE S == { q \in Seq(Nat) :
                    sep \notin ToSet(q) => Parts(t \o <<sep>> \o q, sep) = Append(ps, q) }
<1>3. <<>> \in S
  <2>1. <<>> \in Strings /\ <<>> \in Seq(Nat)
    BY DEF Strings
  <2>2. t \o <<sep>> \o <<>> = Append(t, sep)
    BY <2>1, Glue
  <2> QED BY <1>2, <2>1, <2>2
<1>4. ASSUME NEW q \in Seq(Nat), q \in S, NEW e \in Nat PROVE Append(q, e) \in S
  <2>0. Append(q, e) \in Seq(Nat)
    OBVIOUS
  <2> SUFFICES ASSUME sep \notin ToSet(Append(q, e))
               PROVE  Parts(t \o <<sep>> \o Append(q, e), sep) = Append(ps, Append(q, e))
    BY <2>0
  <2>1. PICK w : w = t \o <<sep>> \o q
    OBVIOUS
  <2>s. q \in Strings
    BY DEF Strings
  <2>2. w \in Strings /\ t \o <<sep>> \o Append(q, e) = Append(w, e)
    <3>1. t \o <<sep>> \o q \in Strings /\ t \o <<sep>> \o Append(q, e) = Append(t \o <<sep>> \o q, e)
      BY <2>s, Glue, SMTT(30)
    <3> QED BY <2>1, <3>1, Zenon
  <2>3. e # sep /\ sep \notin ToSet(q)
    BY ToSetAppend
  <2>4. Parts(w, sep) = Append(ps, q)
    BY <1>4, <2>1, <2>3
  <2>5. PICK qs : qs = Append(ps, q)
    OBVIOUS
  <2>6. Parts(Append(w, e), sep) = [qs EXCEPT ![Len(qs)] = Append(@, e)]
    <3>1. Parts(w, sep) = qs
      BY <2>4, <2>5
    <3>2. Parts(Append(w, e), sep) =
             IF e = sep THEN Append(Parts(w, sep), <<>>)
             ELSE [Parts(w, sep) EXCEPT ![Len(Parts(w, sep))] = Append(@, e)]
      BY <2>2, PartsAre, ZenonT(30)
    <3> QED BY <2>3, <3>1, <3>2
  <2>7. /\ q \in Strings /\ Append(q, e) \in Strings
        /\ qs \in Seq(Strings) /\ Len(qs) = Len(ps) + 1 /\ qs[Len(qs)] = q
        /\ \A k \in 1 .. Len(ps) : qs[k] = ps[k]
    BY <1>2, <2>5 DEF Strings
  <2>8. PICK rs : rs = [qs EXCEPT ![Len(qs)] = Append(q, e)]
    OBVIOUS
  <2>9. PICK us : us = Append(ps, Append(q, e))
    OBVIOUS
  <2>10. rs \in Seq(Strings) /\ Len(rs) = Len(ps) + 1 /\ rs[Len(ps) + 1] = Append(q, e)
         /\ \A k \in 1 .. Len(ps) : rs[k] = ps[k]
    BY <1>2, <2>7, <2>8
  <2>11. us \in Seq(Strings) /\ Len(us) = Len(ps) + 1 /\ us[Len(ps) + 1] = Append(q, e)
         /\ \A k \in 1 .. Len(ps) : us[k] = ps[k]
    BY <1>2, <2>7, <2>9
  <2>12. rs = us
    <3>1. \A k \in 1 .. Len(ps) + 1 : k \in 1 .. Len(ps) \/ k = Len(ps) + 1
      BY <1>2
    <3>2. Len(rs) = Len(us) /\ \A k \in 1 .. Len(rs) : rs[k] = us[k]
      BY <2>10, <2>11, <3>1, Zenon
    <3> QED BY <2>10, <2>11, <3>2
  <2> QED BY <2>2, <2>6, <2>7, <2>8, <2>9, <2>12
<1> HIDE DEF S
<1>5. u \in S
  BY <1>3, <1>4, SeqInduction DEF Clean, Strings
<1> QED BY <1>1, <1>5 DEF S, Clean

\* or the only one.
LEMMA PartsAlone ==
    ASSUME NEW sep \in Nat, NEW u, Clean(u, sep)
    PROVE  Parts(u, sep) = <<u>>
<1> DEFINE S == { q \in Seq(Nat) : sep \notin ToSet(q) => Parts(q, sep) = <<q>> }
<1>1. <<>> \in S
  <2>1. <<>> \in Strings /\ <<>> \in Seq(Nat)
    BY DEF Strings
  <2> QED BY <2>1, PartsAre
<1>2. ASSUME NEW q \in Seq(Nat), q \in S, NEW e \in Nat PROVE Append(q, e) \in S
  <2> SUFFICES ASSUME sep \notin ToSet(Append(q, e)) PROVE Parts(Append(q, e), sep) = <<Append(q, e)>>
    OBVIOUS
  <2>1. e # sep /\ sep \notin ToSet(q)
    BY ToSetAppend
  <2>2. Parts(q, sep) = <<q>>
    BY <1>2, <2>1
  <2>3. Parts(Append(q, e), sep) = [<<q>> EXCEPT ![Len(<<q>>)] = Append(@, e)]
    <3>1. PartsEqs(q, e, sep)
      BY PartsIs
    <3>2. Parts(Append(q, e), sep) =
             IF e = sep THEN Append(Parts(q, sep), <<>>)
             ELSE [Parts(q, sep) EXCEPT ![Len(Parts(q, sep))] = Append(@, e)]
      BY <3>1 DEF PartsEqs
    <3> QED BY <2>1, <2>2, <3>2
  <2> QED BY <2>3
<1> HIDE DEF S
<1>3. u \in S
  BY <1>1, <1>2, SeqInduction DEF Clean, Strings
<1> QED BY <1>3 DEF S, Clean

\* strings.Split undoes strings.Join.
LEMMA PartsJoined ==
    ASSUME NEW sep \in Nat, NEW cs \in Seq({ c \in Strings : Clean(c, sep) }), cs # <<>>
    PROVE  Parts(Joined(cs, sep), sep) = cs
<1> DEFINE V == { c \in Strings : Clean(c, sep) }
           S == { q \in Seq(V) : q # <<>> => Parts(Joined(q, sep), sep) = q }
<1>1. <<>> \in S
  OBVIOUS
<1>2. ASSUME NEW q \in Seq(V), q \in S, NEW c \in V PROVE Append(q, c) \in S
  <2>1. q \in Seq(Seq(Nat)) /\ c \in Seq(Nat)
    BY DEF Strings
  <2>2. /\ Joined(q, sep) \in Seq(Nat)
        /\ Joined(Append(q, c), sep) = IF q = <<>> THEN c ELSE Joined(q, sep) \o <<sep>> \o c
    <3>1. Joined(q, sep) \in Seq(Nat) /\ JoinedEqs(q, c, sep)
      BY <2>1, JoinedIs
    <3> QED BY <3>1 DEF JoinedEqs
  <2>3. CASE q = <<>>
    <3>1. Parts(c, sep) = <<c>> /\ Append(q, c) = <<c>>
      BY <2>3, PartsAlone
    <3> QED BY <2>2, <2>3, <3>1
  <2>4. CASE q # <<>>
    <3>1. Parts(Joined(q, sep) \o <<sep>> \o c, sep) = Append(Parts(Joined(q, sep), sep), c)
      BY <2>2, PartsAdded DEF Strings
    <3>2. Parts(Joined(q, sep), sep) = q
      BY <1>2, <2>4
    <3>3. Parts(Joined(Append(q, c), sep), sep) = Append(q, c)
      BY <2>2, <2>4, <3>1, <3>2, Zenon
    <3>4. Append(q, c) \in Seq(V)
      OBVIOUS
    <3> HIDE DEF V
    <3> QED BY <3>3, <3>4
  <2> QED BY <2>3, <2>4
<1> HIDE DEF S
<1>3. cs \in S
  BY <1>1, <1>2, SeqInduction
<1> QED BY <1>3 DEF S
-----------------------------------------------------------------------------
(* Names and paths. *)

\* Kept keeps everything that is in K.
LEMMA KeptAll ==
    ASSUME NEW V, NEW s \in Seq(V), NEW K, ToSet(s) \subseteq K
    PROVE  Kept(s, K) = s
<1> DEFINE S == { q \in Seq(V) : ToSet(q) \subseteq K => Kept(q, K) = q }
<1>0. <<>> \in Seq(V)
  OBVIOUS
<1>1. <<>> \in S
  <2>1. PICK v \in [0 .. Len(<<>>) -> Seq(V)] : KeptStep(v, <<>>, K)
    BY <1>0, KeptSteps
  <2>2. Kept(<<>>, K) = <<>>
    BY <2>1 DEF KeptStep
  <2> QED BY <1>0, <2>2
<1>2. ASSUME NEW q \in Seq(V), q \in S, NEW e \in V PROVE Append(q, e) \in S
  <2>1. ToSet(Append(q, e)) = ToSet(q) \cup {e}
    BY ToSetAppend
  <2>2. Kept(Append(q, e), K) = IF e \in K THEN Append(Kept(q, K), e) ELSE Kept(q, K)
    BY KeptIs
  <2>3. Append(q, e) \in Seq(V)
    OBVIOUS
  <2> QED BY <1>2, <2>1, <2>2, <2>3
<1> HIDE DEF S
<1>3. s \in S
  BY <1>1, <1>2, SeqInduction
<1> QED BY <1>3 DEF S

\* The components of paths.
Comps == { c \in Strings : Component(c, Slash) }

\* Names are components.
LEMMA NamesType ==
    ASSUME NEW s \in Strings
    PROVE  Names(s) \in Seq(Comps)
<1> DEFINE V == { c \in Strings : Clean(c, Slash) }
<1>1. Parts(s, Slash) \in Seq(V)
  BY PartsClean, CodeAssumption
<1>2. V \ {<<>>} \subseteq Comps
  BY DEF Clean, Component, Comps
<1> HIDE DEF V
<1>3. Names(s) \in Seq(V \ {<<>>})
  BY <1>1, NonemptyIs DEF Names
<1> QED BY <1>2, <1>3

\* What the lemmas above ask for of components.
LEMMA CompsClean ==
    ASSUME NEW cs \in Seq(Comps)
    PROVE  /\ cs \in Seq({ c \in Strings : Clean(c, Slash) }) /\ cs \in Seq(Strings)
           /\ cs \in Seq({ c \in Strings : Component(c, Slash) })
           /\ ToSet(cs) \subseteq Comps
<1>1. /\ Comps \subseteq { c \in Strings : Clean(c, Slash) }
      /\ Comps \subseteq Strings /\ Comps = { c \in Strings : Component(c, Slash) }
  BY DEF Comps, Component, Clean
<1>2. \A W, U : W \subseteq U => Seq(W) \subseteq Seq(U)
  OBVIOUS
<1>3. ToSet(cs) \subseteq Comps
  BY DEF ToSet
<1> QED BY <1>1, <1>2, <1>3

\* The names a path is joined of can be read from it.
LEMMA NamesJoined ==
    ASSUME NEW cs \in Seq(Comps)
    PROVE  Joined(cs, Slash) \in Strings /\ Names(Joined(cs, Slash)) = cs
<1>1. cs \in Seq({ c \in Strings : Clean(c, Slash) }) /\ cs \in Seq(Strings) /\ ToSet(cs) \subseteq Comps
  BY CompsClean
<1>2. Slash \in Nat
  BY CodeAssumption
<1>3. Joined(cs, Slash) \in Strings
  BY <1>1, <1>2, JoinedType
<1>4. CASE cs # <<>>
  <2>1. Parts(Joined(cs, Slash), Slash) = cs
    BY <1>1, <1>2, <1>4, PartsJoined
  <2>2. ToSet(cs) \subseteq ToSet(cs) \ {<<>>}
    BY <1>1 DEF Comps, Component
  <2>3. Kept(cs, ToSet(cs) \ {<<>>}) = cs
    BY <1>1, <2>2, KeptAll
  <2> QED BY <1>3, <2>1, <2>3 DEF Names, Nonempty
<1>5. CASE cs = <<>>
  <2>1. Joined(<<>>, Slash) = <<>> /\ Parts(<<>>, Slash) = <<(<<>>)>>
    <3>1. <<>> \in Seq(Seq(Nat)) /\ <<>> \in Seq(Nat) /\ <<>> \in Strings
      BY DEF Strings
    <3>2. JoinedEqs(<<>>, <<>>, Slash)
      BY <1>2, <3>1, JoinedIs
    <3>3. Parts(<<>>, Slash) = <<(<<>>)>>
      BY <1>2, <3>1, PartsAre
    <3> QED BY <3>2, <3>3 DEF JoinedEqs
  <2>2. PICK one : one = <<(<<>>)>>
    OBVIOUS
  <2>3. PICK K : K = ToSet(one) \ {<<>>}
    OBVIOUS
  <2>4. /\ <<>> \in Seq(Strings) /\ <<>> \in Strings /\ one = Append(<<>>, <<>>) /\ <<>> \notin K
    BY <2>2, <2>3 DEF Strings
  <2>5. Kept(one, K) = Kept(<<>>, K) /\ Kept(<<>>, K) = <<>>
    <3>1. PICK q \in Seq(Strings) : q = <<>>
      BY <2>4
    <3>2. PICK e \in Strings : e = <<>>
      BY <2>4
    <3>3. Kept(Append(q, e), K) = IF e \in K THEN Append(Kept(q, K), e) ELSE Kept(q, K)
      BY KeptIs
    <3>4. Kept(<<>>, K) = <<>>
      BY <3>1, <3>2, KeptIs
    <3> QED BY <2>4, <3>1, <3>2, <3>3, <3>4
  <2>6. Names(Joined(cs, Slash)) = Kept(one, K)
    BY <1>5, <2>1, <2>2, <2>3 DEF Names, Nonempty
  <2> QED BY <1>3, <1>5, <2>5, <2>6
<1> QED BY <1>4, <1>5

\* A prefix of s is one of what goes on from s.
LEMMA PrefixGrows ==
    ASSUME NEW X, NEW s \in Seq(X), NEW t \in Seq(X), NEW u \in Seq(X), IsPrefix(s, t)
    PROVE  IsPrefix(s, t \o u)
<1>1. Len(s) <= Len(t) /\ \A k \in 1 .. Len(s) : s[k] = t[k]
  BY PrefixIs
<1>2. PICK w : w = t \o u
  OBVIOUS
<1>3. w \in Seq(X) /\ Len(w) = Len(t) + Len(u) /\ \A k \in 1 .. Len(t) : w[k] = t[k]
  BY <1>2
<1>4. Len(s) <= Len(w) /\ \A k \in 1 .. Len(s) : s[k] = w[k]
  BY <1>1, <1>3
<1>5. IsPrefix(s, w)
  BY <1>3, <1>4, PrefixIs
<1> QED BY <1>2, <1>5

\* "Exactly or as a folder" is a prefix, component by component.
THEOREM UnderIs ==
    ASSUME NEW ts \in Seq(Comps), ts # <<>>, NEW cs \in Seq(Comps), cs # <<>>
    PROVE  Under(Joined(cs, Slash), Joined(ts, Slash)) <=> IsPrefix(ts, cs)
<1>1. PICK t : t = Joined(ts, Slash)
  OBVIOUS
<1>2. PICK p : p = Joined(cs, Slash)
  OBVIOUS
<1>s. Slash \in Nat
  BY CodeAssumption
<1>3. t \in Strings /\ p \in Strings /\ Parts(t, Slash) = ts /\ Parts(p, Slash) = cs
  BY <1>1, <1>2, <1>s, CompsClean, NamesJoined, PartsJoined
<1>4. PICK d : d = t \o <<Slash>>
  OBVIOUS
<1>5. d \in Seq(Nat) /\ t \in Seq(Nat) /\ p \in Seq(Nat)
  BY <1>3, <1>4, <1>s DEF Strings
<1>6. ASSUME Under(p, t) PROVE IsPrefix(ts, cs)
  <2>1. CASE p = t
    <3>1. ts = cs
      BY <1>3, <2>1
    <3> QED BY <3>1, PrefixIs
  <2>2. CASE IsPrefix(d, p)
    <3>1. PICK u \in Seq(Nat) : p = d \o u
      BY <1>5, <2>2, PrefixRest
    <3>2. p = t \o <<Slash>> \o u
      BY <1>4, <3>1
    <3>3. PartsKept(t, u, Slash)
      BY <1>3, <1>s, PartsBehind DEF Strings
    <3>4. Len(ts) < Len(cs) /\ \A k \in 1 .. Len(ts) : cs[k] = ts[k]
      BY <1>3, <3>2, <3>3 DEF PartsKept
    <3> QED BY <3>4, PrefixIs, SMTT(30)
  <2> QED BY <1>4, <1>6, <2>1, <2>2 DEF Under
<1>7. ASSUME IsPrefix(ts, cs) PROVE Under(p, t)
  <2> DEFINE S == { q \in Seq(Comps) : IsPrefix(ts, q) => Under(Joined(q, Slash), t) }
  <2>1. <<>> \in S
    <3>1. <<>> \in Seq(Comps) /\ Len(<<>>) = 0 /\ Len(ts) # 0
      OBVIOUS
    <3>2. PICK nil : nil = <<>>
      OBVIOUS
    <3>3. nil \in Seq(Comps) /\ ~(Len(ts) <= Len(nil))
      BY <3>1, <3>2
    <3>4. ~IsPrefix(ts, nil)
      BY <3>3, PrefixIs
    <3> QED BY <3>1, <3>2, <3>4
  <2>2. ASSUME NEW q \in Seq(Comps), q \in S, NEW c \in Comps PROVE Append(q, c) \in S
    <3>1. PICK qc : qc = Append(q, c)
      OBVIOUS
    <3>2. /\ qc \in Seq(Comps) /\ Len(qc) = Len(q) + 1 /\ Len(q) \in Nat /\ Len(ts) \in Nat
          /\ \A k \in 1 .. Len(q) : qc[k] = q[k]
      BY <3>1
    <3>3. ASSUME IsPrefix(ts, qc) PROVE Under(Joined(qc, Slash), t)
      <4>1. Len(ts) <= Len(qc) /\ \A k \in 1 .. Len(ts) : ts[k] = qc[k]
        BY <3>2, <3>3, PrefixIs
      <4>2. CASE Len(ts) = Len(q) + 1
        <5>1. ts = qc
          BY <3>2, <4>1, <4>2
        <5> QED BY <1>1, <5>1 DEF Under
      <4>3. CASE Len(ts) # Len(q) + 1
        <5>1. Len(ts) <= Len(q) /\ \A k \in 1 .. Len(ts) : ts[k] = q[k]
          BY <3>2, <4>1, <4>3
        <5>2. IsPrefix(ts, q)
          BY <5>1, PrefixIs
        <5>3. q # <<>>
          <6>1. Len(ts) # 0
            OBVIOUS
          <6> QED BY <3>2, <5>1, <6>1
        <5>4. PICK w : w = Joined(q, Slash)
          OBVIOUS
        <5>5. Under(w, t)
          BY <2>2, <5>2, <5>4
        <5>6. w \in Seq(Nat) /\ c \in Seq(Nat) /\ Joined(qc, Slash) = w \o <<Slash>> \o c
          <6>1. q \in Seq(Seq(Nat)) /\ c \in Seq(Nat)
            BY CompsClean DEF Comps, Strings
          <6>2. w \in Seq(Nat) /\ JoinedEqs(q, c, Slash)
            BY <1>s, <5>4, <6>1, JoinedIs
          <6> QED BY <3>1, <5>3, <5>4, <6>1, <6>2 DEF JoinedEqs
        <5>7. IsPrefix(d, w \o <<Slash>> \o c)
          <6>1. CASE w = t
            <7>1. IsPrefix(d, d)
              BY <1>5, PrefixIs
            <7>2. IsPrefix(d, d \o c)
              BY <1>5, <5>6, <7>1, PrefixGrows
            <7> QED BY <1>4, <6>1, <7>2
          <6>2. CASE IsPrefix(d, w)
            <7>1. <<Slash>> \in Seq(Nat)
              BY <1>s
            <7>2. PICK ws : ws = w \o <<Slash>>
              OBVIOUS
            <7>3. ws \in Seq(Nat)
              BY <5>6, <7>1, <7>2
            <7>4. IsPrefix(d, w \o <<Slash>>)
              BY <1>5, <5>6, <6>2, <7>1, PrefixGrows
            <7>5. IsPrefix(d, ws \o c)
              BY <1>5, <5>6, <7>2, <7>3, <7>4, PrefixGrows
            <7> QED BY <7>2, <7>5
          <6> QED BY <1>4, <5>5, <6>1, <6>2 DEF Under
        <5> QED BY <1>4, <5>6, <5>7 DEF Under
      <4> QED BY <4>2, <4>3
    <3> QED BY <3>1, <3>2, <3>3
  <2> HIDE DEF S
  <2>3. cs \in S
    BY <2>1, <2>2, SeqInduction
  <2> QED BY <1>2, <1>7, <2>3 DEF S
<1> QED BY <1>1, <1>2, <1>6, <1>7

\* g of each element.
Mapped(s, g) == [n \in 1 .. Len(s) |-> g[s[n]]]

\* Mapped of a sequence with one more element.
MappedEqs(s, e, g) == Mapped(Append(s, e), g) = Append(Mapped(s, g), g[e])

\* The elements are g of elements.
LEMMA MappedType ==
    ASSUME NEW V, NEW s \in Seq(V), NEW g, NEW W, \A f \in V : g[f] \in W
    PROVE  Mapped(s, g) \in Seq(W)
<1>1. Len(s) \in Nat /\ \A k \in 1 .. Len(s) : s[k] \in V
  OBVIOUS
<1> QED BY <1>1 DEF Mapped

\* Mapped grows element by element.
LEMMA MappedAppend ==
    ASSUME NEW V, NEW s \in Seq(V), NEW e \in V, NEW g
    PROVE  MappedEqs(s, e, g)
<1> DEFINE W == { g[f] : f \in V }
<1>0. \A f \in V : g[f] \in W
  OBVIOUS
<1> HIDE DEF W
<1>1. PICK t : t = Append(s, e)
  OBVIOUS
<1>2. /\ t \in Seq(V) /\ Len(s) \in Nat /\ Len(t) = Len(s) + 1 /\ t[Len(s) + 1] = e
      /\ \A k \in 1 .. Len(s) : t[k] = s[k] /\ s[k] \in V
  BY <1>1
<1>3. PICK m : m = Mapped(s, g)
  OBVIOUS
<1>4. m \in Seq(W) /\ Len(m) = Len(s) /\ \A k \in 1 .. Len(s) : m[k] = g[s[k]]
  <2>1. m = [n \in 1 .. Len(s) |-> g[s[n]]]
    BY <1>3 DEF Mapped
  <2> QED BY <1>0, <1>2, <2>1
<1>5. PICK w : w = Mapped(t, g)
  OBVIOUS
<1>6. w \in Seq(W) /\ Len(w) = Len(t) /\ \A k \in 1 .. Len(t) : w[k] = g[t[k]]
  <2>1. w = [n \in 1 .. Len(t) |-> g[t[n]]]
    BY <1>5 DEF Mapped
  <2> QED BY <1>0, <1>2, <2>1
<1>7. PICK x : x = Append(m, g[e])
  OBVIOUS
<1>8. x \in Seq(W) /\ Len(x) = Len(s) + 1 /\ x[Len(s) + 1] = g[e] /\ \A k \in 1 .. Len(s) : x[k] = m[k]
  BY <1>0, <1>4, <1>7
<1>9. \A k \in 1 .. Len(s) + 1 : w[k] = x[k]
  <2> SUFFICES ASSUME NEW k \in 1 .. Len(s) + 1 PROVE w[k] = x[k]
    OBVIOUS
  <2>1. k \in 1 .. Len(s) \/ k = Len(s) + 1
    BY <1>2
  <2> QED BY <1>2, <1>4, <1>6, <1>8, <2>1, SMTT(30)
<1>10. w = x
  BY <1>2, <1>6, <1>8, <1>9
<1> QED BY <1>1, <1>3, <1>5, <1>7, <1>10 DEF MappedEqs

\* Kept of a sequence with one more element.
KeptEqs(s, e, K) == Kept(Append(s, e), K) = IF e \in K THEN Append(Kept(s, K), e) ELSE Kept(s, K)

\* Kept grows element by element.
LEMMA KeptAppend ==
    ASSUME NEW V, NEW s \in Seq(V), NEW e \in V, NEW K
    PROVE  KeptEqs(s, e, K)
BY KeptIs DEF KeptEqs

\* K1 is what is in K0 and has its g in K2.
Alike(V, g, W, K0, K1, K2) ==
    /\ \A e \in V : g[e] \in W
    /\ \A e \in V : e \in K1 <=> e \in K0 /\ g[e] \in K2

\* What is kept of the mapped is what is mapped of the kept.
LEMMA KeptMapped ==
    ASSUME NEW V, NEW s \in Seq(V), NEW K0, NEW K1, NEW K2, NEW g, NEW W,
           Alike(V, g, W, K0, K1, K2)
    PROVE  Kept(Mapped(Kept(s, K0), g), K2) = Mapped(Kept(s, K1), g)
<1>2. ASSUME NEW q \in Seq(V), Kept(Mapped(Kept(q, K0), g), K2) = Mapped(Kept(q, K1), g), NEW e \in V
      PROVE  Kept(Mapped(Kept(Append(q, e), K0), g), K2) = Mapped(Kept(Append(q, e), K1), g)
  <2>1. PICK k0 : k0 = Kept(q, K0)
    OBVIOUS
  <2>2. PICK k1 : k1 = Kept(q, K1)
    OBVIOUS
  <2>a. \A K : Kept(q, K) \in Seq(V)
    BY KeptType
  <2>b. \A K : Kept(Append(q, e), K) = IF e \in K THEN Append(Kept(q, K), e) ELSE Kept(q, K)
    BY KeptIs
  <2>3. /\ k0 \in Seq(V) /\ k1 \in Seq(V)
        /\ Kept(Append(q, e), K0) = IF e \in K0 THEN Append(k0, e) ELSE k0
        /\ Kept(Append(q, e), K1) = IF e \in K1 THEN Append(k1, e) ELSE k1
    BY <2>1, <2>2, <2>a, <2>b
  <2>4. PICK m0 : m0 = Mapped(k0, g)
    OBVIOUS
  <2>5. /\ m0 \in Seq(W) /\ g[e] \in W
        /\ Mapped(Append(k0, e), g) = Append(m0, g[e])
        /\ Mapped(Append(k1, e), g) = Append(Mapped(k1, g), g[e])
    <3>0. \A f \in V : g[f] \in W
      BY DEF Alike
    <3>1. Mapped(k0, g) \in Seq(W)
      BY <2>3, <3>0, MappedType
    <3>2. MappedEqs(k0, e, g) /\ MappedEqs(k1, e, g)
      BY <2>3, MappedAppend
    <3> QED BY <2>4, <3>0, <3>1, <3>2 DEF MappedEqs
  <2>6. Kept(m0, K2) = Mapped(k1, g)
    BY <1>2, <2>1, <2>2, <2>4
  <2>7. Kept(Append(m0, g[e]), K2) = IF g[e] \in K2 THEN Append(Kept(m0, K2), g[e]) ELSE Kept(m0, K2)
    <3>1. PICK x \in W : x = g[e]
      BY <2>5
    <3>2. m0 \in Seq(W)
      BY <2>5
    <3>3. KeptEqs(m0, x, K2)
      BY <3>2, KeptAppend
    <3> QED BY <3>1, <3>3 DEF KeptEqs
  <2>8. Kept(Mapped(Kept(Append(q, e), K0), g), K2) = Mapped(Kept(Append(q, e), K1), g)
    <3>0. e \in K1 <=> e \in K0 /\ g[e] \in K2
      BY DEF Alike
    <3>1. CASE e \in K1
      BY <2>3, <2>5, <2>6, <2>7, <3>0, <3>1, Zenon
    <3>2. CASE e \notin K1 /\ e \in K0
      BY <2>3, <2>5, <2>6, <2>7, <3>0, <3>2, Zenon
    <3>3. CASE e \notin K1 /\ e \notin K0
      BY <2>3, <2>4, <2>6, <3>0, <3>3, Zenon
    <3> QED BY <3>1, <3>2, <3>3
  <2> QED BY <2>8
<1> DEFINE S == { q \in Seq(V) : Kept(Mapped(Kept(q, K0), g), K2) = Mapped(Kept(q, K1), g) }
<1>1. <<>> \in S
  <2>0. <<>> \in Seq(V) /\ <<>> \in Seq(W)
    OBVIOUS
  <2>1. \A K : Kept(<<>>, K) = <<>>
    <3> SUFFICES ASSUME NEW K PROVE Kept(<<>>, K) = <<>>
      OBVIOUS
    <3>1. PICK v \in [0 .. Len(<<>>) -> Seq(V)] : KeptStep(v, <<>>, K)
      BY <2>0, KeptSteps
    <3> QED BY <3>1 DEF KeptStep
  <2>2. Mapped(<<>>, g) = <<>>
    BY DEF Mapped
  <2> QED BY <2>0, <2>1, <2>2
<1>4. ASSUME NEW q \in Seq(V), q \in S, NEW e \in V PROVE Append(q, e) \in S
  <2>1. Append(q, e) \in Seq(V)
    OBVIOUS
  <2> QED BY <1>2, <1>4, <2>1
<1> HIDE DEF S
<1>3. s \in S
  BY <1>1, <1>4, SeqInduction
<1> QED BY <1>3 DEF S
-----------------------------------------------------------------------------
(* What is selected: web.go:98-123, archive.go:37-54. *)

\* Finitely many places, finitely many values.
LEMMA FiniteRange ==
    ASSUME NEW N \in Nat, NEW f
    PROVE  IsFiniteSet({ f[n] : n \in 1 .. N })
<1> DEFINE T == { f[n] : n \in 1 .. N }
           h == [n \in 1 .. N |-> f[n]]
<1>1. h \in Surjection(1 .. N, T)
  BY DEF Surjection
<1>2. IsFiniteSet(1 .. N)
  BY FS_Interval
<1> HIDE DEF T, h
<1>3. IsFiniteSet(T)
  BY <1>1, <1>2, FS_Surjection
<1> QED BY <1>3 DEF T

\* The empty path has no names.
LEMMA EmptyNames == Joined(<<>>, Slash) = <<>> /\ Names(<<>>) = <<>>
<1>1. PICK nil : nil = <<>>
  OBVIOUS
<1>2. nil \in Seq(Comps)
  BY <1>1
<1>3. Names(Joined(nil, Slash)) = nil
  BY <1>2, NamesJoined
<1>4. Joined(nil, Slash) = nil
  <2>1. <<>> \in Seq(Seq(Nat)) /\ <<>> \in Seq(Nat) /\ Slash \in Nat
    BY CodeAssumption
  <2>2. JoinedEqs(<<>>, <<>>, Slash)
    BY <2>1, JoinedIs
  <2> QED BY <1>1, <2>2 DEF JoinedEqs
<1> QED BY <1>1, <1>3, <1>4

\* What is asked for, and its names.
LEMMA AskType ==
    ASSUME NEW a \in AllAsks
    PROVE  /\ a.path \in Strings /\ a.values \in Seq(Strings) /\ a.hash \in DOMAIN Torrents
           /\ Names(a.path) \in Seq(Comps)
           /\ \A n \in DOMAIN a.values : Names(a.values[n]) \in Seq(Comps)
<1>1. a.path \in Strings /\ a.values \in Seq(Strings) /\ a.hash \in DOMAIN Torrents
  BY PodAssumption DEF AllAsks
<1>2. \A n \in DOMAIN a.values : a.values[n] \in Strings
  BY <1>1
<1> QED BY <1>1, <1>2, NamesType

\* What ServeHTTP selects, in the terms of what README.md promises.
SelectedFacts(a) ==
    /\ SelectedPaths(a.values) \in Seq(Strings)
    /\ ToSet(SelectedPaths(a.values)) = { Joined(v, Slash) : v \in Chosen(a) }
    /\ SelectedPaths(a.values) = Sorted({ Joined(v, Slash) : v \in Chosen(a) })
    /\ Chosen(a) \subseteq Seq(Comps) \ {<<>>}

\* The values that are kept are the paths of what is chosen, each of them.
LEMMA SelectedIs ==
    ASSUME WellAsked, NEW a \in AllAsks
    PROVE  SelectedFacts(a)
<1>1. PICK values : values = a.values
  OBVIOUS
<1>2. PICK N : N = Len(values)
  OBVIOUS
<1>3. /\ values \in Seq(Strings) /\ N \in Nat /\ DOMAIN values = 1 .. N
      /\ \A n \in 1 .. N : Names(values[n]) \in Seq(Comps)
      /\ \A n \in 1 .. N : Trimmed(values[n]) = Joined(Names(values[n]), Slash)
  <2>1. values \in Seq(Strings) /\ N \in Nat /\ DOMAIN values = 1 .. N
    BY <1>1, <1>2, AskType
  <2> QED BY <1>1, <2>1, AskType DEF WellAsked
<1> DEFINE f == [n \in 1 .. N |-> Trimmed(values[n])]
           All == { f[n] : n \in 1 .. N }
           S == All \ {<<>>}
<1>4. \A n \in 1 .. N : f[n] = Joined(Names(values[n]), Slash) /\ f[n] \in Strings
  BY <1>3, NamesJoined
<1>5. All = { Trimmed(values[n]) : n \in DOMAIN values }
  BY <1>3
<1> HIDE DEF f
<1>6. IsFiniteSet(All)
  BY <1>3, FiniteRange
<1>7. S \in SUBSET Strings /\ IsFiniteSet(S)
  <2>1. S \in SUBSET All /\ S \in SUBSET Strings
    BY <1>4
  <2> QED BY <1>6, <2>1, FS_Subset
<1>8. SelectedPaths(a.values) = Sorted(S)
  BY <1>1, <1>5 DEF SelectedPaths
<1>9. Sorted(S) \in Seq(S) /\ ToSet(Sorted(S)) = S
  <2> HIDE DEF S
  <2> QED BY <1>7, SortedIs
<1>10. Sorted(S) \in Seq(Strings)
  <2>1. \A W, U : W \subseteq U => Seq(W) \subseteq Seq(U)
    OBVIOUS
  <2> HIDE DEF S
  <2> QED BY <1>7, <1>9, <2>1
<1>11. Chosen(a) = { Names(values[n]) : n \in 1 .. N } \ {<<>>}
  BY <1>1, <1>3 DEF Chosen
<1>12. Chosen(a) \subseteq Seq(Comps) \ {<<>>}
  BY <1>3, <1>11
<1>13. \A v \in Seq(Comps) : Joined(v, Slash) = <<>> <=> v = <<>>
  BY NamesJoined, EmptyNames
<1>14. S = { Joined(v, Slash) : v \in Chosen(a) }
  <2>1. ASSUME NEW s \in S PROVE \E v \in Chosen(a) : s = Joined(v, Slash)
    <3>1. PICK n \in 1 .. N : s = f[n]
      OBVIOUS
    <3>2. s = Joined(Names(values[n]), Slash) /\ s # <<>>
      BY <1>4, <3>1
    <3>3. Names(values[n]) # <<>>
      BY <3>2, EmptyNames
    <3>4. Names(values[n]) \in Chosen(a)
      BY <1>11, <3>3
    <3> QED BY <3>2, <3>4
  <2>2. ASSUME NEW v \in Chosen(a) PROVE Joined(v, Slash) \in S
    <3>1. PICK n \in 1 .. N : v = Names(values[n])
      BY <1>11
    <3>2. Joined(v, Slash) = f[n]
      BY <1>4, <3>1
    <3>3. Joined(v, Slash) # <<>>
      BY <1>12, <1>13
    <3> QED BY <3>2, <3>3
  <2> HIDE DEF S
  <2> QED BY <2>1, <2>2
<1> HIDE DEF S
<1> QED BY <1>8, <1>9, <1>10, <1>12, <1>14 DEF SelectedFacts

\* Nothing is selected if and only if nothing is chosen.
LEMMA SelectedNone ==
    ASSUME NEW a, SelectedFacts(a)
    PROVE  SelectedPaths(a.values) = <<>> <=> Chosen(a) = {}
<1>1. PICK s : s = SelectedPaths(a.values)
  OBVIOUS
<1>2. s \in Seq(Strings) /\ ToSet(s) = { Joined(v, Slash) : v \in Chosen(a) }
  BY <1>1 DEF SelectedFacts
<1>3. s = <<>> <=> ToSet(s) = {}
  <2>1. s = <<>> => ToSet(s) = {}
    BY DEF ToSet
  <2>2. s # <<>> => s[1] \in ToSet(s)
    BY <1>2 DEF ToSet
  <2> QED BY <2>1, <2>2
<1> QED BY <1>1, <1>2, <1>3

\* One of the paths chosen, if any are, is that of cs or of a folder it is in.
Chooses(a, cs) == Chosen(a) = {} \/ \E v \in Chosen(a) : IsPrefix(v, cs)

\* What the code keeps by its path is what is chosen by its names.
LEMMA SelectsAlike ==
    ASSUME NEW a, SelectedFacts(a), NEW cs \in Seq(Comps), cs # <<>>
    PROVE  LET selected == SelectedPaths(a.values)
           IN  (selected = <<>> \/ \E n \in DOMAIN selected : Under(Joined(cs, Slash), selected[n]))
               <=> Chooses(a, cs)
<1>1. PICK s : s = SelectedPaths(a.values)
  OBVIOUS
<1>2. PICK p : p = Joined(cs, Slash)
  OBVIOUS
<1>3. /\ ToSet(s) = { Joined(v, Slash) : v \in Chosen(a) }
      /\ Chosen(a) \subseteq Seq(Comps) \ {<<>>}
  BY <1>1 DEF SelectedFacts
<1>4. \A v \in Chosen(a) : Under(p, Joined(v, Slash)) <=> IsPrefix(v, cs)
  BY <1>2, <1>3, UnderIs
<1>5. (\E n \in DOMAIN s : Under(p, s[n])) <=> \E t \in ToSet(s) : Under(p, t)
  BY DEF ToSet
<1>6. (\E t \in ToSet(s) : Under(p, t)) <=> \E v \in Chosen(a) : IsPrefix(v, cs)
  BY <1>3, <1>4
<1>7. s = <<>> <=> Chosen(a) = {}
  BY <1>1, SelectedNone
<1> QED BY <1>1, <1>2, <1>5, <1>6, <1>7 DEF Chooses

\* What lies under X-Origin-Path by its path does so by its names.
LEMMA LiesAlike ==
    ASSUME WellAsked, NEW a \in AllAsks, NEW cs \in Seq(Comps), cs # <<>>
    PROVE  LET path == TrimmedLeft(a.path)
           IN  (path = <<>> \/ Under(Joined(cs, Slash), path)) <=> IsPrefix(Names(a.path), cs)
<1>1. PICK ns : ns = Names(a.path)
  OBVIOUS
<1>2. ns \in Seq(Comps) /\ TrimmedLeft(a.path) = Joined(ns, Slash)
  BY <1>1, AskType DEF WellAsked
<1>3. CASE ns = <<>>
  <2>1. IsPrefix(ns, cs)
    <3>1. Len(ns) = 0 /\ Len(cs) \in Nat
      BY <1>3
    <3>2. Len(ns) <= Len(cs) /\ \A k \in 1 .. Len(ns) : ns[k] = cs[k]
      BY <3>1
    <3> QED BY <1>2, <3>2, PrefixIs
  <2> QED BY <1>1, <1>2, <1>3, <2>1, EmptyNames
<1>4. CASE ns # <<>>
  <2>1. Joined(ns, Slash) # <<>>
    BY <1>2, <1>4, NamesJoined, EmptyNames
  <2>2. Under(Joined(cs, Slash), Joined(ns, Slash)) <=> IsPrefix(ns, cs)
    BY <1>2, <1>4, UnderIs
  <2> QED BY <1>1, <1>2, <2>1, <2>2
<1> QED BY <1>3, <1>4

\* The name of every file is there to be read from its path.
LEMMA GetPathNamed ==
    ASSUME WellNamed, NEW h \in DOMAIN Torrents, NEW f \in ToSet(Torrents[h].files)
    PROVE  GetPath(Torrents[h], f) \in Seq(Comps) /\ GetPath(Torrents[h], f) # <<>>
<1>1. PICK torrent : torrent = Torrents[h]
  OBVIOUS
<1>2. TorrentName(torrent) \in Strings /\ torrent.files \in Seq(FileInfos)
  BY <1>1, PodAssumption DEF TorrentName
<1>3. f \in FileInfos
  <2>1. f \in ToSet(torrent.files)
    BY <1>1
  <2> QED BY <1>2, <2>1 DEF ToSet
<1>4. PICK cs : cs = GetPath(torrent, f)
  OBVIOUS
<1>5. /\ cs \in Seq(Strings \ {<<>>})
      /\ ToSet(cs) = ({TorrentName(torrent)} \cup ToSet(Components(f))) \ {<<>>}
  BY <1>2, <1>3, <1>4, GetPathType
<1>6. /\ TorrentName(torrent) # <<>>
      /\ \A c \in {TorrentName(torrent)} \cup ToSet(Components(f)) : Slash \notin ToSet(c)
  BY <1>1 DEF WellNamed
<1>7. cs # <<>>
  <2>1. TorrentName(torrent) \in ToSet(cs)
    BY <1>5, <1>6
  <2> QED BY <2>1 DEF ToSet
<1>8. \A k \in 1 .. Len(cs) : cs[k] \in Comps
  <2> SUFFICES ASSUME NEW k \in 1 .. Len(cs) PROVE cs[k] \in Comps
    OBVIOUS
  <2>1. cs[k] \in Strings /\ cs[k] # <<>> /\ k \in DOMAIN cs
    BY <1>5
  <2>2. cs[k] \in ToSet(cs)
    BY <2>1 DEF ToSet
  <2>3. Slash \notin ToSet(cs[k])
    BY <1>5, <1>6, <2>2
  <2> QED BY <2>1, <2>3 DEF Comps, Component
<1>9. cs \in Seq(Comps)
  BY <1>5, <1>8
<1> QED BY <1>1, <1>4, <1>7, <1>9

\* README.md:9-13: what an ask gets is what it is promised.
LEMMA PlanHeld ==
    ASSUME WellNamed, WellAsked, NEW a \in AllAsks
    PROVE  Held[a] = Promises[a]
<1>1. PICK torrent : torrent = Torrents[a.hash]
  OBVIOUS
<1>2. PICK path : path = TrimmedLeft(a.path)
  OBVIOUS
<1>3. PICK selected : selected = SelectedPaths(a.values)
  OBVIOUS
<1> DEFINE V == ToSet(torrent.files)
           K0 == { f \in V : ~IsPadFile(f) }
           NamesOf(f) == Nonempty(<<TorrentName(torrent)>> \o Components(f))
           K1 == { f \in V : /\ ~IsPadFile(f)
                             /\ IsPrefix(Names(a.path), NamesOf(f))
                             /\ Chosen(a) = {} \/ \E v \in Chosen(a) : IsPrefix(v, NamesOf(f)) }
           Info(f) == [path |-> Joined(GetPath(torrent, f), Slash), size |-> f.size]
           g == [f \in V |-> Info(f)]
           real == Kept(torrent.files, K0)
           list == Listed(torrent)
           Wished(e) == /\ path = <<>> \/ Under(e.path, path)
                        /\ selected = <<>> \/ \E n \in DOMAIN selected : Under(e.path, selected[n])
           K2 == { e \in ToSet(list) : Wished(e) }
<1>4. a.hash \in DOMAIN Torrents /\ torrent.files \in Seq(FileInfos)
  BY <1>1, AskType, PodAssumption
<1>5. torrent.files \in Seq(V)
  BY <1>4 DEF ToSet
<1>6. real \in Seq(V \cap K0) /\ ToSet(real) = V \cap K0
  BY <1>5, KeptElements
<1>7. list = Mapped(real, g)
  <2>1. \A n \in 1 .. Len(real) : real[n] \in V
    BY <1>6
  <2>2. list = [n \in 1 .. Len(real) |-> Info(real[n])]
    BY Zenon DEF Listed
  <2>3. \A f \in V : g[f] = Info(f)
    OBVIOUS
  <2> HIDE DEF list, real, g, Info, V
  <2>4. \A n \in 1 .. Len(real) : Info(real[n]) = g[real[n]]
    BY <2>1, <2>3
  <2> QED BY <2>2, <2>4 DEF Mapped
<1>8. \A f \in V : GetPath(torrent, f) = NamesOf(f) /\ NamesOf(f) \in Seq(Comps) /\ NamesOf(f) # <<>>
  BY <1>1, <1>4, GetPathNamed DEF GetPath
<1>9. \A f \in V : g[f].path = Joined(NamesOf(f), Slash)
  BY <1>8
<1>10. SelectedFacts(a)
  BY SelectedIs
<1>11. ASSUME NEW f \in V PROVE f \in K1 <=> f \in K0 /\ g[f] \in K2
  <2>1. PICK cs : cs = NamesOf(f)
    OBVIOUS
  <2>2. cs \in Seq(Comps) /\ cs # <<>> /\ g[f].path = Joined(cs, Slash)
    BY <1>8, <1>9, <2>1
  <2>3. /\ (path = <<>> \/ Under(Joined(cs, Slash), path)) <=> IsPrefix(Names(a.path), cs)
        /\ (selected = <<>> \/ \E n \in DOMAIN selected : Under(Joined(cs, Slash), selected[n]))
              <=> (Chosen(a) = {} \/ \E v \in Chosen(a) : IsPrefix(v, cs))
    BY <1>2, <1>3, <1>10, <2>2, LiesAlike, SelectsAlike DEF Chooses
  <2>4. Wished(g[f]) <=> /\ IsPrefix(Names(a.path), cs)
                         /\ Chosen(a) = {} \/ \E v \in Chosen(a) : IsPrefix(v, cs)
    <3> HIDE DEF g
    <3> QED BY <2>2, <2>3
  <2>5. f \in K0 => g[f] \in ToSet(list)
    <3> SUFFICES ASSUME f \in K0 PROVE g[f] \in ToSet(list)
      OBVIOUS
    <3> HIDE DEF list, real, g, K0, V
    <3>1. PICK n \in DOMAIN real : real[n] = f
      BY <1>6 DEF ToSet
    <3>2. n \in DOMAIN list /\ list[n] = g[f]
      BY <1>6, <1>7, <3>1 DEF Mapped
    <3> QED BY <3>2 DEF ToSet
  <2> HIDE DEF list, g, Wished
  <2> QED BY <2>1, <2>4, <2>5
<1>12. GenerateFileList(list, path, selected) = Kept(list, K2)
  BY DEF GenerateFileList
<1> DEFINE W == { g[f] : f \in V }
           kept == Kept(torrent.files, K1)
<1>13. Kept(list, K2) = Mapped(kept, g)
  <2>1. \A f \in V : g[f] \in W
    OBVIOUS
  <2> HIDE DEF K0, K1, K2, W, g, V, list
  <2>2. Alike(V, g, W, K0, K1, K2)
    BY <1>11, <2>1 DEF Alike
  <2> QED BY <1>5, <1>7, <2>2, KeptMapped DEF real, kept
<1>14. kept \in Seq(V)
  BY <1>5, KeptType
<1> DEFINE files == Plans[a].files
<1>15. files = Mapped(kept, g)
  <2>1. Plans[a].files =
         GenerateFileList(Listed(Torrents[a.hash]), TrimmedLeft(a.path), SelectedPaths(a.values))
    BY DEF Plans, Planned
  <2> QED BY <1>1, <1>2, <1>3, <1>12, <1>13, <2>1
<1> HIDE DEF kept, files, g
<1>16. DOMAIN files = DOMAIN kept /\ \A n \in DOMAIN kept : files[n] = g[kept[n]] /\ kept[n] \in V
  BY <1>14, <1>15 DEF Mapped
<1>17. \A n \in DOMAIN kept : Names(files[n].path) = NamesOf(kept[n])
  BY <1>8, <1>9, <1>16, NamesJoined
<1>18. Held[a] = [n \in DOMAIN files |-> Names(files[n].path)]
  BY Zenon DEF Held, files
<1>19. Promises[a] = [n \in DOMAIN kept |-> NamesOf(kept[n])]
  <2>1. Promises[a] = Promised(a)
    BY Zenon DEF Promises
  <2>2. Promised(a) = [n \in DOMAIN kept |-> NamesOf(kept[n])]
    BY <1>1, Zenon DEF Promised, kept
  <2> QED BY <2>1, <2>2
<1> HIDE DEF NamesOf
<1> QED BY <1>16, <1>17, <1>18, <1>19
-----------------------------------------------------------------------------
(* The ETag: web.go:319-327. *)

\* Max of a set of places.
LEMMA MostIs ==
    ASSUME NEW n \in Nat, NEW S \in SUBSET (1 .. n), S # {}
    PROVE  Max(S) \in S /\ \A k \in S : Max(S) >= k
<1> DEFINE T == { m \in 1 .. n : n + 1 - m \in S }
<1>1. T \in SUBSET (1 .. n) /\ T # {}
  <2>1. PICK k : k \in S
    OBVIOUS
  <2>2. n + 1 - k \in 1 .. n /\ n + 1 - (n + 1 - k) = k
    BY <2>1
  <2> QED BY <2>1, <2>2
<1>2. PICK m \in T : \A j \in T : m <= j
  <2> HIDE DEF T
  <2> QED BY <1>1, LeastIs
<1>3. \E x \in S : \A k \in S : x >= k
  <2>1. ASSUME NEW k \in S PROVE n + 1 - m >= k
    <3>1. n + 1 - k \in 1 .. n /\ n + 1 - (n + 1 - k) = k
      OBVIOUS
    <3>2. n + 1 - k \in T
      BY <3>1
    <3>3. m <= n + 1 - k
      BY <1>2, <3>2
    <3> QED BY <3>3
  <2> QED BY <1>2, <2>1
<1> QED BY <1>3, Zenon DEF Max

\* A piece of a string has nothing else in it.
LEMMA CutElements ==
    ASSUME NEW s \in Strings, NEW b \in 1 .. Len(s), NEW e \in 1 .. Len(s), b <= e
    PROVE  ToSet(SubSeq(s, b, e)) \subseteq ToSet(s)
<1>1. s \in Seq(Nat) /\ b \in Nat /\ e \in Nat /\ 1 <= b /\ b <= e + 1 /\ e <= Len(s) /\ Len(s) \in Nat
  BY DEF Strings
<1>2. PICK t : t = SubSeq(s, b, e)
  OBVIOUS
<1>3. t \in Seq(Nat) /\ Len(t) = e - b + 1 /\ \A i \in 1 .. (e - b + 1) : t[i] = s[b + i - 1]
  BY <1>1, <1>2, SubSeqIs
<1>4. ASSUME NEW i \in DOMAIN t PROVE t[i] \in ToSet(s)
  <2>1. i \in 1 .. (e - b + 1)
    BY <1>3
  <2>2. b + i - 1 \in 1 .. Len(s)
    BY <1>1, <2>1
  <2>3. b + i - 1 \in DOMAIN s
    BY <1>1, <2>2
  <2> QED BY <1>3, <2>1, <2>3 DEF ToSet
<1>5. ToSet(t) \subseteq ToSet(s)
  BY <1>4 DEF ToSet
<1> QED BY <1>2, <1>5

\* Trimming adds nothing.
LEMMA TrimmedElements ==
    ASSUME NEW s \in Strings
    PROVE  ToSet(Trimmed(s)) \subseteq ToSet(s) /\ ToSet(TrimmedLeft(s)) \subseteq ToSet(s)
<1> DEFINE kept == { k \in 1 .. Len(s) : s[k] # Slash }
<1>1. s \in Seq(Nat) /\ Len(s) \in Nat
  BY DEF Strings
<1>2. CASE kept = {}
  BY <1>2 DEF Trimmed, TrimmedLeft, ToSet
<1>3. CASE kept # {}
  <2>1. PICK b : b = Min(kept)
    OBVIOUS
  <2>2. PICK e : e = Max(kept)
    OBVIOUS
  <2>3. kept \in SUBSET (1 .. Len(s))
    OBVIOUS
  <2>4. Trimmed(s) = SubSeq(s, b, e) /\ TrimmedLeft(s) = SubSeq(s, b, Len(s))
    BY <1>3, <2>1, <2>2 DEF Trimmed, TrimmedLeft
  <2> HIDE DEF kept
  <2>5. b \in kept /\ \A k \in kept : b <= k
    BY <1>1, <1>3, <2>1, <2>3, LeastIs
  <2>6. e \in kept
    BY <1>1, <1>3, <2>2, <2>3, MostIs
  <2>7. b \in 1 .. Len(s) /\ e \in 1 .. Len(s) /\ b <= e /\ Len(s) \in 1 .. Len(s) /\ b <= Len(s)
    BY <1>1, <2>3, <2>5, <2>6
  <2>8. ToSet(SubSeq(s, b, e)) \subseteq ToSet(s)
    BY <2>7, CutElements
  <2>9. ToSet(SubSeq(s, b, Len(s))) \subseteq ToSet(s)
    BY <2>7, CutElements
  <2> QED BY <2>4, <2>8, <2>9
<1> QED BY <1>2, <1>3

\* Sequences that are the same place by place.
LEMMA SameElements ==
    ASSUME NEW X, NEW s \in Seq(X), NEW t \in Seq(X), Len(s) = Len(t),
           \A i \in 1 .. Len(s) : s[i] = t[i]
    PROVE  s = t
OBVIOUS

\* One sequence behind the other, place by place.
Concatenated(s, t) ==
    /\ Len(s \o t) = Len(s) + Len(t)
    /\ \A i \in 1 .. Len(s) : (s \o t)[i] = s[i]
    /\ \A i \in 1 .. Len(t) : (s \o t)[Len(s) + i] = t[i]

\* That is what concatenation is.
LEMMA ConcatIs ==
    ASSUME NEW X, NEW s \in Seq(X), NEW t \in Seq(X)
    PROVE  Concatenated(s, t)
<1>1. Len(s) \in Nat /\ Len(t) \in Nat
  OBVIOUS
<1>2. ASSUME NEW i \in 1 .. Len(t) PROVE (s \o t)[Len(s) + i] = t[i]
  <2>1. PICK j : j = Len(s) + i
    OBVIOUS
  <2>2. j \in 1 .. Len(s) + Len(t) /\ ~(j <= Len(s)) /\ j - Len(s) = i
    BY <1>1, <2>1
  <2>3. (s \o t)[j] = t[j - Len(s)]
    BY <2>2
  <2> QED BY <2>1, <2>2, <2>3
<1>3. Len(s \o t) = Len(s) + Len(t) /\ \A i \in 1 .. Len(s) : (s \o t)[i] = s[i]
  OBVIOUS
<1> QED BY <1>2, <1>3 DEF Concatenated

\* What can be behind the path in an ETag.
Marked(m) == m = <<>> \/ m[1] = Marker

\* The three parts of two ETags are the same.
SameEnds(h, k, p, q, m, n) == h = k /\ p = q /\ m = n

\* Where the path ends can be told by the first Marker behind it.
LEMMA PathEnds ==
    ASSUME NEW h, NEW k, NEW p \in Seq(Nat), NEW q \in Seq(Nat), NEW m \in Seq(Nat), NEW n \in Seq(Nat),
           Marker \notin ToSet(p), Marker \notin ToSet(q), Marked(m), Marked(n),
           <<h>> \o p \o m = <<k>> \o q \o n
    PROVE  SameEnds(h, k, p, q, m, n)
<1> DEFINE X == Nat \cup {h, k}
<1>1. PICK x : x = <<h>> \o p \o m
  OBVIOUS
<1>2. x = <<k>> \o q \o n
  BY <1>1
<1>3. ASSUME NEW c \in X, NEW r \in Seq(Nat), NEW o \in Seq(Nat), x = <<c>> \o r \o o
      PROVE  /\ Len(x) = 1 + Len(r) + Len(o) /\ x[1] = c
             /\ \A i \in 1 .. Len(r) : x[1 + i] = r[i]
             /\ \A i \in 1 .. Len(o) : x[1 + Len(r) + i] = o[i]
  <2>0. Nat \subseteq X /\ \A W, U : W \subseteq U => Seq(W) \subseteq Seq(U)
    OBVIOUS
  <2> HIDE DEF X
  <2>1. r \in Seq(X) /\ o \in Seq(X) /\ <<c>> \in Seq(X)
    BY <2>0
  <2>2. PICK y : y = <<c>> \o r
    OBVIOUS
  <2>3. y \in Seq(X) /\ Len(y) = 1 + Len(r) /\ y[1] = c /\ \A i \in 1 .. Len(r) : y[1 + i] = r[i]
    BY <2>1, <2>2
  <2>4. x = y \o o
    BY <1>3, <2>2
  <2>a. Concatenated(y, o)
    BY <2>1, <2>3, ConcatIs
  <2>5. /\ Len(x) = Len(y) + Len(o) /\ \A i \in 1 .. Len(y) : x[i] = y[i]
        /\ \A i \in 1 .. Len(o) : x[Len(y) + i] = o[i]
    BY <2>4, <2>a, Zenon DEF Concatenated
  <2>6. Len(r) \in Nat /\ \A i \in 1 .. Len(r) : 1 + i \in 1 .. Len(y)
    BY <2>1, <2>3
  <2> QED BY <2>3, <2>5, <2>6, SMTT(30)
<1>4. /\ Len(x) = 1 + Len(p) + Len(m) /\ x[1] = h
      /\ \A i \in 1 .. Len(p) : x[1 + i] = p[i]
      /\ \A i \in 1 .. Len(m) : x[1 + Len(p) + i] = m[i]
  BY <1>1, <1>3
<1>5. /\ Len(x) = 1 + Len(q) + Len(n) /\ x[1] = k
      /\ \A i \in 1 .. Len(q) : x[1 + i] = q[i]
      /\ \A i \in 1 .. Len(n) : x[1 + Len(q) + i] = n[i]
  BY <1>2, <1>3
<1> HIDE DEF X
<1>6. Len(p) \in Nat /\ Len(q) \in Nat /\ Len(m) \in Nat /\ Len(n) \in Nat
  OBVIOUS
<1>7. (\A i \in 1 .. Len(p) : p[i] # Marker) /\ (\A i \in 1 .. Len(q) : q[i] # Marker)
  BY DEF ToSet
<1>8. ~(Len(p) < Len(q))
  <2> SUFFICES ASSUME Len(p) < Len(q) PROVE FALSE
    OBVIOUS
  <2>1. 1 \in 1 .. Len(m) /\ Len(p) + 1 \in 1 .. Len(q) /\ 1 + Len(p) + 1 = 1 + (Len(p) + 1)
    BY <1>4, <1>5, <1>6
  <2>2. m[1] = Marker
    BY <2>1 DEF Marked
  <2>3. x[1 + Len(p) + 1] = m[1]
    BY <1>4, <2>1
  <2>4. x[1 + (Len(p) + 1)] = q[Len(p) + 1]
    BY <1>5, <2>1
  <2> QED BY <1>7, <2>1, <2>2, <2>3, <2>4
<1>9. ~(Len(q) < Len(p))
  <2> SUFFICES ASSUME Len(q) < Len(p) PROVE FALSE
    OBVIOUS
  <2>1. 1 \in 1 .. Len(n) /\ Len(q) + 1 \in 1 .. Len(p) /\ 1 + Len(q) + 1 = 1 + (Len(q) + 1)
    BY <1>4, <1>5, <1>6
  <2>2. n[1] = Marker
    BY <2>1 DEF Marked
  <2>3. x[1 + Len(q) + 1] = n[1]
    BY <1>5, <2>1
  <2>4. x[1 + (Len(q) + 1)] = p[Len(q) + 1]
    BY <1>4, <2>1
  <2> QED BY <1>7, <2>1, <2>2, <2>3, <2>4
<1>10. Len(p) = Len(q) /\ Len(m) = Len(n)
  BY <1>4, <1>5, <1>6, <1>8, <1>9
<1>11. p = q
  <2>1. \A i \in 1 .. Len(p) : p[i] = q[i]
    BY <1>4, <1>5, <1>10
  <2> QED BY <1>10, <2>1, SameElements
<1>12. m = n
  <2>1. \A i \in 1 .. Len(m) : m[i] = n[i]
    BY <1>4, <1>5, <1>10
  <2> QED BY <1>10, <2>1, SameElements
<1>13. h = k
  BY <1>4, <1>5
<1> QED BY <1>11, <1>12, <1>13 DEF SameEnds

\* The part of an ETag behind the path.
Rest(selected) == IF selected = <<>> THEN <<>> ELSE <<Marker>> \o Joined(selected, Nul)

\* It begins with Marker, unless nothing is selected.
LEMMA RestIs ==
    ASSUME NEW s \in Seq(Strings)
    PROVE  /\ Rest(s) \in Seq(Nat) /\ Marked(Rest(s)) /\ (Rest(s) = <<>> <=> s = <<>>)
<1>1. PICK j : j = Joined(s, Nul)
  OBVIOUS
<1>2. Nul \in Nat /\ Marker \in Nat
  BY CodeAssumption
<1>3. j \in Seq(Nat)
  BY <1>1, <1>2, JoinedType DEF Strings
<1>4. PICK t : t = <<Marker>> \o j
  OBVIOUS
<1>5. t \in Seq(Nat) /\ Len(t) = 1 + Len(j) /\ t[1] = Marker /\ Len(j) \in Nat
  BY <1>2, <1>3, <1>4
<1>6. t # <<>>
  BY <1>5
<1> QED BY <1>1, <1>4, <1>5, <1>6 DEF Rest, Marked

\* It tells what is selected: no path has Nul in it.
LEMMA RestTells ==
    ASSUME NEW s \in Seq({ c \in Strings : Clean(c, Nul) }),
           NEW t \in Seq({ c \in Strings : Clean(c, Nul) }), Rest(s) = Rest(t)
    PROVE  s = t
<1>1. Nul \in Nat /\ Marker \in Nat
  BY CodeAssumption
<1>2. s \in Seq(Strings) /\ t \in Seq(Strings)
  OBVIOUS
<1>3. Joined(s, Nul) \in Seq(Nat) /\ Joined(t, Nul) \in Seq(Nat)
  BY <1>1, <1>2, JoinedType DEF Strings
<1>4. CASE s = <<>> \/ t = <<>>
  <2>1. s = <<>> /\ t = <<>>
    BY <1>2, <1>4, RestIs
  <2> QED BY <2>1
<1>5. CASE s # <<>> /\ t # <<>>
  <2>1. <<Marker>> \o Joined(s, Nul) = <<Marker>> \o Joined(t, Nul)
    BY <1>5 DEF Rest
  <2>2. <<Marker>> \in Seq(Nat) /\ Len(<<Marker>>) = 1
    BY <1>1
  <2>3. PICK j : j = Joined(s, Nul)
    OBVIOUS
  <2>4. PICK k : k = Joined(t, Nul)
    OBVIOUS
  <2>5. PICK m : m = <<Marker>>
    OBVIOUS
  <2>6. Concatenated(m, j) /\ Concatenated(m, k) /\ m \o j = m \o k /\ Len(m) = 1
    BY <1>3, <2>1, <2>2, <2>3, <2>4, <2>5, ConcatIs
  <2>7. j \in Seq(Nat) /\ k \in Seq(Nat) /\ Len(j) \in Nat /\ Len(k) \in Nat
    BY <1>3, <2>3, <2>4
  <2>8. Len(j) = Len(k)
    BY <2>6, <2>7 DEF Concatenated
  <2>9. \A i \in 1 .. Len(j) : j[i] = k[i]
    BY <2>6, <2>8 DEF Concatenated
  <2>10. j = k
    BY <2>7, <2>8, <2>9, SameElements
  <2>11. Parts(j, Nul) = s
    BY <1>1, <1>5, <2>3, PartsJoined
  <2>12. Parts(k, Nul) = t
    BY <1>1, <1>5, <2>4, PartsJoined
  <2> QED BY <2>10, <2>11, <2>12
<1> QED BY <1>4, <1>5

\* parseSelectedPaths lets no Nul through (web.go:110-113).
LEMMA SelectedClean ==
    ASSUME WellAsked, NEW a \in AllAsks, ~Rejected(a.values)
    PROVE  SelectedPaths(a.values) \in Seq({ c \in Strings : Clean(c, Nul) })
<1>1. PICK s : s = SelectedPaths(a.values)
  OBVIOUS
<1>2. s \in Seq(Strings) /\ ToSet(s) = { Joined(v, Slash) : v \in Chosen(a) }
  BY <1>1, SelectedIs DEF SelectedFacts
<1>3. \A n \in DOMAIN a.values : a.values[n] \in Strings /\ Nul \notin ToSet(a.values[n])
  <2>1. a.values \in Seq(Strings)
    BY AskType
  <2> QED BY <2>1 DEF Rejected
<1>4. ASSUME NEW k \in 1 .. Len(s) PROVE s[k] \in Strings /\ Nul \notin ToSet(s[k])
  <2>1. s[k] \in ToSet(s) /\ s[k] \in Strings
    BY <1>2 DEF ToSet
  <2>2. PICK v \in Chosen(a) : s[k] = Joined(v, Slash)
    BY <1>2, <2>1
  <2>3. PICK n \in DOMAIN a.values : v = Names(a.values[n])
    BY DEF Chosen
  <2>4. s[k] = Trimmed(a.values[n])
    BY <2>2, <2>3 DEF WellAsked
  <2> QED BY <1>3, <2>1, <2>4, TrimmedElements
<1>5. \A k \in 1 .. Len(s) : s[k] \in { c \in Strings : Clean(c, Nul) }
  BY <1>4 DEF Clean
<1>6. s \in Seq({ c \in Strings : Clean(c, Nul) })
  BY <1>2, <1>5
<1> QED BY <1>1, <1>6

\* web.go:101-105: what an ETag has to tell.
SameAsk(a, b) ==
    a.hash = b.hash /\ Names(a.path) = Names(b.path) /\ Chosen(a) = Chosen(b)

\* web.go:101-105, 319-321: the ETag tells what is asked for, and nothing else.
LEMMA PlanEtag ==
    ASSUME WellAsked, Unmarked, NEW a \in AllAsks, NEW b \in AllAsks,
           ~Rejected(a.values), ~Rejected(b.values)
    PROVE  Plans[a].etag = Plans[b].etag <=> SameAsk(a, b)
<1> DEFINE PathOf(c) == TrimmedLeft(c.path)
           SelOf(c) == SelectedPaths(c.values)
<1>1. \A c \in AllAsks : Plans[c].etag = <<c.hash>> \o PathOf(c) \o Rest(SelOf(c))
  BY DEF Plans, Planned, EtagSource, Rest
<1>2. \A c \in AllAsks :
         /\ PathOf(c) \in Seq(Nat) /\ Marker \notin ToSet(PathOf(c))
         /\ PathOf(c) = Joined(Names(c.path), Slash) /\ Names(c.path) \in Seq(Comps)
  <2> SUFFICES ASSUME NEW c \in AllAsks
               PROVE  /\ PathOf(c) \in Seq(Nat) /\ Marker \notin ToSet(PathOf(c))
                      /\ PathOf(c) = Joined(Names(c.path), Slash) /\ Names(c.path) \in Seq(Comps)
    OBVIOUS
  <2>1. c.path \in Strings /\ Names(c.path) \in Seq(Comps)
    BY AskType
  <2>2. ToSet(PathOf(c)) \subseteq ToSet(c.path) /\ PathOf(c) \in Strings
    BY <2>1, TrimmedElements, TrimmedLeftType
  <2> QED BY <2>1, <2>2 DEF Unmarked, WellAsked, Strings
<1>3. SelectedFacts(a) /\ SelectedFacts(b)
  BY SelectedIs
<1>4. /\ SelOf(a) \in Seq({ c \in Strings : Clean(c, Nul) })
      /\ SelOf(b) \in Seq({ c \in Strings : Clean(c, Nul) })
  BY SelectedClean
<1>5. /\ Rest(SelOf(a)) \in Seq(Nat) /\ Marked(Rest(SelOf(a)))
      /\ Rest(SelOf(b)) \in Seq(Nat) /\ Marked(Rest(SelOf(b)))
  BY <1>3, RestIs DEF SelectedFacts
<1>6. ASSUME Plans[a].etag = Plans[b].etag PROVE SameAsk(a, b)
  <2> HIDE DEF PathOf, SelOf
  <2>0. <<a.hash>> \o PathOf(a) \o Rest(SelOf(a)) = <<b.hash>> \o PathOf(b) \o Rest(SelOf(b))
    BY <1>1, <1>6
  <2>1. a.hash = b.hash /\ PathOf(a) = PathOf(b) /\ Rest(SelOf(a)) = Rest(SelOf(b))
    <3>1. PathOf(a) \in Seq(Nat) /\ Marker \notin ToSet(PathOf(a))
      BY <1>2
    <3>2. PathOf(b) \in Seq(Nat) /\ Marker \notin ToSet(PathOf(b))
      BY <1>2
    <3>3. SameEnds(a.hash, b.hash, PathOf(a), PathOf(b), Rest(SelOf(a)), Rest(SelOf(b)))
      BY <1>5, <2>0, <3>1, <3>2, PathEnds
    <3> QED BY <3>3 DEF SameEnds
  <2>2. SelOf(a) = SelOf(b)
    BY <1>4, <2>1, RestTells
  <2>3. Names(a.path) = Names(b.path)
    <3>1. Names(PathOf(a)) = Names(a.path) /\ Names(PathOf(b)) = Names(b.path)
      BY <1>2, NamesJoined
    <3> QED BY <2>1, <3>1
  <2>4. { Joined(v, Slash) : v \in Chosen(a) } = { Joined(v, Slash) : v \in Chosen(b) }
    BY <1>3, <2>2 DEF SelectedFacts, SelOf
  <2>5. \A v \in Chosen(a) \cup Chosen(b) : Names(Joined(v, Slash)) = v
    BY <1>3, NamesJoined DEF SelectedFacts
  <2>6. Chosen(a) = Chosen(b)
    <3>1. ASSUME NEW v \in Chosen(a) PROVE v \in Chosen(b)
      <4>1. PICK w \in Chosen(b) : Joined(v, Slash) = Joined(w, Slash)
        BY <2>4
      <4>2. v = w
        BY <2>5, <4>1
      <4> QED BY <4>2
    <3>2. ASSUME NEW v \in Chosen(b) PROVE v \in Chosen(a)
      <4>1. PICK w \in Chosen(a) : Joined(v, Slash) = Joined(w, Slash)
        BY <2>4
      <4>2. v = w
        BY <2>5, <4>1
      <4> QED BY <4>2
    <3> QED BY <3>1, <3>2
  <2> QED BY <2>1, <2>3, <2>6 DEF SameAsk
<1>7. ASSUME SameAsk(a, b) PROVE Plans[a].etag = Plans[b].etag
  <2>1. SelOf(a) = SelOf(b)
    BY <1>3, <1>7 DEF SelectedFacts, SameAsk
  <2>2. PathOf(a) = PathOf(b) /\ a.hash = b.hash
    BY <1>2, <1>7 DEF SameAsk
  <2> HIDE DEF PathOf, SelOf
  <2> QED BY <1>1, <2>1, <2>2
<1> QED BY <1>6, <1>7

\* 404 is for the selections that README.md promises nothing (web.go:287-292).
LEMMA PlanMissing ==
    ASSUME WellNamed, WellAsked, NEW a \in AllAsks
    PROVE  Plans[a].missing <=> Promises[a] = <<>> /\ Chosens[a] # {}
<1>1. Plans[a].missing <=> SelectedPaths(a.values) # <<>> /\ Plans[a].files = <<>>
  BY DEF Plans, Planned
<1>2. SelectedPaths(a.values) = <<>> <=> Chosens[a] = {}
  BY SelectedIs, SelectedNone DEF Chosens
<1>3. Plans[a].files = <<>> <=> Held[a] = <<>>
  <2>1. PICK files : files = Plans[a].files
    OBVIOUS
  <2>2. files \in Seq(Elements)
    <3>1. files =
           GenerateFileList(Listed(Torrents[a.hash]), TrimmedLeft(a.path), SelectedPaths(a.values))
      BY <2>1 DEF Plans, Planned
    <3>2. Listed(Torrents[a.hash]) \in Seq(Elements)
      BY AskType, ListedType
    <3> QED BY <3>1, <3>2, FilesType
  <2>3. Held[a] = [n \in DOMAIN files |-> Names(files[n].path)]
    BY <2>1 DEF Held
  <2>4. DOMAIN Held[a] = 1 .. Len(files) /\ Len(files) \in Nat
    BY <2>2, <2>3
  <2>5. CASE files = <<>>
    BY <2>1, <2>3, <2>5
  <2>6. CASE files # <<>>
    <3>1. 1 \in DOMAIN Held[a]
      BY <2>2, <2>4, <2>6
    <3>2. DOMAIN <<>> = {}
      OBVIOUS
    <3> QED BY <2>1, <2>6, <3>1, <3>2
  <2> QED BY <2>5, <2>6
<1> QED BY <1>1, <1>2, <1>3, PlanHeld
=============================================================================
