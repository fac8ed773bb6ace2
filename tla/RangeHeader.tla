---------------------------- MODULE RangeHeader ----------------------------
(***************************************************************************)
(* web.go's parseRange: a Range header against the size of the archive.  A *)
(* header is its parts: the unit, whether there is a comma in it, whether  *)
(* there is a dash, and what stands on its two sides, a number of any size *)
(* or no number.                                                           *)
(***************************************************************************)
EXTENDS Integers

CONSTANTS
    Empty,      \* a side of the dash with nothing on it
    Malformed,  \* one that is no number
    MaxInt      \* the largest int64: 2^63 - 1

ASSUME SideAssumption == Empty \notin Int /\ Malformed \notin Int /\ Empty # Malformed

ASSUME MaxIntAssumption == MaxInt \in Nat

\* The first dash splits the header, so that a sign can only be in the second part.
Headers == [unit : {"none", "other", "bytes"}, comma : BOOLEAN, dash : BOOLEAN,
            first : Nat \cup {Empty, Malformed}, last : Int \cup {Empty, Malformed}]

Ignored(size)       == [begin |-> 0, end |-> size - 1, status |-> 200]
Unsatisfiable(size) == [begin |-> 0, end |-> size - 1, status |-> 416]
Part(b, e)          == [begin |-> b, end |-> e, status |-> 206]

\* strconv.ParseInt(side, 10, 64): a number beyond int64 is an error, like none.  A
\* plus sign, which it takes, is no other number here.
ParseInt(side) ==
    IF side = Empty \/ (side \in Int /\ -MaxInt - 1 <= side /\ side <= MaxInt)
    THEN side ELSE Malformed

Parsed(h) == [unit |-> h.unit, comma |-> h.comma, dash |-> h.dash,
              first |-> ParseInt(h.first), last |-> ParseInt(h.last)]

Smaller(a, b) == IF a < b THEN a ELSE b

\* "-n": the last n bytes.
ParseSuffix(n, size) ==
    CASE n \in {Empty, Malformed} -> Ignored(size)
      [] n \in Int /\ n <= 0 -> Unsatisfiable(size)
      [] OTHER -> Part(size - Smaller(n, size), size - 1)

\* Mutant of ParseFrom: the end is not clamped to the archive.
ParseFromUnclamped(b, last, size) ==
    CASE b = Malformed -> Ignored(size)
      [] b \in Int /\ b >= size -> Unsatisfiable(size)
      [] b \in Int /\ b < size /\ last = Empty -> Part(b, size - 1)
      [] b \in Int /\ b < size /\ last \in Int /\ last >= b -> Part(b, last)
      [] OTHER -> Ignored(size)

\* "b-" and "b-e": where b is beyond the archive, e is not looked at.
ParseFrom(b, last, size) ==
    CASE b = Malformed -> Ignored(size)
      [] b \in Int /\ b >= size -> Unsatisfiable(size)
      [] b \in Int /\ b < size /\ last = Empty -> Part(b, size - 1)
      [] b \in Int /\ b < size /\ last \in Int /\ last >= b -> Part(b, Smaller(last, size - 1))
      [] OTHER -> Ignored(size)

ParseParts(h, size) ==
    IF h.unit # "bytes" \/ h.comma \/ ~h.dash THEN Ignored(size)
    ELSE IF h.first = Empty THEN ParseSuffix(h.last, size)
    ELSE ParseFrom(h.first, h.last, size)

ParseRange(h, size) == ParseParts(Parsed(h), size)
-----------------------------------------------------------------------------
\* A single byte range as RFC 7233 defines it.
WellFormed(h) ==
    /\ h.unit = "bytes" /\ ~h.comma /\ h.dash
    /\ \/ h.first = Empty /\ h.last \in Nat
       \/ h.first \in Nat /\ h.last = Empty
       \/ h.first \in Nat /\ h.last \in Nat /\ h.first <= h.last

\* The bytes of an archive of that size that it asks for.
Wanted(h, size) ==
    { k \in 0 .. size - 1 :
        IF h.first = Empty THEN k >= size - h.last
        ELSE k >= h.first /\ (h.last = Empty \/ k <= h.last) }

\* Its numbers are such that an int64 holds them.
Fits(h) == Parsed(h) = h

\* A header that is refused before it has been read to its end: its first number is
\* beyond the archive, whatever the second, or it asks for the last -n bytes.
Hasty(h, size) ==
    /\ h.unit = "bytes" /\ ~h.comma /\ h.dash
    /\ \/ h.first \in size .. MaxInt
       \/ h.first = Empty /\ h.last \in -MaxInt - 1 .. -1

\* What every header gets: one that is well-formed, its numbers int64's, exactly the
\* bytes it asks for, or 416 if there are none; any other the whole archive, unless it
\* is refused in haste.
Exact(h, size, p) ==
    /\ WellFormed(h) /\ Fits(h) =>
          IF Wanted(h, size) = {} THEN p.status = 416
          ELSE p.status = 206 /\ p.begin .. p.end = Wanted(h, size)
    /\ ~(WellFormed(h) /\ Fits(h)) =>
          p.status = IF Hasty(h, size) THEN 416 ELSE 200
    /\ p.status = 200 => p.begin = 0 /\ p.end = size - 1
=============================================================================
