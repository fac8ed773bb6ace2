----------------------------- MODULE TarFormat -----------------------------
(***************************************************************************)
(* tarhttp's header blocks: ustar fields of fixed width, preceded by a PAX *)
(* entry where a name or a size does not fit them.  A name is its length,  *)
(* whether it is ASCII, and whether it is all there; a record of the PAX   *)
(* entry is the length it claims and the one it has.                       *)
(***************************************************************************)
EXTENDS Integers

CONSTANTS
    BlockSize,  \* 512
    MaxName,    \* maxNameLen: 100
    MaxOctal,   \* maxOctalSize: 2^33 - 1, what eleven octal digits hold
    Frame       \* bytes of a record around its length and its value: 7, as both
                \* keywords have four letters

ASSUME FormatAssumption ==
    /\ BlockSize \in Nat \ {0}
    /\ MaxName \in Nat /\ MaxOctal \in Nat
    /\ Frame \in 1 .. 1000

\* padding: zero bytes up to the next block boundary.
Padding(n) == IF n % BlockSize = 0 THEN 0 ELSE BlockSize - (n % BlockSize)

\* Decimal digits of a number below 1000000, and below its square: no name is
\* longer than the one, no file than the other.
FewDigits(n) ==
    IF n < 10 THEN 1 ELSE IF n < 100 THEN 2 ELSE IF n < 1000 THEN 3
    ELSE IF n < 10000 THEN 4 ELSE IF n < 100000 THEN 5 ELSE 6

Digits(n) ==
    IF n < 1000000 THEN FewDigits(n) ELSE 6 + FewDigits(n \div 1000000)

\* The length of a record with a value of v bytes that claims to have size bytes.
RecordLen(v, size) == v + Frame + Digits(size)

\* paxRecord's first guess counts the digits of what the record is without them.
FirstGuess(v) == RecordLen(v, v + Frame)

\* Mutant of PaxClaim: the first guess is taken.
PaxClaimFirst(v) == FirstGuess(v)

\* The length the record claims when paxRecord's loop is through: the guess is
\* replaced by the length it leads to as long as it is not that length.
PaxClaim(v) ==
    IF RecordLen(v, FirstGuess(v)) = FirstGuess(v)
    THEN FirstGuess(v)
    ELSE RecordLen(v, FirstGuess(v))

PaxRecord(v) == [claims |-> PaxClaim(v), has |-> RecordLen(v, PaxClaim(v))]

NoRecord == [claims |-> 0, has |-> 0]

\* octal: eleven digits; a value that needs more, or a sign, is not in the field.
Octal(v) == IF v \in 0 .. MaxOctal THEN v ELSE -1

\* truncateName: what does not fit the field is cut.
Truncated(name) == [name EXCEPT !.whole = @ /\ name.len <= MaxName]

NeedsPath(name) == name.len > MaxName \/ ~name.ascii

NeedsSize(size) == size > MaxOctal

\* encodeHeader, for a name, a size (0 for a directory) and a time.
EncodeHeader(name, size, modified) ==
    LET path == IF NeedsPath(name) THEN PaxRecord(name.len) ELSE NoRecord
        big  == IF NeedsSize(size) THEN PaxRecord(Digits(size)) ELSE NoRecord
    IN  [path    |-> path,
         fullName |-> name,
         big     |-> big,
         bigSize |-> size,
         data    |-> Octal(path.has + big.has),
         name    |-> Truncated(name),
         size    |-> Octal(IF NeedsSize(size) THEN 0 ELSE size),
         time    |-> Octal(IF modified \in 0 .. MaxOctal THEN modified ELSE 0)]

\* The bytes of it: a PAX entry if there are records, padded, and the block.
EncodedLen(h) ==
    IF h.path.has + h.big.has = 0 THEN BlockSize
    ELSE LET data == h.path.has + h.big.has
         IN  2 * BlockSize + data + Padding(data)

\* What a reader of the pax format gets from a header: it finds the end of each
\* record by the length the record claims, and takes a record's word over the
\* field's.
Legible(h) ==
    /\ h.path.claims = h.path.has /\ h.big.claims = h.big.has
    /\ h.data = h.path.has + h.big.has

ReadName(h) == IF h.path # NoRecord THEN h.fullName ELSE h.name
ReadSize(h) == IF h.big # NoRecord THEN h.bigSize ELSE h.size
=============================================================================
