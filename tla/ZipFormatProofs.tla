-------------------------- MODULE ZipFormatProofs --------------------------
(***************************************************************************)
(* What the reader makes of a header, of an ending and of a whole archive, *)
(* for all sizes, offsets, names, counts and field widths.                 *)
(***************************************************************************)
EXTENDS ZipFormat, WellFoundedInduction, TLAPS

\* A number that fits its field is stored as it is.
LEMMA Low32Exact ==
    ASSUME NEW n \in Nat, n <= Max32
    PROVE  Low32(n) = n
  BY FormatAssumption DEF Low32

\* Likewise in 16 bits.
LEMMA Low16Exact ==
    ASSUME NEW n \in Nat, n <= Max16
    PROVE  Low16(n) = n
  BY FormatAssumption DEF Low16

\* ziphttp/writer.go:113-142 against reader.go:301-344: whatever its size and
\* offset, on either side of the ends of the 32-bit fields, an entry of the
\* directory is readable and says to the reader what it said to the writer.
THEOREM HeaderReadBack ==
    ASSUME NEW h, h.size \in Nat, h.offset \in Nat
    PROVE  LET r == DirectoryHeader(h)
           IN  /\ Readable(r)
               /\ Parsed(r).size = h.size /\ Parsed(r).csize = h.size
               /\ Parsed(r).offset = h.offset
               /\ Parsed(r).name = h.name /\ Parsed(r).crc = h.crc
<1> DEFINE r == DirectoryHeader(h)
<1>1. Max32 \in Nat \ {0}
  BY FormatAssumption
<1>2. CASE Wide(h)
  <2>1. /\ r.wide = <<h.size, h.size, h.offset>> /\ r.usize = Max32 /\ r.csize = Max32
        /\ r.offset = IF h.offset > Max32 THEN Max32 ELSE Low32(h.offset)
        /\ r.name = h.name /\ r.crc = h.crc
    BY <1>2 DEF DirectoryHeader
  <2>2. h.offset < Max32 => r.offset = h.offset
    BY <1>1, <2>1, Low32Exact
  <2>3. h.offset >= Max32 => r.offset = Max32
    BY <1>1, <2>1, Low32Exact
  <2> HIDE DEF r
  <2>4. /\ Readable(r)
        /\ Number(r, r.usize, 1) = h.size
        /\ Number(r, r.csize, 1 + Taken(r.usize)) = h.size
        /\ Number(r, r.offset, 1 + Taken(r.usize) + Taken(r.csize)) = h.offset
    BY <1>1, <2>1, <2>2, <2>3 DEF Readable, Taken, Number
  <2>5. r.wide # <<>>
    BY <2>1
  <2>6. /\ Parsed(r).size = h.size /\ Parsed(r).csize = h.size
        /\ Parsed(r).offset = h.offset
        /\ Parsed(r).name = h.name /\ Parsed(r).crc = h.crc
    BY <2>1, <2>4, <2>5 DEF Parsed
  <2> QED
    BY <2>4, <2>6 DEF r
<1>3. CASE ~Wide(h)
  <2>1. h.size < Max32 /\ h.offset < Max32
    BY <1>1, <1>3 DEF Wide, IsZip64
  <2>2. /\ r.usize = h.size /\ r.csize = h.size /\ r.offset = h.offset
        /\ r.name = h.name /\ r.crc = h.crc
    BY <1>1, <1>3, <2>1, Low32Exact DEF DirectoryHeader
  <2> HIDE DEF r
  <2>3. Readable(r)
    BY <1>1, <2>1, <2>2 DEF Readable
  <2>4. /\ Parsed(r).size = h.size /\ Parsed(r).csize = h.size
        /\ Parsed(r).offset = h.offset
        /\ Parsed(r).name = h.name /\ Parsed(r).crc = h.crc
    BY <1>1, <2>1, <2>2 DEF Parsed, Number
  <2> QED
    BY <2>3, <2>4 DEF r
<1> QED
  BY <1>2, <1>3

\* ziphttp/writer.go:158-209 against reader.go:481-563: whatever the number of
\* entries, the place and the size of the directory, the reader finds it and knows
\* how many entries it has.
THEOREM EndingReadBack ==
    ASSUME NEW n \in Nat, NEW size \in Nat, NEW offset \in Nat,
           written = offset + size + EndingLen(n, size, offset),
           \A o \in DOMAIN Ending(offset + size, n, size, offset) :
               o \in DOMAIN archive /\ archive[o] = Ending(offset + size, n, size, offset)[o],
           ~Big(n, size, offset) => ~Found(LocatorOffset, "locator")
    PROVE  EndFound /\ DirectoryEnd.offset = offset /\ DirectoryEnd.records = n
<1> DEFINE end == offset + size
           loc == end + directory64EndLen
           g   == Ending(end, n, size, offset)
<1>1. Max16 \in Nat \ {0} /\ Max32 \in Nat \ {0} /\ end \in Nat
  BY FormatAssumption
<1>2. CASE Big(n, size, offset)
  <2> DEFINE e64  == End64Record(n, size, offset)
             l    == [sig |-> "locator", end64 |-> offset + size]
             last == EndRecord(Max16, Max32, Max32)
             g1   == At(loc + directory64LocLen, last)
             g2   == Over(At(loc, l), g1)
  <2>1. g = Over(At(end, e64), g2)
    BY <1>2 DEF Ending
  <2>2. DOMAIN g1 = {loc + directory64LocLen} /\ g1[loc + directory64LocLen] = last
    BY DEF At
  <2>3. /\ end # loc /\ loc # loc + directory64LocLen /\ end # loc + directory64LocLen
        /\ EndOffset = loc + directory64LocLen /\ LocatorOffset = loc
        /\ offset < written
    BY <1>1, <1>2 DEF EndOffset, LocatorOffset, EndingLen, directory64EndLen,
                      directory64LocLen, directoryEndLen
  <2>4. /\ DOMAIN g2 = {loc, loc + directory64LocLen}
        /\ g2[loc] = l /\ g2[loc + directory64LocLen] = last
    <3>1. /\ DOMAIN g2 = DOMAIN g1 \cup {loc}
          /\ g2[loc] = IF loc \in DOMAIN g1 THEN g1[loc] ELSE l
          /\ \A x \in DOMAIN g1 : g2[x] = g1[x]
      <4> HIDE DEF g1, l, loc
      <4> QED
        BY DEF Over, At
    <3> HIDE DEF g1, g2, l, last, loc
    <3> QED
      BY <2>2, <2>3, <3>1
  <2>5. /\ DOMAIN g = {end, loc, loc + directory64LocLen}
        /\ g[end] = e64 /\ g[loc] = l /\ g[loc + directory64LocLen] = last
    <3>1. /\ DOMAIN g = DOMAIN g2 \cup {end}
          /\ g[end] = IF end \in DOMAIN g2 THEN g2[end] ELSE e64
          /\ \A x \in DOMAIN g2 : g[x] = g2[x]
      <4> HIDE DEF g, g2, e64, end
      <4> QED
        BY <2>1 DEF Over, At
    <3> HIDE DEF g, g2, e64, l, last, loc, end
    <3> QED
      BY <2>3, <2>4, <3>1
  <2>6. archive[end] = e64 /\ archive[loc] = l /\ archive[loc + directory64LocLen] = last
        /\ end \in DOMAIN archive /\ loc \in DOMAIN archive
    <3> HIDE DEF e64, l, last, loc
    <3> QED
      BY <2>5
  <2>7. Located
    BY <2>3, <2>6 DEF Located, Found, EndRecord
  <2>8. archive[LocatorOffset].end64 = end
    BY <2>3, <2>6
  <2>9. DirectoryEnd = e64 /\ Found(end, "end64")
    BY <2>6, <2>7, <2>8 DEF DirectoryEnd, Found, End64Record
  <2> QED
    BY <2>3, <2>7, <2>8, <2>9 DEF EndFound, End64Record
<1>3. CASE ~Big(n, size, offset)
  <2>1. n < Max16 /\ size < Max32 /\ offset < Max32
    BY <1>1, <1>3 DEF Big
  <2>2. g = At(end, EndRecord(n, size, offset))
    BY <1>1, <1>3, <2>1, Low16Exact, Low32Exact DEF Ending
  <2>3. EndOffset = end /\ offset < written
    BY <1>1, <1>3 DEF EndOffset, EndingLen, directoryEndLen
  <2>4. archive[end] = EndRecord(n, size, offset)
    BY <2>2 DEF At
  <2>5. ~Located
    BY <1>3 DEF Located
  <2>6. DirectoryEnd = EndRecord(n, size, offset)
    BY <2>3, <2>4, <2>5 DEF DirectoryEnd
  <2> QED
    BY <2>3, <2>5, <2>6 DEF EndFound, EndRecord
<1> QED
  BY <1>2, <1>3
-----------------------------------------------------------------------------
(* The offsets of the directory's headers, which Starts computes one from  *)
(* the other, exist and increase.                                          *)

\* Induction over the natural numbers, for a set in the place of a predicate.
LEMMA SetInduction ==
    ASSUME NEW S, 0 \in S, \A n \in Nat : n \in S => n + 1 \in S
    PROVE  \A n \in Nat : n \in S
<1> DEFINE T == Nat \ S
           R == OpToRel(<, Nat)
<1>1. SUFFICES ASSUME T # {} PROVE FALSE
  OBVIOUS
<1>2. IsWellFoundedOn(R, Nat)
  BY NatLessThanWellFounded
<1>3. T \subseteq Nat
  OBVIOUS
<1> HIDE DEF R, T
<1>4. PICK x \in T : \A y \in T : ~ (<<y, x>> \in R)
  BY <1>1, <1>2, <1>3, WFMin
<1> USE DEF R, T
<1>5. x \in Nat /\ x # 0 /\ x - 1 \in Nat /\ x - 1 \in S
  <2>1. x \in Nat /\ x # 0 /\ x - 1 \in Nat
    OBVIOUS
  <2>2. <<x - 1, x>> \in R
    BY <2>1 DEF OpToRel
  <2> QED
    BY <1>4, <2>1, <2>2
<1>6. (x - 1) + 1 = x
  BY <1>5
<1> QED
  BY <1>5, <1>6

\* s adds up the steps d from `from' on, as far as n.
Adds(s, from, d, n) ==
    s \in [1 .. n + 1 -> Nat] /\ s[1] = from /\ \A i \in 1 .. n : s[i + 1] = s[i] + d[i]

LEMMA SumExists ==
    ASSUME NEW from \in Nat, NEW n \in Nat, NEW d, \A i \in 1 .. n : d[i] \in Nat
    PROVE  \E s : Adds(s, from, d, n)
<1> DEFINE Some(k) == \E s : Adds(s, from, d, k)
           S == {k \in Nat : k <= n => Some(k)}
<1>1. 0 \in S
  <2> DEFINE s == [i \in 1 .. 1 |-> from]
  <2>1. Adds(s, from, d, 0)
    BY DEF Adds
  <2> QED
    BY <2>1
<1>2. ASSUME NEW k \in Nat, k \in S, k + 1 <= n PROVE Some(k + 1)
  <2>1. PICK s : Adds(s, from, d, k)
    BY <1>2
  <2> DEFINE t == [i \in 1 .. k + 2 |-> IF i = k + 2 THEN s[k + 1] + d[k + 1] ELSE s[i]]
  <2>2. s[k + 1] \in Nat /\ d[k + 1] \in Nat
    BY <1>2, <2>1 DEF Adds
  <2>3. t \in [1 .. k + 2 -> Nat] /\ t[1] = from
    BY <2>1, <2>2 DEF Adds
  <2>4. \A i \in 1 .. k + 1 : t[i + 1] = t[i] + d[i]
    BY <2>1, <2>2 DEF Adds
  <2>5. (k + 1) + 1 = k + 2
    OBVIOUS
  <2> HIDE DEF t
  <2>6. Adds(t, from, d, k + 1)
    BY <2>3, <2>4, <2>5 DEF Adds
  <2> QED
    BY <2>6
<1> HIDE DEF Some
<1>3. \A k \in Nat : k \in S => k + 1 \in S
  BY <1>2
<1> HIDE DEF S
<1>4. n \in S
  BY <1>1, <1>3, SetInduction
<1> QED
  BY <1>4 DEF S, Some

\* What is added up step by step increases all the way.
LEMMA SumIncreases ==
    ASSUME NEW from \in Nat, NEW n \in Nat, NEW d, \A i \in 1 .. n : d[i] \in Nat \ {0},
           NEW s, Adds(s, from, d, n)
    PROVE  \A i, j \in 1 .. n + 1 : i < j => s[i] < s[j]
<1> DEFINE S == {j \in Nat : j <= n + 1 => \A i \in 1 .. n + 1 : i < j => s[i] < s[j]}
<1>1. 0 \in S
  OBVIOUS
<1>2. ASSUME NEW j \in Nat, j \in S, j + 1 <= n + 1, NEW i \in 1 .. n + 1, i < j + 1
      PROVE  s[i] < s[j + 1]
  <2>1. j \in 1 .. n /\ j <= n + 1 /\ (i = j \/ i < j)
    BY <1>2
  <2>2. s[j + 1] = s[j] + d[j] /\ d[j] \in Nat \ {0} /\ s[j] \in Nat /\ s[i] \in Nat
    BY <2>1 DEF Adds
  <2>3. CASE i = j
    BY <2>2, <2>3
  <2>4. CASE i < j
    BY <1>2, <2>1, <2>2, <2>4
  <2> QED
    BY <2>1, <2>3, <2>4
<1>3. \A j \in Nat : j \in S => j + 1 \in S
  BY <1>2
<1> HIDE DEF S
<1>4. \A j \in Nat : j \in S
  BY <1>1, <1>3, SetInduction
<1> QED
  BY <1>4 DEF S

\* The lengths of the headers of a directory.
Lengths(headers) == [i \in 1 .. Len(headers) |-> DirectoryLen(headers[i])]

\* Starts is that sum.
LEMMA StartsAdds ==
    ASSUME NEW from \in Nat, NEW headers, Len(headers) \in Nat,
           \A i \in 1 .. Len(headers) : DirectoryLen(headers[i]) \in Nat
    PROVE  Adds(Starts(from, headers), from, Lengths(headers), Len(headers))
<1> DEFINE n == Len(headers)
           d == Lengths(headers)
           Rec(s) == s = [i \in 1 .. n + 1 |->
                             IF i = 1 THEN from ELSE s[i - 1] + DirectoryLen(headers[i - 1])]
<1>1. \A i \in 1 .. n : d[i] = DirectoryLen(headers[i]) /\ d[i] \in Nat
  BY DEF Lengths
<1>2. PICK s : Adds(s, from, d, n)
  <2> HIDE DEF d
  <2> QED
    BY <1>1, SumExists
<1>3. Rec(s)
  <2>1. ASSUME NEW i \in 1 .. n + 1
        PROVE  s[i] = IF i = 1 THEN from ELSE s[i - 1] + DirectoryLen(headers[i - 1])
    <3>1. CASE i = 1
      BY <1>2, <3>1 DEF Adds
    <3>2. CASE i # 1
      <4>1. i - 1 \in 1 .. n /\ (i - 1) + 1 = i
        BY <3>2
      <4>2. s[(i - 1) + 1] = s[i - 1] + d[i - 1]
        BY <1>2, <4>1 DEF Adds
      <4> QED
        BY <1>1, <3>2, <4>1, <4>2
    <3> QED
      BY <3>1, <3>2
  <2>2. s = [i \in 1 .. n + 1 |-> s[i]]
    BY <1>2 DEF Adds
  <2> QED
    BY <2>1, <2>2
<1>4. Rec(Starts(from, headers))
  BY <1>3, Zenon DEF Starts
<1> DEFINE t == Starts(from, headers)
<1>5. \A i \in 1 .. n + 1 :
         t[i] = IF i = 1 THEN from ELSE t[i - 1] + DirectoryLen(headers[i - 1])
  <2> HIDE DEF t
  <2> QED
    BY <1>4, Zenon DEF t
<1>6. t = [i \in 1 .. n + 1 |-> t[i]]
  BY <1>4, Zenon
<1> HIDE DEF t, d, n
<1>7. n \in Nat
  BY DEF n
<1> DEFINE S == {k \in Nat : k + 1 <= n + 1 => t[k + 1] \in Nat}
<1>8. 0 \in S
  BY <1>5, <1>7
<1>9. ASSUME NEW k \in Nat, k \in S PROVE k + 1 \in S
  <2>1. CASE k + 1 <= n
    <3>1. (k + 1) + 1 \in 1 .. n + 1 /\ (k + 1) + 1 # 1 /\ ((k + 1) + 1) - 1 = k + 1
          /\ k + 1 \in 1 .. n /\ k + 1 <= n + 1
      BY <1>7, <2>1
    <3>2. t[(k + 1) + 1] = t[k + 1] + DirectoryLen(headers[k + 1])
      BY <1>5, <3>1
    <3> QED
      BY <1>1, <1>9, <3>1, <3>2
  <2>2. CASE ~(k + 1 <= n)
    BY <1>7, <2>2
  <2> QED
    BY <2>1, <2>2
<1> HIDE DEF S
<1>10. \A k \in Nat : k \in S
  BY <1>8, <1>9, SetInduction
<1>11. \A i \in 1 .. n + 1 : t[i] \in Nat
  <2> TAKE i \in 1 .. n + 1
  <2>1. i - 1 \in Nat /\ (i - 1) + 1 = i /\ i <= n + 1
    BY <1>7
  <2> QED
    BY <1>10, <2>1 DEF S
<1>12. t \in [1 .. n + 1 -> Nat]
  BY <1>6, <1>11
<1>13. t[1] = from
  BY <1>5, <1>7
<1>14. ASSUME NEW i \in 1 .. n PROVE t[i + 1] = t[i] + d[i]
  <2>1. i + 1 \in 1 .. n + 1 /\ i + 1 # 1 /\ (i + 1) - 1 = i
    BY <1>7
  <2> QED
    BY <1>1, <1>5, <2>1
<1> QED
  BY <1>12, <1>13, <1>14 DEF Adds, t, d, n
-----------------------------------------------------------------------------
(* A whole archive, from the first entry to the reader's last.             *)

DirEntry == [name : Names, folder : BOOLEAN, size : Sizes \cup {0}, crc : {0, 1}, offset : Nat]
File == [name : Names, crc : {0, 1}, size : Nat, csize : Nat, offset : Nat]
Reader == [pc : {"wait", "directory", "files", "opened", "failed"}, pos : Nat, count : Nat,
           files : Seq(File), opened : Nat, verdict : {"none", "ok", "checksum", "garbage"},
           body : Nat]

Types ==
    /\ dir \in Seq(DirEntry) /\ current \in Nat /\ written \in Nat /\ closed \in BOOLEAN
    /\ reader \in Reader

\* The directory as Close lays it out.
Headers == [i \in 1 .. Len(dir) |-> DirectoryHeader(dir[i])]
Offsets == Starts(current, Headers)

\* Where the content of an entry ends, and how much of the archive is the entry's.
ContentEnd(h) == h.offset + LocalLen(h.name) + h.size

EntryLen(h) ==
    IF h.folder THEN LocalLen(h.name) ELSE LocalLen(h.name) + h.size + DescriptorLen(h.size)

\* What CreateHeader has written of an entry is there.
Stands(h) ==
    /\ h.offset \in DOMAIN archive /\ h.offset < current
    /\ archive[h.offset] = LocalHeader(h.name)
    /\ ~h.folder => [at |-> h.offset + LocalLen(h.name), size |-> h.size] \in bodies
    /\ ~h.folder => ContentEnd(h) \in DOMAIN archive /\ archive[ContentEnd(h)] = Descriptor(h.size)

\* Each entry ends where the next one, or the directory, begins.
Gapless ==
    \A i \in 1 .. Len(dir) :
        dir[i].offset + EntryLen(dir[i]) = IF i < Len(dir) THEN dir[i + 1].offset ELSE current

\* Before Close there is nothing of a directory, and the writer is where it believes to be.
Draft ==
    /\ written = current /\ reader.pc = "wait"
    /\ \A o \in DOMAIN archive : o \in Nat /\ o < written
                                 /\ archive[o].sig \in {"local", "descriptor"}

\* After it the headers lie where the ending says, and nothing that could be taken for one
\* more behind the last.
Sealed ==
    /\ \A i \in 1 .. Len(dir) : /\ Offsets[i] \in DOMAIN archive
                                /\ archive[Offsets[i]] = DirectoryHeader(dir[i])
    /\ ~Found(Offsets[Len(dir) + 1], "directory")
    /\ EndFound /\ DirectoryEnd.offset = current /\ DirectoryEnd.records = Len(dir)

\* The reader has read a part of the directory, or all of it.
Reading ==
    /\ reader.pc # "failed"
    /\ reader.pc = "wait" => reader.files = <<>>
    /\ reader.pc # "wait" => closed
    /\ Len(reader.files) <= Len(dir)
    /\ \A i \in 1 .. Len(reader.files) : reader.files[i] = Parsed(DirectoryHeader(dir[i]))
    /\ reader.pc = "directory" =>
          reader.pos = Offsets[Len(reader.files) + 1] /\ reader.count = Len(dir)
    /\ reader.pc \in {"files", "opened"} => Len(reader.files) = Len(dir)
    /\ reader.pc = "opened" =>
          /\ reader.verdict # "garbage" /\ reader.opened \in 1 .. Len(dir)
          /\ reader.body = dir[reader.opened].offset + LocalLen(dir[reader.opened].name)

ZInv ==
    /\ Types
    /\ Gapless
    /\ \A i \in 1 .. Len(dir) : Stands(dir[i])
    /\ ~closed => Draft
    /\ closed => Sealed
    /\ Reading

LEMMA Numbers ==
    /\ \A size \in Sizes \cup {0} : size \in Nat
    /\ \A name \in Names : name \in Nat /\ name > 0
BY FormatAssumption

LEMMA EntryIs ==
    ASSUME NEW h \in DirEntry
    PROVE  /\ h.name \in Nat /\ h.name > 0 /\ h.size \in Nat /\ h.offset \in Nat
           /\ h.crc \in {0, 1} /\ h.name \in Names
           /\ LocalLen(h.name) \in Nat /\ LocalLen(h.name) > 0
           /\ DirectoryHeader(h).sig = "directory"
           /\ DirectoryLen(DirectoryHeader(h)) \in Nat \ {0}
<1>1. /\ h.name \in Nat /\ h.name > 0 /\ h.size \in Nat /\ h.offset \in Nat
      /\ h.crc \in {0, 1} /\ h.name \in Names
  <2>1. h.name \in Names /\ h.size \in Sizes \cup {0} /\ h.crc \in {0, 1} /\ h.offset \in Nat
    BY DEF DirEntry
  <2> QED
    BY <2>1, Numbers
<1>2. LocalLen(h.name) \in Nat /\ LocalLen(h.name) > 0
  BY <1>1 DEF LocalLen, fileHeaderLen, extTimeExtraLen
<1>3. /\ DirectoryHeader(h).sig = "directory" /\ DirectoryHeader(h).name = h.name
      /\ DirectoryHeader(h).extra \in {extTimeExtraLen, extTimeExtraLen + zip64ExtraLen}
  <2>1. (IF Wide(h) THEN zip64ExtraLen ELSE 0) \in {0, zip64ExtraLen}
    OBVIOUS
  <2> QED
    BY <2>1 DEF DirectoryHeader, extTimeExtraLen, zip64ExtraLen
<1>4. DirectoryLen(DirectoryHeader(h)) \in Nat \ {0}
  BY <1>1, <1>3 DEF DirectoryLen, directoryHeaderLen, extTimeExtraLen, zip64ExtraLen
<1> QED
  BY <1>1, <1>2, <1>3, <1>4

LEMMA ParsedIs ==
    ASSUME NEW h \in DirEntry
    PROVE  /\ Parsed(DirectoryHeader(h)) \in File /\ Readable(DirectoryHeader(h))
           /\ Parsed(DirectoryHeader(h)).size = h.size
           /\ Parsed(DirectoryHeader(h)).csize = h.size
           /\ Parsed(DirectoryHeader(h)).offset = h.offset
           /\ Parsed(DirectoryHeader(h)).name = h.name
           /\ Parsed(DirectoryHeader(h)).crc = h.crc
<1> DEFINE f == Parsed(DirectoryHeader(h))
<1>1. h.size \in Nat /\ h.offset \in Nat /\ h.name \in Names /\ h.crc \in {0, 1}
  BY EntryIs
<1>2. /\ Readable(DirectoryHeader(h)) /\ f.size = h.size /\ f.csize = h.size
      /\ f.offset = h.offset /\ f.name = h.name /\ f.crc = h.crc
  BY <1>1, HeaderReadBack
<1>3. f = [name |-> f.name, crc |-> f.crc, size |-> f.size, csize |-> f.csize,
           offset |-> f.offset]
  BY DEF Parsed
<1> HIDE DEF f
<1>4. f \in File
  BY <1>1, <1>2, <1>3 DEF File
<1> QED
  BY <1>2, <1>4 DEF f

\* The headers of the directory follow one another from the end of the content on.
LEMMA OffsetsIncrease ==
    ASSUME Types
    PROVE  /\ Len(dir) \in Nat /\ Offsets[1] = current
           /\ \A i \in 1 .. Len(dir) + 1 : Offsets[i] \in Nat
           /\ \A i \in 1 .. Len(dir) :
                 Offsets[i + 1] = Offsets[i] + DirectoryLen(DirectoryHeader(dir[i]))
           /\ \A i, j \in 1 .. Len(dir) + 1 : i < j => Offsets[i] < Offsets[j]
<1> DEFINE n == Len(dir)
<1>1. n \in Nat /\ current \in Nat /\ \A i \in 1 .. n : dir[i] \in DirEntry
  BY DEF Types
<1>2. \A i \in 1 .. n : DirectoryLen(DirectoryHeader(dir[i])) \in Nat \ {0}
  BY <1>1, EntryIs
<1>3. Len(Headers) = n /\ \A i \in 1 .. n : Headers[i] = DirectoryHeader(dir[i])
  BY <1>1 DEF Headers
<1> HIDE DEF n
<1>4. Adds(Offsets, current, Lengths(Headers), n)
  BY <1>1, <1>2, <1>3, StartsAdds DEF Offsets
<1>5. \A i \in 1 .. n : Lengths(Headers)[i] = DirectoryLen(DirectoryHeader(dir[i]))
  BY <1>3 DEF Lengths
<1>6. \A i, j \in 1 .. n + 1 : i < j => Offsets[i] < Offsets[j]
  BY <1>1, <1>2, <1>4, <1>5, SumIncreases
<1>7. /\ Offsets[1] = current
      /\ \A i \in 1 .. n + 1 : Offsets[i] \in Nat
      /\ \A i \in 1 .. n :
            Offsets[i + 1] = Offsets[i] + DirectoryLen(DirectoryHeader(dir[i]))
  BY <1>4, <1>5 DEF Adds
<1> QED
  BY <1>1, <1>6, <1>7 DEF n

\* What is put over an archive, and what stays of it.
Covers(f, g, all) ==
    /\ DOMAIN all = DOMAIN f \cup DOMAIN g
    /\ \A o \in DOMAIN g : all[o] = g[o]
    /\ \A o \in DOMAIN f : o \notin DOMAIN g => all[o] = f[o]

LEMMA OverIs ==
    ASSUME NEW f, NEW g
    PROVE  Covers(f, g, Over(f, g))
BY DEF Over, Covers

LEMMA AtIs ==
    ASSUME NEW o, NEW x
    PROVE  DOMAIN At(o, x) = {o} /\ At(o, x)[o] = x
BY DEF At

\* A new entry behind everything there is.
LEMMA CreateStep ==
    ASSUME ZInv, ~closed, NEW h \in DirEntry, h.offset = current, dir' = Append(dir, h),
           NEW g, archive' = Over(archive, g),
           \A o \in DOMAIN g : o \in Nat /\ o >= written /\ o < written'
                               /\ g[o].sig \in {"local", "descriptor"},
           written \in DOMAIN g, g[written] = LocalHeader(h.name),
           bodies \subseteq bodies',
           ~h.folder => [at |-> written + LocalLen(h.name), size |-> h.size] \in bodies',
           ~h.folder => ContentEnd(h) \in DOMAIN g /\ g[ContentEnd(h)] = Descriptor(h.size),
           current' = current + EntryLen(h),
           written' \in Nat, written' > written, written' - written = current' - current,
           current' \in Nat, closed' = closed, reader' = reader
    PROVE  ZInv'
<1>1. Types /\ Draft /\ Reading /\ \A i \in 1 .. Len(dir) : Stands(dir[i])
  BY DEF ZInv
<1>2. /\ dir \in Seq(DirEntry) /\ written = current /\ written \in Nat /\ reader.pc = "wait"
      /\ \A o \in DOMAIN archive : o \in Nat /\ o < written
                                   /\ archive[o].sig \in {"local", "descriptor"}
  BY <1>1 DEF Types, Draft
<1>3. /\ DOMAIN archive' = DOMAIN archive \cup DOMAIN g
      /\ \A o \in DOMAIN g : archive'[o] = g[o]
      /\ \A o \in DOMAIN archive : archive'[o] = archive[o]
  <2>1. \A o \in DOMAIN archive : o \notin DOMAIN g
    BY <1>2
  <2>2. Covers(archive, g, archive')
    BY OverIs, Zenon
  <2> QED
    BY <2>1, <2>2, Zenon DEF Covers
<1>4. /\ dir' \in Seq(DirEntry) /\ Len(dir') = Len(dir) + 1 /\ Len(dir) \in Nat
      /\ dir'[Len(dir) + 1] = h /\ \A i \in 1 .. Len(dir) : dir'[i] = dir[i]
  BY <1>2
<1>5. Types'
  BY <1>1, <1>4 DEF Types
<1>6. ASSUME NEW i \in 1 .. Len(dir') PROVE Stands(dir[i])'
  <2>1. CASE i = Len(dir) + 1
    <3>1. dir'[i] = h /\ archive'[written] = LocalHeader(h.name) /\ written \in DOMAIN archive'
      BY <1>3, <1>4, <2>1
    <3>2. written < current'
      BY <1>2
    <3>3. ~h.folder => [at |-> h.offset + LocalLen(h.name), size |-> h.size] \in bodies'
      BY <1>2
    <3>4. ~h.folder => ContentEnd(h) \in DOMAIN archive' /\ archive'[ContentEnd(h)] = Descriptor(h.size)
      BY <1>3
    <3>5. Stands(h)'
      BY <1>2, <3>1, <3>2, <3>3, <3>4, Zenon DEF Stands
    <3> QED
      BY <3>1, <3>5
  <2>2. CASE i \in 1 .. Len(dir)
    <3>0. dir[i] \in DirEntry
      BY <1>2, <1>4, <2>2
    <3>1. Stands(dir[i]) /\ dir'[i] = dir[i] /\ dir[i].offset \in Nat
      BY <1>1, <1>4, <2>2, <3>0 DEF DirEntry
    <3>2. dir[i].offset < current'
      BY <1>2, <3>1 DEF Stands
    <3> DEFINE e == dir[i]
    <3>3. /\ e.offset \in DOMAIN archive /\ archive[e.offset] = LocalHeader(e.name)
          /\ ~e.folder => [at |-> e.offset + LocalLen(e.name), size |-> e.size] \in bodies
          /\ ~e.folder => ContentEnd(e) \in DOMAIN archive /\ archive[ContentEnd(e)] = Descriptor(e.size)
      BY <3>1 DEF Stands
    <3> HIDE DEF e
    <3>4. /\ e.offset \in DOMAIN archive' /\ archive'[e.offset] = LocalHeader(e.name)
          /\ ~e.folder => [at |-> e.offset + LocalLen(e.name), size |-> e.size] \in bodies'
          /\ ~e.folder => ContentEnd(e) \in DOMAIN archive' /\ archive'[ContentEnd(e)] = Descriptor(e.size)
      BY <1>3, <3>3
    <3> USE DEF e
    <3> QED
      BY <3>1, <3>2, <3>4 DEF Stands
  <2> QED
    BY <1>4, <2>1, <2>2
<1>7. Draft'
  <2>1. written' = current'
    BY <1>2
  <2>2. ASSUME NEW o \in DOMAIN archive'
        PROVE  o \in Nat /\ o < written' /\ archive'[o].sig \in {"local", "descriptor"}
    BY <1>2, <1>3
  <2> QED
    BY <1>2, <2>1, <2>2 DEF Draft
<1>8. Reading'
  BY <1>1, <1>2, <1>4 DEF Reading
<1>9. ~closed'
  OBVIOUS
<1>10. Gapless'
  <2> SUFFICES ASSUME NEW i \in 1 .. Len(dir) + 1
               PROVE  dir'[i].offset + EntryLen(dir'[i])
                        = IF i < Len(dir) + 1 THEN dir'[i + 1].offset ELSE current'
    BY <1>4 DEF Gapless
  <2>1. CASE i = Len(dir) + 1
    BY <1>4, <2>1
  <2>2. CASE i = Len(dir)
    <3>1. dir[i].offset + EntryLen(dir[i]) = current
      BY <2>2, <1>4 DEF ZInv, Gapless
    <3> QED BY <1>4, <2>2, <3>1
  <2>3. CASE i < Len(dir)
    <3>1. dir[i].offset + EntryLen(dir[i]) = dir[i + 1].offset
      BY <2>3, <1>4 DEF ZInv, Gapless
    <3>2. i \in 1 .. Len(dir) /\ i + 1 \in 1 .. Len(dir) /\ i < Len(dir) + 1
      BY <2>3, <1>4
    <3> QED BY <1>4, <3>1, <3>2
  <2> QED BY <1>4, <2>1, <2>2, <2>3
<1> QED
  BY <1>5, <1>6, <1>7, <1>8, <1>9, <1>10 DEF ZInv

LEMMA FolderStep ==
    ASSUME ZInv, NEW name \in Names, CreateFolder(name)
    PROVE  ZInv'
<1> DEFINE h == Entry(name, TRUE, 0, 0)
           g == At(written, LocalHeader(name))
<1>1. /\ ~closed /\ dir' = Append(dir, h) /\ archive' = Over(archive, g)
      /\ written' = written + LocalLen(name) /\ current' = current + LocalLen(name)
      /\ UNCHANGED <<closed, bodies, reader>>
  BY DEF CreateFolder
<1>2. written \in Nat /\ current \in Nat
  BY DEF ZInv, Types
<1>3. LocalLen(name) \in Nat /\ LocalLen(name) > 0
  BY FormatAssumption DEF LocalLen, fileHeaderLen, extTimeExtraLen
<1>4. h \in DirEntry /\ h.offset = current /\ h.name = name /\ h.folder
  BY <1>2 DEF Entry, DirEntry
<1>5. DOMAIN g = {written} /\ g[written] = LocalHeader(name) /\ g[written].sig = "local"
  <2>1. DOMAIN g = {written} /\ g[written] = LocalHeader(name)
    BY AtIs, Zenon
  <2>2. LocalHeader(name).sig = "local"
    BY DEF LocalHeader
  <2> QED
    BY <2>1, <2>2, Zenon
<1> HIDE DEF h, g
<1>6. written' \in Nat /\ current' \in Nat /\ written' > written
      /\ written' - written = current' - current
  BY <1>1, <1>2, <1>3
<1>7. \A o \in DOMAIN g : o \in Nat /\ o >= written /\ o < written'
                           /\ g[o].sig \in {"local", "descriptor"}
  BY <1>2, <1>5, <1>6
<1>8. ~h.folder => [at |-> written + LocalLen(h.name), size |-> h.size] \in bodies'
  BY <1>4, Zenon
<1>9. written \in DOMAIN g /\ g[written] = LocalHeader(h.name) /\ bodies \subseteq bodies'
      /\ closed' = closed /\ reader' = reader
  BY <1>1, <1>4, <1>5
<1>10. current' = current + EntryLen(h)
  BY <1>1, <1>4 DEF EntryLen
<1> QED
  BY <1>1, <1>4, <1>6, <1>7, <1>8, <1>9, <1>10, CreateStep

LEMMA FileStep ==
    ASSUME ZInv, NEW name \in Names, NEW size \in Sizes, NEW crc \in {0, 1},
           CreateFile(name, size, crc)
    PROVE  ZInv'
<1> DEFINE h    == Entry(name, FALSE, size, crc)
           body == written + LocalLen(name)
           all  == LocalLen(name) + size + DescriptorLen(size)
           g1   == At(written, LocalHeader(name))
           g2   == At(body + size, Descriptor(size))
           g    == Over(g1, g2)
<1>1. /\ ~closed /\ dir' = Append(dir, h) /\ archive' = Over(archive, g)
      /\ written' = written + all /\ current' = current + all
      /\ bodies' = bodies \cup {[at |-> body, size |-> size]}
      /\ UNCHANGED <<closed, reader>>
  BY DEF CreateFile
<1>2. written \in Nat /\ current \in Nat
  BY DEF ZInv, Types
<1>3. /\ LocalLen(name) \in Nat /\ LocalLen(name) > 0 /\ size \in Nat
      /\ DescriptorLen(size) \in Nat /\ DescriptorLen(size) > 0
  BY FormatAssumption DEF LocalLen, fileHeaderLen, extTimeExtraLen, DescriptorLen,
                          dataDescriptorLen, dataDescriptor64Len
<1>4. h \in DirEntry /\ h.offset = current /\ h.name = name /\ ~h.folder /\ h.size = size
  BY <1>2 DEF Entry, DirEntry
<1>5. /\ body + size \in Nat /\ body + size > written /\ body + size < written + all
      /\ all \in Nat /\ all > 0
  BY <1>2, <1>3
<1>6. /\ DOMAIN g1 = {written} /\ g1[written] = LocalHeader(name)
      /\ DOMAIN g2 = {body + size} /\ g2[body + size] = Descriptor(size)
      /\ LocalHeader(name).sig = "local" /\ Descriptor(size).sig = "descriptor"
  BY AtIs DEF LocalHeader, Descriptor
<1>7. /\ DOMAIN g = DOMAIN g1 \cup DOMAIN g2
      /\ \A o \in DOMAIN g2 : g[o] = g2[o]
      /\ \A o \in DOMAIN g1 : o \notin DOMAIN g2 => g[o] = g1[o]
  <2> HIDE DEF g1, g2
  <2> QED
    BY OverIs DEF Covers
<1>8. /\ DOMAIN g = {written, body + size} /\ g[written] = LocalHeader(name)
      /\ g[body + size] = Descriptor(size)
  <2> HIDE DEF g, g1, g2, body
  <2> QED
    BY <1>2, <1>5, <1>6, <1>7
<1>9. [at |-> written + LocalLen(name), size |-> size] \in bodies'
  BY <1>1
<1>12. current' = current + EntryLen(h)
  <2>1. EntryLen(h) = all
    BY <1>4 DEF EntryLen
  <2> QED BY <1>1, <2>1
<1>13. ContentEnd(h) \in DOMAIN g /\ g[ContentEnd(h)] = Descriptor(h.size)
  <2>1. ContentEnd(h) = body + size
    <3>1. written = current
      BY <1>1 DEF ZInv, Draft
    <3> HIDE DEF h
    <3> QED BY <1>4, <3>1 DEF ContentEnd
  <2> HIDE DEF g, body, h
  <2> QED BY <1>4, <1>8, <2>1
<1> HIDE DEF h, g, all, body
<1>10. /\ written' \in Nat /\ current' \in Nat /\ written' > written
       /\ written' - written = current' - current
  BY <1>1, <1>2, <1>5
<1>11. \A o \in DOMAIN g : o \in Nat /\ o >= written /\ o < written'
                           /\ g[o].sig \in {"local", "descriptor"}
  BY <1>1, <1>2, <1>5, <1>6, <1>8
<1> QED
  BY <1>1, <1>4, <1>8, <1>9, <1>10, <1>11, <1>12, <1>13, CreateStep

\* What may be said of an ending without the rest of the archive.
Ends(at, n, size, offset) ==
    LET g == Ending(at, n, size, offset)
    IN  /\ \A o \in DOMAIN g : o \in Nat /\ o >= at /\ g[o].sig # "directory"
        /\ ~Big(n, size, offset) => DOMAIN g = {at}
        /\ \A o \in DOMAIN g : o < at + EndingLen(n, size, offset)
        /\ EndingLen(n, size, offset) \in Nat \ {0}
        /\ ~Big(n, size, offset) => EndingLen(n, size, offset) = directoryEndLen

LEMMA EndingIs ==
    ASSUME NEW at \in Nat, NEW n \in Nat, NEW size \in Nat, NEW offset \in Nat
    PROVE  Ends(at, n, size, offset)
<1> DEFINE g    == Ending(at, n, size, offset)
           loc  == at + directory64EndLen
           e64  == End64Record(n, size, offset)
           l    == [sig |-> "locator", end64 |-> offset + size]
           last == EndRecord(Max16, Max32, Max32)
           tail == EndRecord(Low16(n), Low32(size), Low32(offset))
<1>1. e64.sig = "end64" /\ l.sig = "locator" /\ last.sig = "end" /\ tail.sig = "end"
  BY DEF End64Record, EndRecord
<1>2. /\ EndingLen(n, size, offset) \in Nat \ {0}
      /\ ~Big(n, size, offset) => EndingLen(n, size, offset) = directoryEndLen
  BY DEF EndingLen, directory64EndLen, directory64LocLen, directoryEndLen
<1>b. at + EndingLen(n, size, offset) > at
  BY <1>2
<1>3. CASE Big(n, size, offset)
  <2> DEFINE g1 == At(loc + directory64LocLen, last)
             g2 == Over(At(loc, l), g1)
  <2>1. g = Over(At(at, e64), g2)
    BY <1>3 DEF Ending
  <2>2. loc \in Nat /\ loc >= at /\ loc + directory64LocLen \in Nat
        /\ loc + directory64LocLen >= at
    BY DEF directory64EndLen, directory64LocLen
  <2>b. /\ loc < at + EndingLen(n, size, offset)
        /\ loc + directory64LocLen < at + EndingLen(n, size, offset)
    BY <1>3 DEF EndingLen, directory64EndLen, directory64LocLen, directoryEndLen
  <2> HIDE DEF g, loc, e64, l, last, tail
  <2>3. /\ DOMAIN g1 = {loc + directory64LocLen} /\ g1[loc + directory64LocLen] = last
        /\ DOMAIN At(loc, l) = {loc} /\ At(loc, l)[loc] = l
        /\ DOMAIN At(at, e64) = {at} /\ At(at, e64)[at] = e64
    BY AtIs
  <2>4. Covers(At(loc, l), g1, g2) /\ Covers(At(at, e64), g2, g)
    BY <2>1, OverIs
  <2> HIDE DEF g1, g2
  <2>5. \A o \in DOMAIN g2 : (o = loc \/ o = loc + directory64LocLen) /\ (g2[o] = l \/ g2[o] = last)
    BY <2>3, <2>4 DEF Covers
  <2>6. \A o \in DOMAIN g : /\ o = at \/ o = loc \/ o = loc + directory64LocLen
                            /\ g[o] = e64 \/ g[o] = l \/ g[o] = last
    BY <2>3, <2>4, <2>5 DEF Covers
  <2>7. ASSUME NEW o \in DOMAIN g PROVE o \in Nat /\ o >= at /\ g[o].sig # "directory"
    <3>1. o \in Nat /\ o >= at
      BY <2>2, <2>6
    <3>2. g[o].sig # "directory"
      BY <1>1, <2>6
    <3> QED
      BY <3>1, <3>2
  <2>8. \A o \in DOMAIN g : o < at + EndingLen(n, size, offset)
    BY <1>b, <2>b, <2>6
  <2> USE DEF g
  <2> QED
    BY <1>2, <1>3, <2>7, <2>8 DEF Ends
<1>4. CASE ~Big(n, size, offset)
  <2>1. g = At(at, tail)
    BY <1>4 DEF Ending
  <2> HIDE DEF g, tail
  <2>2. DOMAIN g = {at} /\ g[at] = tail
    BY <2>1, AtIs
  <2>3. \A o \in DOMAIN g : o \in Nat /\ o >= at /\ g[o].sig # "directory"
    BY <1>1, <2>2
  <2>4. \A o \in DOMAIN g : o < at + EndingLen(n, size, offset)
    BY <1>b, <2>2
  <2> USE DEF g
  <2> QED
    BY <1>2, <2>2, <2>3, <2>4 DEF Ends
<1> QED
  BY <1>3, <1>4

\* An ending, all of it, behind a directory.
EndingStands(n, size, offset) ==
    LET g == Ending(offset + size, n, size, offset)
    IN  /\ written = offset + size + EndingLen(n, size, offset)
        /\ \A o \in DOMAIN g : o \in DOMAIN archive /\ archive[o] = g[o]
        /\ ~Big(n, size, offset) => ~Found(LocatorOffset, "locator")

EndingKnown ==
    \A n, size, offset \in Nat :
        EndingStands(n, size, offset) =>
            EndFound /\ DirectoryEnd.offset = offset /\ DirectoryEnd.records = n

LEMMA EndingsKnown == EndingKnown
<1> SUFFICES ASSUME NEW n \in Nat, NEW size \in Nat, NEW offset \in Nat,
                    EndingStands(n, size, offset)
             PROVE  EndFound /\ DirectoryEnd.offset = offset /\ DirectoryEnd.records = n
  BY DEF EndingKnown
<1> QED
  BY EndingReadBack DEF EndingStands

\* Close lays the directory and the ending behind the content.
LEMMA CloseStep ==
    ASSUME ZInv, Close
    PROVE  ZInv'
<1>n. PICK n : n = Len(dir)
  OBVIOUS
<1>s. PICK s : s = Offsets
  OBVIOUS
<1>c. PICK cur : cur = current
  OBVIOUS
<1>t. PICK table : table = [o \in {s[i] : i \in 1 .. n} |->
                               Headers[CHOOSE i \in 1 .. n : s[i] = o]]
  OBVIOUS
<1>e. PICK end : end = s[n + 1]
  OBVIOUS
<1>z. PICK size : size = end - cur
  OBVIOUS
<1>g. PICK g : g = Ending(end, n, size, cur)
  OBVIOUS
<1>m. PICK mid : mid = Over(archive, table)
  OBVIOUS
<1>1. /\ ~closed /\ Types /\ Draft /\ Reading /\ written = current
      /\ \A i \in 1 .. Len(dir) : Stands(dir[i])
  BY DEF ZInv, Close, Draft
<1>2. /\ closed' = TRUE /\ archive' = Over(mid, g)
      /\ written' = end + EndingLen(n, size, cur)
      /\ dir' = dir /\ current' = cur /\ bodies' = bodies /\ reader' = reader
  BY <1>1, <1>n, <1>s, <1>c, <1>t, <1>e, <1>z, <1>g, <1>m DEF Close, Offsets, Headers
<1>3. /\ n \in Nat /\ s[1] = cur /\ cur \in Nat
      /\ \A i \in 1 .. n + 1 : s[i] \in Nat
      /\ \A i, j \in 1 .. n + 1 : i < j => s[i] < s[j]
  BY <1>1, <1>n, <1>s, <1>c, OffsetsIncrease DEF Types
<1>4. /\ end \in Nat /\ end >= cur /\ size \in Nat /\ cur + size = end
      /\ \A i \in 1 .. n : s[i] \in Nat /\ s[i] >= cur /\ s[i] < end
  <2>1. n + 1 \in 1 .. n + 1 /\ 1 \in 1 .. n + 1 /\ (1 = n + 1 \/ 1 < n + 1)
    BY <1>3
  <2>2. end \in Nat /\ end >= cur
    BY <1>3, <1>e, <2>1
  <2>3. ASSUME NEW i \in 1 .. n PROVE s[i] \in Nat /\ s[i] >= cur /\ s[i] < end
    <3>1. i \in 1 .. n + 1 /\ i < n + 1 /\ (i = 1 \/ 1 < i)
      BY <1>3
    <3> QED
      BY <1>3, <1>e, <2>1, <3>1
  <2>4. size \in Nat /\ cur + size = end
    BY <1>3, <1>z, <2>2
  <2> QED
    BY <2>2, <2>3, <2>4
<1>5. /\ \A o \in DOMAIN table : \E i \in 1 .. n : o = s[i]
      /\ \A i \in 1 .. n : s[i] \in DOMAIN table /\ table[s[i]] = DirectoryHeader(dir[i])
  <2>1. ASSUME NEW i \in 1 .. n, NEW j \in 1 .. n, s[i] = s[j] PROVE i = j
    <3>1. i \in 1 .. n + 1 /\ j \in 1 .. n + 1 /\ i \in Int /\ j \in Int
      BY <1>3
    <3>2. s[i] \in Nat /\ s[j] \in Nat
      BY <1>3, <3>1
    <3> QED
      BY <1>3, <2>1, <3>1, <3>2
  <2>2. ASSUME NEW i \in 1 .. n
        PROVE  s[i] \in DOMAIN table /\ table[s[i]] = DirectoryHeader(dir[i])
    <3>1. (CHOOSE j \in 1 .. n : s[j] = s[i]) = i
      BY <2>1, Zenon
    <3>2. s[i] \in DOMAIN table /\ table[s[i]] = Headers[CHOOSE j \in 1 .. n : s[j] = s[i]]
      BY <1>t, Zenon
    <3>3. Headers[i] = DirectoryHeader(dir[i])
      BY <1>n DEF Headers
    <3> QED
      BY <3>1, <3>2, <3>3, Zenon
  <2> QED
    BY <1>t, <2>2, Zenon
<1>6. /\ \A o \in DOMAIN g : o \in Nat /\ o >= end /\ g[o].sig # "directory"
      /\ ~Big(n, size, cur) => DOMAIN g = {end}
      /\ EndingLen(n, size, cur) \in Nat \ {0}
      /\ ~Big(n, size, cur) => EndingLen(n, size, cur) = directoryEndLen
  <2>1. end \in Nat /\ n \in Nat /\ size \in Nat /\ cur \in Nat
    BY <1>3, <1>4
  <2>2. Ends(end, n, size, cur)
    BY <2>1, EndingIs
  <2> QED
    BY <2>2, <1>g DEF Ends
<1>7. Covers(archive, table, mid) /\ Covers(mid, g, archive')
  BY <1>2, <1>m, OverIs, Zenon
<1>8. \A o \in DOMAIN archive : o \in Nat /\ o < cur /\ archive[o].sig \in {"local", "descriptor"}
  BY <1>1, <1>c DEF Draft
<1>9. \A i \in 1 .. n : DirectoryHeader(dir[i]).sig = "directory"
  BY DEF DirectoryHeader
\* the three parts of the archive
<1>10. \A o \in DOMAIN table : o \in Nat /\ o >= cur /\ o < end /\ table[o].sig = "directory"
  BY <1>4, <1>5, <1>9
<1>11. \A o \in DOMAIN archive : o \in DOMAIN archive' /\ archive'[o] = archive[o]
  <2> TAKE o \in DOMAIN archive
  <2>1. o \notin DOMAIN table /\ o \notin DOMAIN g
    BY <1>3, <1>4, <1>6, <1>8, <1>10
  <2> QED
    BY <1>7, <2>1 DEF Covers
<1>12. \A o \in DOMAIN table : o \in DOMAIN archive' /\ archive'[o] = table[o]
  <2> TAKE o \in DOMAIN table
  <2>1. o \notin DOMAIN g
    BY <1>4, <1>6, <1>10
  <2> QED
    BY <1>7, <2>1 DEF Covers
<1>13. \A o \in DOMAIN g : o \in DOMAIN archive' /\ archive'[o] = g[o]
  BY <1>7 DEF Covers
<1>14. \A o \in DOMAIN archive' : o \in DOMAIN archive \/ o \in DOMAIN table \/ o \in DOMAIN g
  BY <1>7 DEF Covers
<1>15. Offsets' = s /\ Len(dir') = n
  BY <1>2, <1>c, <1>n, <1>s DEF Offsets, Headers
<1>16. Types'
  <2>1. written' \in Nat
    BY <1>2, <1>4, <1>6
  <2> QED
    BY <1>1, <1>2, <1>c, <2>1 DEF Types
<1>17. ASSUME NEW i \in 1 .. n PROVE Stands(dir[i])'
  <2>e. PICK e : e = dir[i]
    OBVIOUS
  <2>1. Stands(e)
    BY <1>1, <1>n, <2>e
  <2>2. Stands(e)'
    <3>1. e.offset \in DOMAIN archive /\ e.offset < current /\ archive[e.offset] = LocalHeader(e.name)
          /\ (~e.folder => [at |-> e.offset + LocalLen(e.name), size |-> e.size] \in bodies)
          /\ (~e.folder => ContentEnd(e) \in DOMAIN archive /\ archive[ContentEnd(e)] = Descriptor(e.size))
      BY <2>1, Zenon DEF Stands
    <3>2. e.offset \in DOMAIN archive' /\ archive'[e.offset] = LocalHeader(e.name)
      BY <1>11, <3>1, Zenon
    <3>3. e.offset < current'
      BY <1>2, <1>c, <3>1
    <3>4. ~e.folder => [at |-> e.offset + LocalLen(e.name), size |-> e.size] \in bodies'
      BY <1>2, <3>1, Zenon
    <3>5. ~e.folder => ContentEnd(e) \in DOMAIN archive' /\ archive'[ContentEnd(e)] = Descriptor(e.size)
      BY <1>11, <3>1, Zenon
    <3> QED
      BY <3>2, <3>3, <3>4, <3>5, Zenon DEF Stands
  <2> QED
    BY <1>2, <2>2, <2>e
<1>18. Sealed'
  <2>1. \A i \in 1 .. n : s[i] \in DOMAIN archive' /\ archive'[s[i]] = DirectoryHeader(dir[i])
    BY <1>5, <1>12
  <2>2. ~Found(end, "directory")'
    <3>1. CASE end \in DOMAIN archive'
      <4>1. end \in DOMAIN g
        BY <1>3, <1>4, <1>8, <1>10, <1>14, <3>1
      <4>2. archive'[end].sig # "directory"
        BY <1>6, <1>13, <4>1
      <4> QED
        BY <4>2 DEF Found
    <3>2. CASE end \notin DOMAIN archive'
      BY <3>2 DEF Found
    <3> QED
      BY <3>1, <3>2
  <2>3. ~Big(n, size, cur) => ~Found(LocatorOffset, "locator")'
    <3> SUFFICES ASSUME ~Big(n, size, cur) PROVE ~Found(LocatorOffset, "locator")'
      OBVIOUS
    <3>o. PICK o : o = LocatorOffset'
      OBVIOUS
    <3>1. o = end - directory64LocLen
      BY <1>2, <1>4, <1>6, <3>o DEF LocatorOffset, EndOffset, directoryEndLen, directory64LocLen
    <3>2. o \notin DOMAIN g
      BY <1>4, <1>6, <3>1 DEF directory64LocLen
    <3>3. o \in DOMAIN archive' => archive'[o].sig # "locator"
      BY <1>8, <1>10, <1>11, <1>12, <1>14, <3>2
    <3> QED
      BY <3>3, <3>o DEF Found
  <2>4. EndingStands(n, size, cur)'
    <3>1. written' = cur + size + EndingLen(n, size, cur)
      BY <1>2, <1>4
    <3>2. Ending(cur + size, n, size, cur) = g
      BY <1>4, <1>g
    <3> QED
      BY <1>13, <2>3, <3>1, <3>2, Zenon DEF EndingStands
  <2>5. EndingKnown'
    BY EndingsKnown, PTL
  <2>6. (EndFound /\ DirectoryEnd.offset = cur /\ DirectoryEnd.records = n)'
    BY <1>3, <1>4, <2>4, <2>5 DEF EndingKnown
  <2> QED
    BY <1>2, <1>15, <1>c, <1>e, <2>1, <2>2, <2>6 DEF Sealed
<1>19. Reading'
  BY <1>1, <1>2, <1>15, <1>n, <1>s DEF Reading, Draft
<1>20. Gapless'
  BY <1>2, <1>c DEF ZInv, Gapless
<1> QED
  BY <1>2, <1>15, <1>16, <1>17, <1>18, <1>19, <1>20 DEF ZInv

\* The reader changes nothing of what it reads.
LEMMA ReaderStep ==
    ASSUME ZInv, closed, reader' \in Reader, Reading',
           UNCHANGED <<dir, current, written, closed, archive, bodies>>
    PROVE  ZInv'
<1>1. Types /\ Sealed /\ \A i \in 1 .. Len(dir) : Stands(dir[i])
  BY DEF ZInv
<1>2. Types'
  BY <1>1 DEF Types
<1>3. Sealed'
  BY <1>1 DEF Sealed, Offsets, Headers, Found, EndFound, DirectoryEnd, Located,
              LocatorOffset, EndOffset
<1>4. ASSUME NEW i \in 1 .. Len(dir) PROVE Stands(dir[i])'
  BY <1>1 DEF Stands
<1>5. closed' /\ dir' = dir
  OBVIOUS
<1>6. Gapless'
  BY DEF ZInv, Gapless
<1> QED
  BY <1>2, <1>3, <1>4, <1>5, <1>6 DEF ZInv

\* What the steps of the reader start from.
LEMMA ReaderIs ==
    ASSUME ZInv, closed
    PROVE  /\ reader \in Reader /\ reader.files \in Seq(File) /\ Len(reader.files) \in Nat
           /\ Len(dir) \in Nat /\ current \in Nat /\ \A i \in 1 .. Len(dir) : dir[i] \in DirEntry
           /\ Offsets[1] = current /\ \A i \in 1 .. Len(dir) + 1 : Offsets[i] \in Nat
           /\ \A i \in 1 .. Len(dir) :
                 Offsets[i + 1] = Offsets[i] + DirectoryLen(DirectoryHeader(dir[i]))
           /\ Sealed /\ Reading
<1>1. Types /\ Sealed /\ Reading
  BY DEF ZInv
<1>2. /\ reader \in Reader /\ current \in Nat /\ Len(dir) \in Nat
      /\ \A i \in 1 .. Len(dir) : dir[i] \in DirEntry
  BY <1>1 DEF Types
<1>3. reader.files \in Seq(File) /\ Len(reader.files) \in Nat
  BY <1>2 DEF Reader
<1> QED
  BY <1>1, <1>2, <1>3, OffsetsIncrease

LEMMA ReadEndStep ==
    ASSUME ZInv, ReadEnd
    PROVE  ZInv'
<1>1. closed /\ reader.pc = "wait" /\ UNCHANGED <<dir, current, written, closed, archive, bodies>>
  BY DEF ReadEnd
<1>2. /\ reader \in Reader /\ Len(dir) \in Nat /\ current \in Nat /\ Offsets[1] = current
      /\ reader.files = <<>> /\ Sealed
  BY <1>1, ReaderIs DEF Reading
<1>3. reader' = [reader EXCEPT !.pc = "directory", !.pos = current, !.count = Len(dir)]
  BY <1>2 DEF ReadEnd, Sealed
<1>4. /\ reader'.pc = "directory" /\ reader'.pos = current /\ reader'.count = Len(dir)
      /\ reader'.files = <<>> /\ Len(reader'.files) = 0
  BY <1>2, <1>3 DEF Reader
<1>5. reader' \in Reader
  BY <1>2, <1>3 DEF Reader
<1>6. Offsets' = Offsets
  BY <1>1 DEF Offsets, Headers
<1>7. Reading'
  BY <1>1, <1>2, <1>4, <1>6 DEF Reading
<1> QED
  BY <1>1, <1>5, <1>7, ReaderStep

LEMMA ReadEntryStep ==
    ASSUME ZInv, ReadEntry
    PROVE  ZInv'
<1>k. PICK k : k = Len(reader.files)
  OBVIOUS
<1>1. /\ reader.pc = "directory" /\ Found(reader.pos, "directory")
      /\ UNCHANGED <<dir, current, written, closed, archive, bodies>>
      /\ reader' = [reader EXCEPT !.pos = @ + DirectoryLen(archive[reader.pos]),
                                  !.files = Append(@, Parsed(archive[reader.pos]))]
  BY DEF ReadEntry
<1>2. closed
  BY <1>1 DEF ZInv, Reading
<1>3. /\ reader \in Reader /\ reader.files \in Seq(File) /\ k \in Nat /\ Len(dir) \in Nat
      /\ k <= Len(dir) /\ reader.pos = Offsets[k + 1] /\ reader.count = Len(dir)
      /\ Sealed /\ Reading
  BY <1>1, <1>2, <1>k, ReaderIs DEF Reading
<1>4. k + 1 \in 1 .. Len(dir)
  <2>1. k # Len(dir)
    BY <1>1, <1>3 DEF Sealed
  <2> QED
    BY <1>3, <2>1
<1>5. archive[reader.pos] = DirectoryHeader(dir[k + 1])
  BY <1>3, <1>4 DEF Sealed
<1>h. PICK h : h = dir[k + 1]
  OBVIOUS
<1>6. h \in DirEntry /\ Offsets[k + 2] = Offsets[k + 1] + DirectoryLen(DirectoryHeader(h))
      /\ Offsets[k + 2] \in Nat
  <2>1. /\ dir[k + 1] \in DirEntry
        /\ Offsets[(k + 1) + 1] = Offsets[k + 1] + DirectoryLen(DirectoryHeader(dir[k + 1]))
    BY <1>2, <1>4, ReaderIs
  <2>2. (k + 1) + 1 = k + 2 /\ k + 2 \in 1 .. Len(dir) + 1
    BY <1>3, <1>4
  <2>3. Offsets[k + 2] \in Nat
    BY <1>2, <2>2, ReaderIs
  <2> QED
    BY <1>h, <2>1, <2>2, <2>3
<1>f. PICK f : f = Parsed(DirectoryHeader(h))
  OBVIOUS
<1>7. f \in File
  BY <1>6, <1>f, ParsedIs
<1>8. reader' = [reader EXCEPT !.pos = Offsets[k + 2], !.files = Append(reader.files, f)]
  BY <1>1, <1>3, <1>5, <1>6, <1>h, <1>f
<1>9. /\ reader'.pc = "directory" /\ reader'.pos = Offsets[k + 2]
      /\ reader'.files = Append(reader.files, f) /\ reader'.count = Len(dir)
  BY <1>1, <1>3, <1>8 DEF Reader
<1>10. reader' \in Reader
  <2>1. Append(reader.files, f) \in Seq(File)
    BY <1>3, <1>7
  <2> QED
    BY <1>3, <1>6, <1>8, <2>1 DEF Reader
<1>11. Offsets' = Offsets
  BY <1>1 DEF Offsets, Headers
<1>12. /\ Len(reader'.files) = k + 1 /\ reader'.files[k + 1] = f
       /\ \A i \in 1 .. k : reader'.files[i] = reader.files[i]
  BY <1>3, <1>7, <1>9, <1>k
<1>13. ASSUME NEW i \in 1 .. k + 1 PROVE reader'.files[i] = Parsed(DirectoryHeader(dir[i]))
  <2>1. CASE i = k + 1
    BY <1>12, <1>f, <1>h, <2>1
  <2>2. CASE i # k + 1
    <3>1. i \in 1 .. k
      BY <1>3, <2>2
    <3>2. reader.files[i] = Parsed(DirectoryHeader(dir[i]))
      BY <1>3, <1>k, <3>1 DEF Reading
    <3> QED
      BY <1>12, <3>1, <3>2
  <2> QED
    BY <2>1, <2>2
<1>14. Offsets'[Len(reader'.files) + 1] = Offsets[k + 2]
  <2>1. Len(reader'.files) + 1 = k + 2
    BY <1>3, <1>12
  <2> QED
    BY <1>11, <2>1
<1>15. Reading'
  BY <1>1, <1>2, <1>3, <1>4, <1>9, <1>12, <1>13, <1>14 DEF Reading
<1> QED
  BY <1>1, <1>2, <1>10, <1>15, ReaderStep

LEMMA EndDirectoryStep ==
    ASSUME ZInv, EndDirectory
    PROVE  ZInv'
<1>k. PICK k : k = Len(reader.files)
  OBVIOUS
<1>1. /\ reader.pc = "directory"
      /\ Found(reader.pos, "directory") => ~Readable(archive[reader.pos])
      /\ UNCHANGED <<dir, current, written, closed, archive, bodies>>
  BY DEF EndDirectory
<1>2. closed
  BY <1>1 DEF ZInv, Reading
<1>3. /\ reader \in Reader /\ k \in Nat /\ Len(dir) \in Nat
      /\ k <= Len(dir) /\ reader.pos = Offsets[k + 1] /\ reader.count = Len(dir)
      /\ Sealed /\ Reading
  BY <1>1, <1>2, <1>k, ReaderIs DEF Reading
<1>4. k = Len(dir)
  <2>1. SUFFICES ASSUME k # Len(dir) PROVE FALSE
    OBVIOUS
  <2>2. k + 1 \in 1 .. Len(dir)
    BY <1>3, <2>1
  <2>3. reader.pos \in DOMAIN archive /\ archive[reader.pos] = DirectoryHeader(dir[k + 1])
    BY <1>3, <2>2 DEF Sealed
  <2>4. dir[k + 1] \in DirEntry
    BY <1>2, <2>2, ReaderIs
  <2>5. Readable(archive[reader.pos]) /\ archive[reader.pos].sig = "directory"
    BY <2>3, <2>4, ParsedIs, EntryIs
  <2> QED
    BY <1>1, <2>3, <2>5 DEF Found
<1>5. reader' = [reader EXCEPT !.pc = "files"]
  BY <1>3, <1>4, <1>k DEF EndDirectory
<1>6. reader'.pc = "files" /\ reader'.files = reader.files
  BY <1>3, <1>5 DEF Reader
<1>7. reader' \in Reader
  BY <1>3, <1>5 DEF Reader
<1>8. Reading'
  BY <1>1, <1>2, <1>3, <1>4, <1>6, <1>k DEF Reading
<1> QED
  BY <1>1, <1>2, <1>7, <1>8, ReaderStep

LEMMA OpenStep ==
    ASSUME ZInv, NEW i \in 1 .. MaxEntries, Open(i)
    PROVE  ZInv'
<1>1. /\ reader.pc \in {"files", "opened"} /\ i \in 1 .. Len(reader.files)
      /\ UNCHANGED <<dir, current, written, closed, archive, bodies>>
  BY DEF Open
<1>2. closed
  BY <1>1 DEF ZInv, Reading
<1>3. /\ reader \in Reader /\ Len(reader.files) \in Nat /\ Reading
      /\ Len(reader.files) = Len(dir) /\ i \in 1 .. Len(dir)
  BY <1>1, <1>2, ReaderIs DEF Reading
<1>h. PICK h : h = dir[i]
  OBVIOUS
<1>f. PICK f : f = reader.files[i]
  OBVIOUS
<1>4. h \in DirEntry /\ Stands(h)
  BY <1>2, <1>3, <1>h, ReaderIs DEF ZInv
<1>5. f \in File /\ f.csize = h.size /\ f.size = h.size /\ f.offset = h.offset
  <2>1. f = Parsed(DirectoryHeader(h))
    BY <1>1, <1>3, <1>f, <1>h DEF Reading
  <2> QED
    BY <1>4, <2>1, ParsedIs
<1>6. /\ f.offset \in DOMAIN archive /\ archive[f.offset] = LocalHeader(h.name)
      /\ ~h.folder => [at |-> h.offset + LocalLen(h.name), size |-> h.size] \in bodies
  BY <1>4, <1>5, Zenon DEF Stands
<1>7. Found(f.offset, "local")
  BY <1>6 DEF Found, LocalHeader
<1>b. PICK body : body = f.offset + fileHeaderLen + archive[f.offset].name + archive[f.offset].extra
  OBVIOUS
<1>8. body = h.offset + LocalLen(h.name) /\ body \in Nat
  <2>1. h.offset \in Nat /\ h.name \in Nat
    BY <1>4, EntryIs
  <2>2. archive[f.offset].name = h.name /\ archive[f.offset].extra = extTimeExtraLen
    BY <1>6 DEF LocalHeader
  <2> QED
    BY <1>5, <1>b, <2>1, <2>2 DEF LocalLen, fileHeaderLen, extTimeExtraLen
<1>9. ([at |-> body, size |-> f.csize] \in bodies /\ f.csize = f.size) \/ h.folder
  BY <1>5, <1>6, <1>8, Zenon
<1>10. PICK verdict \in {"ok", "checksum"} :
           reader' = [reader EXCEPT !.pc = "opened", !.opened = i, !.body = body,
                                    !.verdict = verdict]
  <2> DEFINE desr  == body + f.csize
             right == [at |-> body, size |-> f.csize] \in bodies /\ f.csize = f.size
             fits  == IF h.folder THEN f.crc = 0 \/ f.crc = Sum(f.size)
                      ELSE /\ Found(desr, "descriptor") /\ archive[desr].crc = f.crc
                           /\ Sum(f.size) = f.crc
  <2>1. reader' = [reader EXCEPT !.pc = "opened", !.opened = i, !.body = body,
                                 !.verdict = IF ~(right \/ h.folder) THEN "garbage"
                                             ELSE IF fits THEN "ok" ELSE "checksum"]
    BY <1>7, <1>b, <1>f, <1>h, Zenon DEF Open
  <2>2. right \/ h.folder
    BY <1>9
  <2> HIDE DEF right, fits
  <2>3. CASE fits
    BY <2>1, <2>2, <2>3
  <2>4. CASE ~fits
    BY <2>1, <2>2, <2>4
  <2> QED
    BY <2>3, <2>4
<1>11. /\ reader'.pc = "opened" /\ reader'.files = reader.files /\ reader'.verdict = verdict
       /\ reader'.opened = i /\ reader'.body = body
  BY <1>3, <1>10 DEF Reader
<1>12. reader' \in Reader
  <2>1. i \in Nat
    BY <1>3
  <2>2. verdict \in {"none", "ok", "checksum", "garbage"}
    OBVIOUS
  <2> QED
    BY <1>3, <1>8, <1>10, <2>1, <2>2 DEF Reader
<1>13. Reading'
  <2>1. /\ reader'.verdict # "garbage" /\ reader'.opened \in 1 .. Len(dir)
        /\ reader'.body = dir[reader'.opened].offset + LocalLen(dir[reader'.opened].name)
    BY <1>3, <1>8, <1>11, <1>h
  <2> QED BY <1>1, <1>2, <1>3, <1>11, <2>1 DEF Reading
<1> QED
  BY <1>1, <1>2, <1>12, <1>13, ReaderStep

LEMMA InitZInv == Init => ZInv
<1> SUFFICES ASSUME Init PROVE ZInv
  OBVIOUS
<1>1. /\ dir = <<>> /\ current = 0 /\ written = 0 /\ closed = FALSE /\ DOMAIN archive = {}
      /\ reader = [pc |-> "wait", pos |-> 0, count |-> 0, files |-> <<>>,
                   opened |-> 0, verdict |-> "none", body |-> 0]
  BY DEF Init
<1>2. Types
  <2>1. <<>> \in Seq(File) /\ <<>> \in Seq(DirEntry)
    OBVIOUS
  <2>2. reader \in Reader
    BY <1>1, <2>1 DEF Reader
  <2> QED
    BY <1>1, <2>1, <2>2 DEF Types
<1>3. Len(dir) = 0 /\ Len(reader.files) = 0
  BY <1>1
<1>4. Draft
  BY <1>1 DEF Draft
<1>5. Reading
  BY <1>1, <1>3 DEF Reading
<1>6. Gapless
  BY <1>3 DEF Gapless
<1> QED
  BY <1>1, <1>2, <1>3, <1>4, <1>5, <1>6 DEF ZInv

LEMMA NextZInv == ZInv /\ [Next]_vars => ZInv'
<1> SUFFICES ASSUME ZInv, [Next]_vars PROVE ZInv'
  OBVIOUS
<1>1. CASE Create
  <2>1. PICK name \in Names :
            \/ CreateFolder(name)
            \/ \E size \in Sizes : \E crc \in {0, Sum(size)} : CreateFile(name, size, crc)
    BY <1>1 DEF Create
  <2>2. CASE CreateFolder(name)
    BY <2>2, FolderStep
  <2>3. ASSUME NEW size \in Sizes, NEW crc \in {0, Sum(size)}, CreateFile(name, size, crc)
        PROVE  ZInv'
    <3>1. crc \in {0, 1}
      BY DEF Sum
    <3> QED
      BY <2>3, <3>1, FileStep
  <2> QED
    BY <2>1, <2>2, <2>3
<1>2. CASE Close
  BY <1>2, CloseStep
<1>3. CASE ReadEnd
  BY <1>3, ReadEndStep
<1>4. CASE ReadEntry
  BY <1>4, ReadEntryStep
<1>5. CASE EndDirectory
  BY <1>5, EndDirectoryStep
<1>6. CASE OpenAny
  BY <1>6, OpenStep DEF OpenAny
<1>7. CASE Done \/ UNCHANGED vars
  <2>1. UNCHANGED vars
    BY <1>7 DEF Done
  <2> QED
    BY <2>1 DEF vars, ZInv, Types, Gapless, Stands, Draft, Sealed, Reading, Offsets, Headers, Found,
                EndFound, DirectoryEnd, Located, LocatorOffset, EndOffset
<1> QED
  BY <1>1, <1>2, <1>3, <1>4, <1>5, <1>6, <1>7 DEF Next

\* ziphttp/writer.go:113-142, 166-197 against reader.go:301-344, 481-563: whatever the
\* sizes, the names, the number of entries and the widths of the fields, a closed archive
\* is never rejected, and its entries are read as they were created.
THEOREM ReadsBack == Spec => []ReadBack
<1>1. ZInv => ReadBack
  <2> SUFFICES ASSUME ZInv PROVE ReadBack
    OBVIOUS
  <2>1. Types /\ Reading
    BY DEF ZInv
  <2>2. \A i \in 1 .. Len(dir) : dir[i] \in DirEntry
    BY <2>1 DEF Types
  <2>3. ASSUME reader.pc \in {"files", "opened"}, NEW i \in 1 .. Len(dir)
        PROVE  /\ reader.files[i].name = dir[i].name /\ reader.files[i].crc = dir[i].crc
               /\ reader.files[i].size = dir[i].size /\ reader.files[i].offset = dir[i].offset
    <3>1. reader.files[i] = Parsed(DirectoryHeader(dir[i]))
      BY <2>1, <2>3 DEF Reading
    <3> QED
      BY <2>2, <3>1, ParsedIs
  <2> QED
    BY <2>1, <2>3 DEF ReadBack, Reading
<1> QED
  BY <1>1, InitZInv, NextZInv, PTL DEF Spec

\* A descriptor's fields hold the size they are given.
LEMMA DescriptorHolds ==
    ASSUME NEW size \in Nat
    PROVE  /\ Descriptor(size).sig = "descriptor" /\ Descriptor(size).size = size
           /\ Descriptor(size).len = DescriptorLen(size) /\ DescriptorLen(size) \in Nat
<1>1. ~IsZip64(size) => Low32(size) = size
  BY FormatAssumption DEF IsZip64, Low32
<1> QED
  BY <1>1 DEF Descriptor, DescriptorLen, dataDescriptorLen, dataDescriptor64Len

\* ziphttp/reader.go:229-244, 166-169: where the local header of an entry says that the
\* content starts, the content of that entry lies, behind it its descriptor, and right
\* behind that the next entry or the directory, however many entries are in front.
THEOREM BodiesFound == Spec => []BodyFound
<1>1. ZInv => BodyFound
  <2> SUFFICES ASSUME ZInv, reader.pc = "opened" PROVE BodyFound
    BY DEF BodyFound
  <2>k. PICK k : k = reader.opened
    OBVIOUS
  <2>h. PICK h : h = dir[k]
    OBVIOUS
  <2>f. PICK f : f = reader.files[k]
    OBVIOUS
  <2>1. /\ Types /\ Reading /\ Gapless /\ closed /\ Sealed /\ Len(dir) \in Nat
        /\ Len(reader.files) = Len(dir) /\ \A i \in 1 .. Len(dir) : dir[i] \in DirEntry
    BY DEF ZInv, Reading, Types
  <2>2. /\ reader.verdict # "garbage" /\ k \in 1 .. Len(dir)
        /\ reader.body = h.offset + LocalLen(h.name)
    BY <2>1, <2>k, <2>h DEF Reading
  <2>3. /\ h \in DirEntry /\ Stands(h)
        /\ h.offset \in Nat /\ LocalLen(h.name) \in Nat /\ h.size \in Nat
    BY <2>1, <2>2, <2>h, EntryIs DEF ZInv
  <2>4. ASSUME NEW i \in 1 .. Len(dir)
        PROVE  /\ reader.files[i].csize = dir[i].size /\ reader.files[i].size = dir[i].size
               /\ reader.files[i].offset = dir[i].offset
    <3>1. reader.files[i] = Parsed(DirectoryHeader(dir[i])) /\ dir[i] \in DirEntry
      BY <2>1 DEF Reading
    <3> QED BY <3>1, ParsedIs
  <2>5. f.csize = h.size /\ f.size = h.size
    BY <2>2, <2>4, <2>h, <2>f
  <2>6. Behind(k) = h.offset + EntryLen(h)
    <3>1. CASE k < Len(dir)
      <4>1. k + 1 \in 1 .. Len(dir) /\ h.offset + EntryLen(h) = dir[k + 1].offset
        BY <2>1, <2>2, <2>h, <3>1 DEF Gapless
      <4>2. reader.files[k + 1].offset = dir[k + 1].offset
        BY <2>4, <4>1
      <4> QED BY <3>1, <4>1, <4>2 DEF Behind
    <3>2. CASE ~(k < Len(dir))
      <4>1. h.offset + EntryLen(h) = current
        BY <2>1, <2>2, <2>h, <3>2 DEF Gapless
      <4> QED BY <2>1, <3>2, <4>1 DEF Behind, Sealed
    <3> QED BY <3>1, <3>2
  <2>7. CASE h.folder
    <3>1. Behind(k) = reader.body
      BY <2>2, <2>6, <2>7 DEF EntryLen
    <3> QED BY <2>2, <2>7, <2>h, <2>k, <3>1 DEF BodyFound
  <2>8. CASE ~h.folder
    <3>d. PICK desr : desr = reader.body + f.csize
      OBVIOUS
    <3>1. desr = ContentEnd(h)
      BY <2>2, <2>3, <2>5, <3>d DEF ContentEnd
    <3>2. desr \in DOMAIN archive /\ archive[desr] = Descriptor(h.size)
      BY <2>3, <2>8, <3>1, Zenon DEF Stands
    <3>3. /\ Found(desr, "descriptor") /\ archive[desr].size = f.size
          /\ archive[desr].len = DescriptorLen(h.size) /\ DescriptorLen(h.size) \in Nat
      BY <2>3, <2>5, <3>2, DescriptorHolds DEF Found
    <3>4. Behind(k) = desr + archive[desr].len
      BY <2>3, <2>6, <2>8, <3>1, <3>3 DEF EntryLen, ContentEnd
    <3> QED
      BY <2>2, <2>8, <2>h, <2>k, <2>f, <3>d, <3>3, <3>4 DEF BodyFound
  <2> QED BY <2>7, <2>8
<1> QED
  BY <1>1, InitZInv, NextZInv, PTL DEF Spec

\* Nothing lies beyond the end of what is written.
Inside ==
    /\ Len(dir) <= MaxEntries
    /\ \A o \in DOMAIN archive : o \in 0 .. written - 1
    /\ \A b \in bodies : b \in [at : 0 .. written, size : Sizes]

LEMMA CreateInside ==
    ASSUME Inside, written \in Nat, NEW g, archive' = Over(archive, g),
           NEW h, dir \in Seq(DirEntry), dir' = Append(dir, h), Len(dir) < MaxEntries,
           written' \in Nat, written' > written,
           \A o \in DOMAIN g : o \in Nat /\ o < written',
           \A b \in bodies' : b \in bodies \/ b \in [at : 0 .. written', size : Sizes]
    PROVE  Inside'
<1>1. Len(dir') <= MaxEntries
  BY FormatAssumption
<1>2. \A o \in DOMAIN archive' : o \in DOMAIN archive \/ o \in DOMAIN g
  <2>1. Covers(archive, g, archive')
    BY OverIs, Zenon
  <2> QED
    BY <2>1, Zenon DEF Covers
<1>3. \A o \in DOMAIN archive : o \in 0 .. written' - 1
  BY DEF Inside
<1>4. \A o \in DOMAIN g : o \in 0 .. written' - 1
  OBVIOUS
<1>5. \A o \in DOMAIN archive' : o \in 0 .. written' - 1
  BY <1>2, <1>3, <1>4, Zenon
<1>6. \A x \in 0 .. written : x \in 0 .. written'
  OBVIOUS
<1>7. \A b \in bodies : b \in [at : 0 .. written', size : Sizes]
  BY <1>6 DEF Inside
<1> QED
  BY <1>1, <1>5, <1>7 DEF Inside

LEMMA FolderInside ==
    ASSUME ZInv, Inside, NEW name \in Names, CreateFolder(name)
    PROVE  Inside'
<1>1. /\ dir' = Append(dir, Entry(name, TRUE, 0, 0)) /\ Len(dir) < MaxEntries
      /\ archive' = Over(archive, At(written, LocalHeader(name)))
      /\ written' = written + LocalLen(name) /\ bodies' = bodies
  BY DEF CreateFolder
<1>2. written \in Nat /\ dir \in Seq(DirEntry)
  BY DEF ZInv, Types
<1>3. LocalLen(name) \in Nat /\ LocalLen(name) > 0
  BY FormatAssumption DEF LocalLen, fileHeaderLen, extTimeExtraLen
<1>4. written' \in Nat /\ written' > written
  BY <1>1, <1>2, <1>3
<1>5. \A o \in DOMAIN At(written, LocalHeader(name)) : o \in Nat /\ o < written'
  <2>1. DOMAIN At(written, LocalHeader(name)) = {written}
    BY AtIs, Zenon
  <2> QED
    BY <1>2, <1>4, <2>1
<1> QED
  BY <1>1, <1>2, <1>4, <1>5, CreateInside

LEMMA FileInside ==
    ASSUME ZInv, Inside, NEW name \in Names, NEW size \in Sizes, NEW crc \in {0, 1},
           CreateFile(name, size, crc)
    PROVE  Inside'
<1>b. PICK body : body = written + LocalLen(name)
  OBVIOUS
<1>g. PICK g : g = Over(At(written, LocalHeader(name)), At(body + size, Descriptor(size)))
  OBVIOUS
<1>1. /\ dir' = Append(dir, Entry(name, FALSE, size, crc)) /\ Len(dir) < MaxEntries
      /\ archive' = Over(archive, g)
      /\ written' = written + (LocalLen(name) + size + DescriptorLen(size))
      /\ bodies' = bodies \cup {[at |-> body, size |-> size]}
  BY <1>b, <1>g DEF CreateFile
<1>2. written \in Nat /\ dir \in Seq(DirEntry)
  BY DEF ZInv, Types
<1>3. /\ LocalLen(name) \in Nat /\ LocalLen(name) > 0 /\ size \in Nat
      /\ DescriptorLen(size) \in Nat /\ DescriptorLen(size) > 0
  BY FormatAssumption DEF LocalLen, fileHeaderLen, extTimeExtraLen, DescriptorLen,
                          dataDescriptorLen, dataDescriptor64Len
<1>4. /\ written' \in Nat /\ written' > written /\ body \in 0 .. written'
      /\ body + size \in Nat /\ body + size < written'
  <2> DEFINE x == LocalLen(name)
             y == DescriptorLen(size)
  <2>1. written' = written + (x + size + y) /\ body = written + x
    BY <1>1, <1>b
  <2>2. x \in Nat /\ x > 0 /\ y \in Nat /\ y > 0
    BY <1>3
  <2> HIDE DEF x, y
  <2> QED
    BY <1>2, <1>3, <2>1, <2>2
<1>5. \A o \in DOMAIN g : o = written \/ o = body + size
  <2>1. Covers(At(written, LocalHeader(name)), At(body + size, Descriptor(size)), g)
    BY <1>g, OverIs
  <2>2. /\ DOMAIN At(written, LocalHeader(name)) = {written}
        /\ DOMAIN At(body + size, Descriptor(size)) = {body + size}
    BY AtIs
  <2> QED
    BY <2>1, <2>2 DEF Covers
<1>6. \A o \in DOMAIN g : o \in Nat /\ o < written'
  BY <1>2, <1>4, <1>5
<1>7. \A b \in bodies' : b \in bodies \/ b \in [at : 0 .. written', size : Sizes]
  BY <1>1, <1>4
<1> QED
  BY <1>1, <1>2, <1>4, <1>6, <1>7, CreateInside

LEMMA CloseInside ==
    ASSUME ZInv, Inside, Close
    PROVE  Inside'
<1>n. PICK n : n = Len(dir)
  OBVIOUS
<1>s. PICK s : s = Offsets
  OBVIOUS
<1>c. PICK cur : cur = current
  OBVIOUS
<1>t. PICK table : table = [o \in {s[i] : i \in 1 .. n} |->
                               Headers[CHOOSE i \in 1 .. n : s[i] = o]]
  OBVIOUS
<1>e. PICK end : end = s[n + 1]
  OBVIOUS
<1>z. PICK size : size = end - cur
  OBVIOUS
<1>g. PICK g : g = Ending(end, n, size, cur)
  OBVIOUS
<1>m. PICK mid : mid = Over(archive, table)
  OBVIOUS
<1>1. Types /\ written = current
  BY DEF ZInv, Close, Draft
<1>2. /\ archive' = Over(mid, g) /\ written' = end + EndingLen(n, size, cur)
      /\ dir' = dir /\ bodies' = bodies
  BY <1>1, <1>n, <1>s, <1>c, <1>t, <1>e, <1>z, <1>g, <1>m DEF Close, Offsets, Headers
<1>3. /\ n \in Nat /\ s[1] = cur /\ cur \in Nat
      /\ \A i \in 1 .. n + 1 : s[i] \in Nat
      /\ \A i, j \in 1 .. n + 1 : i < j => s[i] < s[j]
  BY <1>1, <1>n, <1>s, <1>c, OffsetsIncrease DEF Types
<1>4. end \in Nat /\ end >= cur /\ size \in Nat
  <2>1. n + 1 \in 1 .. n + 1 /\ 1 \in 1 .. n + 1 /\ (1 = n + 1 \/ 1 < n + 1)
    BY <1>3
  <2>2. end \in Nat /\ end >= cur
    BY <1>3, <1>e, <2>1
  <2> QED
    BY <1>3, <1>z, <2>2
<1>5. /\ EndingLen(n, size, cur) \in Nat \ {0}
      /\ \A o \in DOMAIN g : o \in Nat /\ o < end + EndingLen(n, size, cur)
  <2>1. Ends(end, n, size, cur)
    BY <1>3, <1>4, EndingIs
  <2> QED
    BY <2>1, <1>g DEF Ends
<1>6. written' \in Nat /\ written' > end
  BY <1>2, <1>4, <1>5
<1>7. \A o \in DOMAIN table : o \in Nat /\ o < written'
  <2>1. ASSUME NEW i \in 1 .. n PROVE s[i] \in Nat /\ s[i] < written'
    <3>1. i \in 1 .. n + 1 /\ n + 1 \in 1 .. n + 1 /\ i < n + 1
      BY <1>3
    <3>2. s[i] \in Nat /\ s[i] < end
      BY <1>3, <1>e, <3>1
    <3> QED
      BY <1>4, <1>6, <3>2
  <2>2. \A o \in DOMAIN table : \E i \in 1 .. n : o = s[i]
    BY <1>t, Zenon
  <2> QED
    BY <2>1, <2>2
<1>8. \A o \in DOMAIN archive' : o \in DOMAIN archive \/ o \in DOMAIN table \/ o \in DOMAIN g
  <2>1. Covers(archive, table, mid) /\ Covers(mid, g, archive')
    BY <1>2, <1>m, OverIs, Zenon
  <2> QED
    BY <2>1, Zenon DEF Covers
<1>9. written' >= written /\ written \in Nat
  BY <1>1, <1>3, <1>4, <1>6, <1>c
<1>10. \A o \in DOMAIN archive : o \in Nat /\ o < written'
  BY <1>6, <1>9 DEF Inside
<1>11. \A o \in DOMAIN archive' : o \in Nat /\ o < written'
  BY <1>2, <1>5, <1>7, <1>8, <1>10
<1>12. \A o \in DOMAIN archive' : o \in 0 .. written' - 1
  BY <1>6, <1>11
<1>13. \A x \in 0 .. written : x \in 0 .. written'
  BY <1>6, <1>9
<1>14. \A b \in bodies : b \in [at : 0 .. written', size : Sizes]
  BY <1>13 DEF Inside
<1>15. Len(dir') <= MaxEntries
  BY <1>2 DEF Inside
<1> QED
  BY <1>2, <1>12, <1>14, <1>15 DEF Inside

LEMMA NextInside == ZInv /\ Inside /\ [Next]_vars => Inside'
<1> SUFFICES ASSUME ZInv, Inside, [Next]_vars PROVE Inside'
  OBVIOUS
<1>1. CASE Create
  <2>1. PICK name \in Names :
            \/ CreateFolder(name)
            \/ \E size \in Sizes : \E crc \in {0, Sum(size)} : CreateFile(name, size, crc)
    BY <1>1 DEF Create
  <2>2. CASE CreateFolder(name)
    BY <2>2, FolderInside
  <2>3. ASSUME NEW size \in Sizes, NEW crc \in {0, Sum(size)}, CreateFile(name, size, crc)
        PROVE  Inside'
    <3>1. crc \in {0, 1}
      BY DEF Sum
    <3> QED
      BY <2>3, <3>1, FileInside
  <2> QED
    BY <2>1, <2>2, <2>3
<1>2. CASE Close
  BY <1>2, CloseInside
<1>3. CASE UNCHANGED <<dir, written, archive, bodies>>
  BY <1>3 DEF Inside
<1>4. ~Create /\ ~Close => UNCHANGED <<dir, written, archive, bodies>>
  BY DEF Next, vars, ReadEnd, ReadEntry, EndDirectory, OpenAny, Open, Done
<1> QED
  BY <1>1, <1>2, <1>3, <1>4

\* ziphttp/writer.go:27-43: the writer's counters are natural numbers, and whatever it
\* has written lies in front of where it is.
THEOREM FormatTypeCorrect == Spec => []TypeOK
<1>1. Init => Inside
  BY FormatAssumption DEF Init, Inside
<1>2. ZInv /\ Inside => TypeOK
  <2> SUFFICES ASSUME ZInv, Inside PROVE TypeOK
    OBVIOUS
  <2>1. Types
    BY DEF ZInv
  <2>2. DOMAIN archive \subseteq 0 .. written - 1 /\ Len(dir) <= MaxEntries
        /\ bodies \subseteq [at : 0 .. written, size : Sizes]
    BY DEF Inside
  <2> QED
    BY <2>1, <2>2 DEF TypeOK, Types, DirEntry, Reader
<1> QED
  BY <1>1, <1>2, InitZInv, NextZInv, NextInside, PTL DEF Spec
=============================================================================
