----------------------------- MODULE ZipFormat -----------------------------
(***************************************************************************)
(* What a whole zip says and what is read out of it: the headers, the      *)
(* descriptors and the ending that ziphttp/writer.go emits, with their     *)
(* escape to zip64 where a number outgrows its field, and the package's    *)
(* reader (ziphttp/reader.go), which the tests check archives with.        *)
(*                                                                         *)
(* The archive is a function from offsets to the structures that start     *)
(* there; the reader finds nothing of its kind anywhere else.  Bodies are  *)
(* kept as the ranges they occupy.  Numbers are stored modulo the width of *)
(* their field.  A checksum is 0 for nothing, 1 for a file's content.      *)
(***************************************************************************)
EXTENDS Integers, Sequences

CONSTANTS
    Max16,      \* uint16max
    Max32,      \* uint32max
    Sizes,      \* sizes of files
    Names,      \* lengths of names
    MaxEntries  \* bound: entries of an archive

ASSUME FormatAssumption ==
    /\ Max16 \in Nat \ {0} /\ Max32 \in Nat \ {0} /\ MaxEntries \in Nat
    /\ Sizes \subseteq Nat /\ Names \subseteq Nat \ {0}

fileHeaderLen == 30
directoryHeaderLen == 46
directoryEndLen == 22
dataDescriptorLen == 16
dataDescriptor64Len == 24
directory64LocLen == 20
directory64EndLen == 56
extTimeExtraLen == 9
zip64ExtraLen == 28

VARIABLES
    dir,        \* Writer.dir: the entries created
    current,    \* Writer.current: where the writer believes to be
    written,    \* bytes the archive has
    closed,     \* Writer.closed
    archive,    \* offset -> what starts there
    bodies,     \* the contents written: [at, size]
    reader      \* the reader

vars == <<dir, current, written, closed, archive, bodies, reader>>

Low16(n) == n % (Max16 + 1)
Low32(n) == n % (Max32 + 1)

\* isZip64
IsZip64(size) == size >= Max32

Sum(size) == IF size = 0 THEN 0 ELSE 1

\* One structure at its offset, and f with the structures of g.
At(offset, structure) == [o \in {offset} |-> structure]
Over(f, g) == [o \in DOMAIN f \cup DOMAIN g |-> IF o \in DOMAIN g THEN g[o] ELSE f[o]]

Init ==
    /\ dir = <<>> /\ current = 0 /\ written = 0 /\ closed = FALSE
    /\ archive = [o \in {} |-> 0] /\ bodies = {}
    /\ reader = [pc |-> "wait", pos |-> 0, count |-> 0, files |-> <<>>,
                 opened |-> 0, verdict |-> "none", body |-> 0]
-----------------------------------------------------------------------------
(* The writer.                                                             *)

\* getHeader: in front of the content; sizes and checksum are left to the
\* descriptor.
LocalHeader(name) == [sig |-> "local", name |-> name, extra |-> extTimeExtraLen]

LocalLen(name) == fileHeaderLen + name + extTimeExtraLen

DescriptorLen(size) == IF IsZip64(size) THEN dataDescriptor64Len ELSE dataDescriptorLen

DescriptorNarrow(size) ==  \* mutant: the size always goes into 32 bits
    [sig |-> "descriptor", crc |-> 0, len |-> DescriptorLen(size), size |-> Low32(size)]

\* getDescriptor: its checksum is never anything but 0; a big size has a field of
\* 64 bits, in a descriptor that is longer.
Descriptor(size) ==
    [sig |-> "descriptor", crc |-> 0, len |-> DescriptorLen(size),
     size |-> IF IsZip64(size) THEN size ELSE Low32(size)]

Entry(name, folder, size, crc) ==
    [name |-> name, folder |-> folder, size |-> size, crc |-> crc, offset |-> current]

\* CreateHeader for a folder: no content, no descriptor.
CreateFolder(name) ==
    /\ ~closed /\ Len(dir) < MaxEntries
    /\ dir' = Append(dir, Entry(name, TRUE, 0, 0))
    /\ archive' = Over(archive, At(written, LocalHeader(name)))
    /\ written' = written + LocalLen(name)
    /\ current' = current + LocalLen(name)
    /\ UNCHANGED <<closed, bodies, reader>>

\* CreateHeader for a file, all of it in the window.
CreateFile(name, size, crc) ==
    LET body == written + LocalLen(name)
        all  == LocalLen(name) + size + DescriptorLen(size)
    IN  /\ ~closed /\ Len(dir) < MaxEntries
        /\ dir' = Append(dir, Entry(name, FALSE, size, crc))
        /\ archive' = Over(archive, Over(At(written, LocalHeader(name)),
                                         At(body + size, Descriptor(size))))
        /\ bodies' = bodies \cup {[at |-> body, size |-> size]}
        /\ written' = written + all
        /\ current' = current + all
        /\ UNCHANGED <<closed, reader>>

Wide(h) == IsZip64(h.size) \/ h.offset >= Max32

DirectoryHeaderSized(h) ==  \* mutant: only a big file gets the zip64 extra
    [sig |-> "directory", name |-> h.name,
     extra |-> extTimeExtraLen + IF IsZip64(h.size) THEN zip64ExtraLen ELSE 0,
     wide |-> IF IsZip64(h.size) THEN <<h.size, h.size, h.offset>> ELSE <<>>,
     usize |-> IF IsZip64(h.size) THEN Max32 ELSE Low32(h.size),
     csize |-> IF IsZip64(h.size) THEN Max32 ELSE Low32(h.size),
     offset |-> IF h.offset > Max32 THEN Max32 ELSE Low32(h.offset),
     crc |-> h.crc]

\* getEnding, an entry of the central directory: `wide' are the numbers of the
\* zip64 extra.
DirectoryHeader(h) ==
    [sig |-> "directory", name |-> h.name,
     extra |-> extTimeExtraLen + IF Wide(h) THEN zip64ExtraLen ELSE 0,
     wide |-> IF Wide(h) THEN <<h.size, h.size, h.offset>> ELSE <<>>,
     usize |-> IF Wide(h) THEN Max32 ELSE Low32(h.size),
     csize |-> IF Wide(h) THEN Max32 ELSE Low32(h.size),
     offset |-> IF h.offset > Max32 THEN Max32 ELSE Low32(h.offset),
     crc |-> h.crc]

DirectoryLen(r) == directoryHeaderLen + r.name + r.extra

\* Where the headers of a directory start; the last is where it ends.
Starts(from, headers) ==
    LET start[i \in 1 .. Len(headers) + 1] ==
            IF i = 1 THEN from ELSE start[i - 1] + DirectoryLen(headers[i - 1])
    IN  start

EndRecord(records, size, offset) ==
    [sig |-> "end", records |-> records, size |-> size, offset |-> offset]

End64Record(records, size, offset) ==
    [sig |-> "end64", records |-> records, size |-> size, offset |-> offset]

Big(records, size, offset) == records >= Max16 \/ size >= Max32 \/ offset >= Max32

\* The end records, written at `at', of a directory the writer believes to lie
\* at `offset'.
Ending(at, records, size, offset) ==
    LET locator == at + directory64EndLen
    IN  IF Big(records, size, offset)
        THEN Over(At(at, End64Record(records, size, offset)),
                  Over(At(locator, [sig |-> "locator", end64 |-> offset + size]),
                       At(locator + directory64LocLen, EndRecord(Max16, Max32, Max32))))
        ELSE At(at, EndRecord(Low16(records), Low32(size), Low32(offset)))

EndingLen(records, size, offset) ==
    directoryEndLen +
    IF Big(records, size, offset) THEN directory64EndLen + directory64LocLen ELSE 0

\* Close, with nothing cut off.
Close ==
    LET headers == [i \in 1 .. Len(dir) |-> DirectoryHeader(dir[i])]
        start   == Starts(written, headers)
        end     == start[Len(dir) + 1]
        size    == end - written
        table   == [o \in {start[i] : i \in 1 .. Len(dir)} |->
                        headers[CHOOSE i \in 1 .. Len(dir) : start[i] = o]]
    IN  /\ ~closed /\ closed' = TRUE
        /\ archive' = Over(Over(archive, table), Ending(end, Len(dir), size, current))
        /\ written' = end + EndingLen(Len(dir), size, current)
        /\ UNCHANGED <<dir, current, bodies, reader>>
-----------------------------------------------------------------------------
(* The reader.                                                             *)

Found(offset, sig) == offset \in DOMAIN archive /\ archive[offset].sig = sig

Fail == reader' = [reader EXCEPT !.pc = "failed"]

\* readDirectoryEnd, findDirectory64End: the record the archive ends with, and
\* the zip64 record instead where a field is full and there is a locator.
EndOffset == written - directoryEndLen

LocatorOffset == EndOffset - directory64LocLen

Located ==
    LET end == archive[EndOffset]
    IN  /\ end.records = Max16 \/ end.size = Max16 \/ end.offset = Max32
        /\ Found(LocatorOffset, "locator")

DirectoryEnd == archive[IF Located THEN archive[LocatorOffset].end64 ELSE EndOffset]

\* readDirectory64End rejects what is not there; a directory outside the archive
\* is rejected, too.
EndFound ==
    /\ Located => Found(archive[LocatorOffset].end64, "end64")
    /\ DirectoryEnd.offset < written

ReadEnd ==
    /\ closed /\ reader.pc = "wait"
    /\ IF EndFound
       THEN reader' = [reader EXCEPT !.pc = "directory", !.pos = DirectoryEnd.offset,
                                     !.count = DirectoryEnd.records]
       ELSE Fail
    /\ UNCHANGED <<dir, current, written, closed, archive, bodies>>

\* The number a field stands for: the i-th of the zip64 extra if it is full.
Number(r, field, i) == IF field = Max32 THEN r.wide[i] ELSE field

\* A full field takes one number from the extra.
Taken(field) == IF field = Max32 THEN 1 ELSE 0

\* readDirectoryHeader rejects an escape without an extra that resolves it.
Readable(r) ==
    r.csize = Max32 \/ r.offset = Max32 =>
        Len(r.wide) >= Taken(r.usize) + Taken(r.csize) + Taken(r.offset)

Parsed(r) ==
    [name |-> r.name, crc |-> r.crc,
     size |-> IF r.usize = Max32 /\ r.wide = <<>> THEN r.usize ELSE Number(r, r.usize, 1),
     csize |-> Number(r, r.csize, 1 + Taken(r.usize)),
     offset |-> Number(r, r.offset, 1 + Taken(r.usize) + Taken(r.csize))]

\* Reader.init: headers are read until there is a bad one.
ReadEntry ==
    /\ reader.pc = "directory" /\ Found(reader.pos, "directory")
    /\ LET r == archive[reader.pos]
       IN  /\ Readable(r)
           /\ reader' = [reader EXCEPT !.pos = @ + DirectoryLen(r),
                                       !.files = Append(@, Parsed(r))]
    /\ UNCHANGED <<dir, current, written, closed, archive, bodies>>

\* Only then are they counted, modulo 2^16.
EndDirectory ==
    /\ reader.pc = "directory"
    /\ Found(reader.pos, "directory") => ~Readable(archive[reader.pos])
    /\ IF Low16(Len(reader.files)) = Low16(reader.count)
       THEN reader' = [reader EXCEPT !.pc = "files"]
       ELSE Fail
    /\ UNCHANGED <<dir, current, written, closed, archive, bodies>>

\* File.Open, findBodyOffset and all of checksumReader: the content, then the
\* descriptor, if the entry has one, and the sum against both.
Open(i) ==
    LET f     == reader.files[i]
        body  == f.offset + fileHeaderLen + archive[f.offset].name + archive[f.offset].extra
        desr  == body + f.csize
        right == [at |-> body, size |-> f.csize] \in bodies /\ f.csize = f.size
        fits  == IF dir[i].folder THEN f.crc = 0 \/ f.crc = Sum(f.size)
                 ELSE /\ Found(desr, "descriptor") /\ archive[desr].crc = f.crc
                      /\ Sum(f.size) = f.crc
    IN  /\ reader.pc \in {"files", "opened"} /\ i \in 1 .. Len(reader.files)
        /\ IF Found(f.offset, "local")
           THEN reader' = [reader EXCEPT !.pc = "opened", !.opened = i, !.body = body,
                                         !.verdict = IF ~(right \/ dir[i].folder) THEN "garbage"
                                                     ELSE IF fits THEN "ok" ELSE "checksum"]
           ELSE Fail
        /\ UNCHANGED <<dir, current, written, closed, archive, bodies>>

Create ==
    \E name \in Names :
        \/ CreateFolder(name)
        \/ \E size \in Sizes : \E crc \in {0, Sum(size)} : CreateFile(name, size, crc)

OpenAny == \E i \in 1 .. MaxEntries : Open(i)

Done == reader.pc = "files" /\ dir = <<>> /\ UNCHANGED vars

Next == Create \/ Close \/ ReadEnd \/ ReadEntry \/ EndDirectory \/ OpenAny \/ Done

Spec == Init /\ [][Next]_vars
-----------------------------------------------------------------------------
\* The values the variables take.
TypeOK ==
    /\ dir \in Seq([name : Names, folder : BOOLEAN, size : Sizes \cup {0}, crc : {0, 1},
                   offset : Nat])
    /\ Len(dir) <= MaxEntries
    /\ current \in Nat /\ written \in Nat /\ closed \in BOOLEAN
    /\ DOMAIN archive \subseteq 0 .. written - 1
    /\ bodies \subseteq [at : 0 .. written, size : Sizes]
    /\ reader.pc \in {"wait", "directory", "files", "opened", "failed"}
    /\ reader.verdict \in {"none", "ok", "checksum", "garbage"}

\* ziphttp/writer.go:113-142, 166-197: whatever number reaches or exceeds its field,
\* a size, an offset, the directory's own place and size or the count of entries,
\* the reader gets back each entry as it was created.
ReadBack ==
    /\ reader.pc # "failed"
    /\ reader.pc \in {"files", "opened"} =>
         /\ Len(reader.files) = Len(dir)
         /\ \A i \in 1 .. Len(dir) :
              LET f == reader.files[i]
              IN  /\ f.name = dir[i].name /\ f.crc = dir[i].crc
                  /\ f.size = dir[i].size /\ f.offset = dir[i].offset

\* Where the reader knows the next thing behind an entry to start: the next entry's
\* local header, or the directory.
Behind(i) == IF i < Len(dir) THEN reader.files[i + 1].offset ELSE DirectoryEnd.offset

\* ziphttp/reader.go:229-244, 166-169: behind the local header an entry points to lies
\* the entry's content, all of it and nothing else; behind that, for a file, its
\* descriptor with the content's size; and there, to the byte, whatever the width of
\* the descriptor and of the fields that say so, the next entry or the directory.
BodyFound ==
    reader.pc = "opened" =>
        LET f    == reader.files[reader.opened]
            desr == reader.body + f.csize
        IN  /\ reader.verdict # "garbage"
            /\ IF dir[reader.opened].folder THEN Behind(reader.opened) = reader.body
               ELSE /\ Found(desr, "descriptor") /\ archive[desr].size = f.size
                    /\ Behind(reader.opened) = desr + archive[desr].len
=============================================================================
