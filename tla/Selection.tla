----------------------------- MODULE Selection -----------------------------
(***************************************************************************)
(* Which files of a torrent an archive holds, under which names, and what  *)
(* ETag it carries: services/torrent_store.go, archive.go and the part of  *)
(* web.go that reads ?paths=.  A string is a sequence of codes, because    *)
(* where a name ends is what can go wrong here; only Slash, Nul, the       *)
(* padding names and the ETag's "?paths=" have a code of their own.        *)
(***************************************************************************)
EXTENDS Integers, Sequences, SequencesExt, FiniteSets

CONSTANTS
    Nul, Slash,
    PadDir,     \* ".pad" as one code
    PadPrefix,  \* "_____padding_file" as one code
    Marker,     \* "?paths=" as one code
    MaxSelected \* maxSelectedPaths: 1024

ASSUME CodeAssumption ==
    /\ {Nul, Slash, PadDir, PadPrefix, Marker} \subseteq Nat
    /\ MaxSelected \in Nat

Strings == Seq(Nat)

\* The elements of s that are in K, in their order.
Kept(s, K) ==
    LET kept[n \in 0 .. Len(s)] ==
            IF n = 0 THEN <<>>
            ELSE IF s[n] \in K THEN Append(kept[n - 1], s[n]) ELSE kept[n - 1]
    IN  kept[Len(s)]

Nonempty(strings) == Kept(strings, ToSet(strings) \ {<<>>})

\* strings.Join(parts, sep)
Joined(parts, sep) ==
    LET joined[n \in 0 .. Len(parts)] ==
            IF n = 0 THEN <<>>
            ELSE IF n = 1 THEN parts[1] ELSE joined[n - 1] \o <<sep>> \o parts[n]
    IN  joined[Len(parts)]

\* strings.Trim(s, "/")
Trimmed(s) ==
    LET kept == { k \in 1 .. Len(s) : s[k] # Slash }
    IN  IF kept = {} THEN <<>> ELSE SubSeq(s, Min(kept), Max(kept))

\* strings.TrimLeft(s, "/")
TrimmedLeft(s) ==
    LET kept == { k \in 1 .. Len(s) : s[k] # Slash }
    IN  IF kept = {} THEN <<>> ELSE SubSeq(s, Min(kept), Len(s))

\* The order of Go's strings: at k they differ for the first time, or s has ended.
Before(s, t) ==
    \E k \in 1 .. Len(t) :
        /\ \A j \in 1 .. k - 1 : j <= Len(s) /\ s[j] = t[j]
        /\ k > Len(s) \/ s[k] < t[k]

\* sort.Strings, slices.Compact
Sorted(S) ==
    CHOOSE q \in [1 .. Cardinality(S) -> S] :
        \A i, j \in DOMAIN q : i < j => Before(q[i], q[j])
-----------------------------------------------------------------------------
\* torrent_store.go

\* What metainfo says of a file; attr: it has the "p" of a padding file.
FileInfos == [attr : BOOLEAN, path : Seq(Strings), utf8 : Seq(Strings), size : Nat]

Components(f) == IF f.utf8 # <<>> THEN f.utf8 ELSE f.path

IsPadFile(f) ==
    \/ f.attr
    \/ /\ Components(f) # <<>>
       /\ Components(f)[1] = <<PadDir>> \/ IsPrefix(<<PadPrefix>>, Last(Components(f)))

TorrentName(torrent) == IF torrent.utf8 # <<>> THEN torrent.utf8 ELSE torrent.name

\* Empty components are dropped.
GetPath(torrent, f) == Nonempty(<<TorrentName(torrent)>> \o Components(f))

\* TorrentStore.get: the list of a torrent, in its order.
Listed(torrent) ==
    LET real == Kept(torrent.files, { f \in ToSet(torrent.files) : ~IsPadFile(f) })
    IN  [n \in 1 .. Len(real) |->
            [path |-> Joined(GetPath(torrent, real[n]), Slash), size |-> real[n].size]]
-----------------------------------------------------------------------------
\* web.go and archive.go

Rejected(values) ==
    \/ Len(values) > MaxSelected
    \/ \E n \in DOMAIN values : Nul \in ToSet(values[n])

\* Mutant of SelectedPaths: neither sorted nor compacted.
SelectedPathsAsGiven(values) == Nonempty([n \in DOMAIN values |-> Trimmed(values[n])])

\* parseSelectedPaths, where it does not reject: sorted, each once.
SelectedPaths(values) ==
    Sorted({ Trimmed(values[n]) : n \in DOMAIN values } \ {<<>>})

\* Mutant of Under: a bare prefix.
UnderBare(path, dir) == IsPrefix(dir, path)

\* The path is that of dir, or of something in it.
Under(path, dir) == path = dir \/ IsPrefix(dir \o <<Slash>>, path)

GenerateFileList(files, path, selected) ==
    Kept(files, { f \in ToSet(files) :
        /\ path = <<>> \/ Under(f.path, path)
        /\ selected = <<>> \/ \E n \in DOMAIN selected : Under(f.path, selected[n]) })

\* strings.TrimPrefix(f.path, path+"/")
NameIn(f, path) ==
    IF IsPrefix(path \o <<Slash>>, f.path)
    THEN SubSeq(f.path, Len(path) + 2, Len(f.path)) ELSE f.path

\* folderWalker.walk, and the file: a folder of its name that is not written yet
\* goes in front of it.  What Split cuts and Join puts together again is the name
\* up to one of its slashes, the outermost folder first.
Walk(es, name) ==
    LET walk[n \in 0 .. Len(name)] ==
            IF n = 0 THEN es
            ELSE LET seen   == walk[n - 1]
                     folder == SubSeq(name, 1, n)
                 IN  IF name[n] = Slash /\ ~Contains(seen, folder)
                     THEN Append(seen, folder) ELSE seen
    IN  Append(walk[Len(name)], name)

\* Mutant of Entries: a walker of its own for every file.
EntriesForgetful(files, path) ==
    LET entries[n \in 0 .. Len(files)] ==
            IF n = 0 THEN <<>>
            ELSE entries[n - 1] \o Walk(<<>>, NameIn(files[n], path))
    IN  entries[Len(files)]

Entries(files, path) ==
    LET entries[n \in 0 .. Len(files)] ==
            IF n = 0 THEN <<>> ELSE Walk(entries[n - 1], NameIn(files[n], path))
    IN  entries[Len(files)]

\* What the ETag is the sha1 of; two sources are taken to have two sums.
EtagSource(hash, path, selected) ==
    <<hash>> \o path
    \o (IF selected = <<>> THEN <<>> ELSE <<Marker>> \o Joined(selected, Nul))
=============================================================================
