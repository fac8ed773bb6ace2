------------------------------- MODULE MCPod -------------------------------
(* A torrent with folders one of which has a name that begins like the      *)
(* other's, an empty path component, utf-8 names of its own and of a file,  *)
(* and every kind of padding file; and a torrent of a single file.  The     *)
(* first request asks in every way, the second for two paths, written badly *)
(* and for a part of the archive.                                           *)
EXTENDS Pod, TLC

\* Codes: 0 Nul, 1 Slash, 2 PadDir, 3 PadPrefix, 4 Marker, letters from 10 on.
T == 10
A == 11
B == 12
One == 13
Zero == 14

File(path, size) == [attr |-> FALSE, path |-> path, utf8 |-> <<>>, size |-> size]

MCTorrents ==
    1 :> [name |-> <<Zero>>, utf8 |-> <<T>>,
          files |-> << File(<< <<One>>, <<A>> >>, 2),
                       [File(<< <<B>> >>, 1) EXCEPT !.attr = TRUE],
                       File(<< <<One, Zero>>, <<A>> >>, 1),
                       File(<< <<PadDir>>, <<One>> >>, 1),
                       File(<< <<One>>, <<>>, <<B>> >>, 0),
                       File(<< <<One>>, <<PadPrefix, One>> >>, 1),
                       [File(<< <<Zero>> >>, 1) EXCEPT !.utf8 = << <<A>>, <<B>> >>] >>]
    @@ 2 :> [name |-> <<T, A, B, B, One>>, utf8 |-> <<>>, files |-> << File(<<>>, 2) >>]

Whole == [unit |-> "none", comma |-> FALSE, dash |-> FALSE, first |-> Empty, last |-> Empty]
Bytes(b, e) == [unit |-> "bytes", comma |-> FALSE, dash |-> TRUE, first |-> b, last |-> e]

Plain == [hash |-> 1, has |-> {"hash", "url"}, path |-> <<Slash, T>>, values |-> <<>>,
          range |-> Whole, format |-> "zip"]

Ranges ==
    { [Plain EXCEPT !.range = h] :
        h \in { Bytes(b, e) : b \in {Empty, 3}, e \in {Empty, Malformed, 0, 2, 3, 40, 99} }
              \cup { Bytes(40, Empty), Bytes(99, Empty), Bytes(Malformed, 3), Bytes(Empty, -2),
                     [Bytes(0, 1) EXCEPT !.comma = TRUE], [Bytes(0, 1) EXCEPT !.unit = "other"] } }

Season    == <<T, Slash, One>>
SeasonB   == <<T, Slash, One, Slash, B>>
Folder    == <<T, Slash, A>>

Paths ==
    { [Plain EXCEPT !.path = p, !.format = "tar"] : p \in { <<>>, Season, SeasonB, <<B>> } }

Selections ==
    { [Plain EXCEPT !.values = v] :
        v \in { <<Season>>, <<SeasonB, Folder>>, <<Folder, SeasonB, Folder>>,
                << SeasonB \o <<Slash>> \o Folder >>, << <<Slash>>, <<>> >>,
                << <<B>> >>, << <<T, Nul>> >> } }
    \cup { [Plain EXCEPT !.values = << <<T>>, <<T>>, <<T>>, <<T>> >>],
           [Plain EXCEPT !.path = Season, !.values = <<SeasonB>>] }

Others ==
    { [Plain EXCEPT !.has = {"hash"}],
      [Plain EXCEPT !.hash = 2, !.path = <<>>],
      [Plain EXCEPT !.hash = 2, !.path = <<>>, !.format = "tar"] }

Messy == [Plain EXCEPT !.values = << <<Slash>> \o Folder \o <<Slash>>, <<>>, SeasonB >>,
                       !.range = Bytes(0, Empty)]

MCAsks == 1 :> (Ranges \cup Paths \cup Selections \cup Others) @@ 2 :> {Messy}

\* They are what the theorems about files, folders and ETags suppose of them.
ASSUME DataAssumption == WellNamed /\ WellAsked /\ Unmarked
=============================================================================
