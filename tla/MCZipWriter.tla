---------------------------- MODULE MCZipWriter ----------------------------
(* A directory, a file, an empty file and one with a longer name.          *)
EXTENDS ZipWriter

MCDirs == {1}
MCHeaderLen == <<2, 1, 1, 2>>
MCSize == <<0, 3, 0, 2>>
MCPlace == <<0, 2, 7, 9, 14>>
MCDescriptorLen == <<1, 1, 1, 1>>
MCEndingLen == [n \in 0 .. 4 |-> n + 1]
=============================================================================
