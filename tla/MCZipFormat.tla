---------------------------- MODULE MCZipFormat ----------------------------
(* Entries around the ends of the fields.  A header with a name of    *)
(* one byte takes 40 bytes and a short descriptor 16: behind a file of 144  *)
(* bytes the next entry, or the directory, starts at Max32 itself.          *)
EXTENDS ZipFormat, TLC

Around == {0, 144, Max32 - 1, Max32, Max32 + 1}
=============================================================================
