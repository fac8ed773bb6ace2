--------------------------- MODULE ArchiveStream ---------------------------
(***************************************************************************)
(* The promise of services/archive.go:10-12 to a client: the archive is a  *)
(* fixed string of bytes, Size is its length, and a request for any window *)
(* of it, interrupted and resumed however often, adds up to the bytes of   *)
(* that window.                                                            *)
(***************************************************************************)
EXTENDS Integers

VARIABLES
    want,       \* length of the window the client asked for; 0 before it asks
    got,        \* how many bytes of it the client holds
    intact,     \* are those the first `got' bytes of the window?
    complete    \* the server reported the (last) response as complete

vars == <<want, got, intact, complete>>

Init == want = 0 /\ got = 0 /\ intact = TRUE /\ complete = FALSE

Ask ==
    /\ want = 0
    /\ want' \in Nat \ {0}
    /\ UNCHANGED <<got, intact, complete>>

Receive ==
    /\ ~complete
    /\ got' > got /\ got' <= want
    /\ UNCHANGED <<want, intact, complete>>

\* The connection breaks, some of the last bytes on it are lost; the client
\* goes on from what it holds with a request for the rest.
Resume ==
    /\ ~complete
    /\ got' >= 0 /\ got' <= got
    /\ UNCHANGED <<want, intact, complete>>

\* Nothing is reported complete that the client does not hold to the last byte.
Complete ==
    /\ want # 0 /\ got' = want
    /\ complete' = TRUE
    /\ UNCHANGED <<want, intact>>

Next == Ask \/ Receive \/ Resume \/ Complete

Spec == Init /\ [][Next]_vars
=============================================================================
