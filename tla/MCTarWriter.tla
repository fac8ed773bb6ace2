---------------------------- MODULE MCTarWriter ----------------------------
(* A directory, a file that needs padding, an empty one, and one with a     *)
(* name too long for its field and content that fills its blocks.  The      *)
(* record of that name is the least that is a digit longer than it seems:   *)
(* seven bytes in a frame of two make nine, and the length two more.        *)
EXTENDS TarWriter

MCDirs == {1}
MCMeta == <<[len |-> 2, ascii |-> TRUE, time |-> 0],
            [len |-> 2, ascii |-> TRUE, time |-> 36],
            [len |-> 4, ascii |-> TRUE, time |-> -1],
            [len |-> 7, ascii |-> TRUE, time |-> 35]>>
MCHeaderLen == <<2, 2, 2, 16>>
MCSize == <<0, 3, 0, 2>>
MCPlace == <<0, 2, 8, 10, 28>>
=============================================================================
